------------------------- MODULE TelegramTurn_proof -------------------------
(***************************************************************************)
(* Theorems about TelegramTurn, for every number of turns, messages,       *)
(* handlers and updates, and every fault a theorem does not exclude.       *)
(*                                                                         *)
(* OneTurn rests on the compare-and-swap of _claim_awaiting_run: while the *)
(* run awaits the user, no task is in a turn.  UpdateActsOnce rests on the *)
(* unique update_id: an update whose handler has yet to act is stored, has *)
(* not acted, and is no other handler's.                                   *)
(*                                                                         *)
(* What a waiting run has sent rests on SenderInv: each turn has one       *)
(* sender, which goes through its messages in order.  What a resume finds  *)
(* answered, and tells the agent, rests besides on HandlerInv: a handler   *)
(* that comes back from its awaits has seen the last turn.                 *)
(***************************************************************************)
EXTENDS TelegramTurn, TLAPS

\* A task that sends has a turn and, in a call, an index within it.
SendsMessage ==
    \A t \in Tasks :
        /\ pc[t] \in {"next", "posting"} => seenTurn[t] \in 1..Turns
        /\ pc[t] = "posting" => next[t] \in 1..Width

Typing == TypeOK /\ SendsMessage

TurnInv == OneTurn /\ (status = "awaiting_user" => \A t \in Tasks : pc[t] # "agent")

\* What resumed the agent has been stored.
ActedIsStored == \A k \in 1..Turns : resumedBy[k] # None => resumedBy[k] \in stored

\* The update of a handler between its record and its resume.
WaitingIsUnused ==
    \A h \in Tasks :
        pc[h] = "acking" =>
            /\ update[h] \in stored
            /\ \A k \in 1..Turns : resumedBy[k] # update[h]
            /\ \A g \in Tasks \ {h} : pc[g] = "acking" => update[g] # update[h]

UpdateInv == UpdateActsOnce /\ ActedIsStored /\ WaitingIsUnused

-----------------------------------------------------------------------------

\* Every step keeps the types.
LEMMA TypingNext == Typing /\ [Next]_vars => Typing'
<1> SUFFICES ASSUME Typing, [Next]_vars PROVE Typing'
  OBVIOUS
<1> USE TelegramAssumption, NoneAssumption DEF Typing, TypeOK, SendsMessage, runVars, dbVars,
        userVars, historyVars, taskVars, Tasks, Messages
<1>1. ASSUME NEW t \in Tasks, NEW count \in 0..Width, NEW asking \in SUBSET (1..count),
      AwaitUser(t, count, asking) PROVE Typing'
  <2>1. /\ turn' \in 0..Turns
        /\ size' \in [1..Turns -> 0..Width]
    BY <1>1 DEF AwaitUser
  <2>2. asks' \subseteq Messages
    <3>1. turn + 1 \in 1..Turns /\ asking \subseteq 1..Width
      BY <1>1 DEF AwaitUser
    <3>2. {<<turn + 1, j>> : j \in asking} \subseteq Messages
      BY <3>1
    <3> QED BY <1>1, <3>2 DEF AwaitUser
  <2>3. SendsMessage'
    BY <1>1 DEF AwaitUser, At, Goto
  <2>4. TypeOK'
    BY SMTT(30), <1>1, <2>1, <2>2 DEF AwaitUser, At, Goto
  <2> QED BY <2>3, <2>4
<1>2. ASSUME NEW t \in Tasks, Done(t) PROVE Typing'
  BY SMTT(30), <1>2 DEF Done, At, Goto, Return
<1>3. ASSUME NEW t \in Tasks, AgentFails(t) PROVE Typing'
  <2>1. /\ pc' \in [Tasks -> {"idle", "agent", "next", "posting", "acking"}]
        /\ update' \in [Tasks -> Updates \cup {None}]
        /\ seenTurn' \in [Tasks -> 0..Turns]
        /\ next' \in [Tasks -> 1..Width + 1]
    BY <1>3 DEF AgentFails, Return, Goto
  <2>2. TypeOK'
    BY <1>3, <2>1 DEF AgentFails, FailRun
  <2>3. SendsMessage'
    BY <1>3 DEF AgentFails, At, Return, Goto
  <2> QED BY <2>2, <2>3
<1>4. ASSUME NEW t \in Tasks, Intend(t) PROVE Typing'
  BY <1>4 DEF Intend, At, Goto, HasMore, Sending
<1>5. ASSUME NEW t \in Tasks, Show(t) PROVE Typing'
  <2>1. Sending(t) \in Messages
    BY <1>5 DEF Show, Sending
  <2> QED BY <1>5, <2>1 DEF Show
<1>6. ASSUME NEW t \in Tasks, RecordSent(t) PROVE Typing'
  <2>1. next' \in [Tasks -> 1..Width + 1]
    <3>1. next[t] \in 1..Width
      BY <1>6 DEF RecordSent, At
    <3>2. next[t] + 1 \in 1..Width + 1
      BY <3>1
    <3> QED BY <1>6, <3>2 DEF RecordSent
  <2>2. row' \in [Messages -> {"none", "sending", "sent"}]
    BY <1>6 DEF RecordSent
  <2>3. TypeOK'
    BY <1>6, <2>1, <2>2 DEF RecordSent, Goto
  <2>4. SendsMessage'
    BY <1>6 DEF RecordSent, At, Goto
  <2> QED BY <2>3, <2>4
<1>7. ASSUME NEW t \in Tasks, AllSent(t) PROVE Typing'
  <2>1. /\ pc' \in [Tasks -> {"idle", "agent", "next", "posting", "acking"}]
        /\ update' \in [Tasks -> Updates \cup {None}]
        /\ seenTurn' \in [Tasks -> 0..Turns]
        /\ next' \in [Tasks -> 1..Width + 1]
    BY <1>7 DEF AllSent, Return, Goto
  <2>2. TypeOK'
    BY <1>7, <2>1 DEF AllSent
  <2>3. SendsMessage'
    BY <1>7 DEF AllSent, At, Return, Goto
  <2> QED BY <2>2, <2>3
<1>8. ASSUME NEW t \in Tasks, SendFails(t) PROVE Typing'
  BY SMTT(30), <1>8 DEF SendFails, At, Goto, Return, FailRun
<1>9. ASSUME NEW h \in Handlers, NEW u \in Updates, ResumeByCommand(h, u) PROVE Typing'
  BY <1>9 DEF ResumeByCommand, At, Goto, Resume, Delivered, Responses, Outbounds
<1>10. ASSUME NEW h \in Handlers, NEW u \in Updates, Ignore(h, u) PROVE Typing'
  BY <1>10 DEF Ignore, Delivered
<1>11. ASSUME NEW h \in Handlers, NEW u \in Updates, NEW m \in Messages, RecordResponse(h, u, m)
      PROVE Typing'
  BY <1>11 DEF RecordResponse, At, Goto, Delivered
<1>12. ASSUME NEW h \in Handlers, ResumeByResponse(h) PROVE Typing'
  BY <1>12 DEF ResumeByResponse, At, Goto, Resume, Claimable, Responses, Outbounds
<1>13. ASSUME NEW h \in Handlers, LeaveRecorded(h) PROVE Typing'
  BY SMTT(30), <1>13 DEF LeaveRecorded, At, Goto, Return
<1>14. ASSUME NEW u \in Updates, NEW m \in Messages, Answer(u, m) PROVE Typing'
  BY <1>14 DEF Answer
<1>15. ASSUME NEW u \in Updates, NEW c \in Commands, Command(u, c) PROVE Typing'
  BY <1>15 DEF Command
<1>16. ASSUME Crash PROVE Typing'
  BY SMTT(30), <1>16 DEF Crash
<1>17. ASSUME Interrupt PROVE Typing'
  BY <1>17 DEF Interrupt
<1>18. ASSUME UNCHANGED vars PROVE Typing'
  BY <1>18 DEF vars
<1> QED
  BY <1>1, <1>2, <1>3, <1>4, <1>5, <1>6, <1>7, <1>8, <1>9, <1>10, <1>11, <1>12, <1>13, <1>14,
     <1>15, <1>16, <1>17, <1>18
     DEF Next, TurnStep, HandlerStep, UserStep

\* Only the task whose compare-and-swap finds the run awaiting starts a turn.
LEMMA TurnNext == Typing /\ TurnInv /\ [Next]_vars => TurnInv'
<1> SUFFICES ASSUME Typing, TurnInv, [Next]_vars PROVE TurnInv'
  OBVIOUS
<1> USE DEF Typing, TypeOK, TurnInv, OneTurn, runVars, taskVars, Tasks
<1>1. ASSUME NEW t \in Tasks, NEW count \in 0..Width, NEW asking \in SUBSET (1..count),
      AwaitUser(t, count, asking) PROVE TurnInv'
  BY <1>1 DEF AwaitUser, At, Goto
<1>2. ASSUME NEW t \in Tasks, Done(t) PROVE TurnInv'
  BY <1>2 DEF Done, At, Goto, Return
<1>3. ASSUME NEW t \in Tasks, AgentFails(t) PROVE TurnInv'
  BY <1>3 DEF AgentFails, At, Goto, Return, FailRun
<1>4. ASSUME NEW t \in Tasks, Intend(t) PROVE TurnInv'
  BY <1>4 DEF Intend, At, Goto
<1>5. ASSUME NEW t \in Tasks, Show(t) PROVE TurnInv'
  BY <1>5 DEF Show
<1>6. ASSUME NEW t \in Tasks, RecordSent(t) PROVE TurnInv'
  BY <1>6 DEF RecordSent, At, Goto
<1>7. ASSUME NEW t \in Tasks, AllSent(t) PROVE TurnInv'
  BY <1>7 DEF AllSent, At, Goto, Return
<1>8. ASSUME NEW t \in Tasks, SendFails(t) PROVE TurnInv'
  BY <1>8 DEF SendFails, At, Goto, Return, FailRun
<1>9. ASSUME NEW h \in Handlers, NEW u \in Updates, ResumeByCommand(h, u) PROVE TurnInv'
  BY <1>9 DEF ResumeByCommand, At, Goto, Resume, Delivered
<1>10. ASSUME NEW h \in Handlers, NEW u \in Updates, Ignore(h, u) PROVE TurnInv'
  BY <1>10 DEF Ignore, Delivered
<1>11. ASSUME NEW h \in Handlers, NEW u \in Updates, NEW m \in Messages, RecordResponse(h, u, m)
      PROVE TurnInv'
  BY <1>11 DEF RecordResponse, At, Goto, Delivered
<1>12. ASSUME NEW h \in Handlers, ResumeByResponse(h) PROVE TurnInv'
  BY <1>12 DEF ResumeByResponse, At, Goto, Resume, Claimable
<1>13. ASSUME NEW h \in Handlers, LeaveRecorded(h) PROVE TurnInv'
  BY <1>13 DEF LeaveRecorded, At, Goto, Return
<1>14. ASSUME NEW u \in Updates, NEW m \in Messages, Answer(u, m) PROVE TurnInv'
  BY <1>14 DEF Answer
<1>15. ASSUME NEW u \in Updates, NEW c \in Commands, Command(u, c) PROVE TurnInv'
  BY <1>15 DEF Command
<1>16. ASSUME Crash PROVE TurnInv'
  BY <1>16 DEF Crash
<1>17. ASSUME Interrupt PROVE TurnInv'
  BY <1>17 DEF Interrupt
<1>18. ASSUME UNCHANGED vars PROVE TurnInv'
  BY <1>18 DEF vars
<1> QED
  BY <1>1, <1>2, <1>3, <1>4, <1>5, <1>6, <1>7, <1>8, <1>9, <1>10, <1>11, <1>12, <1>13, <1>14,
     <1>15, <1>16, <1>17, <1>18
     DEF Next, TurnStep, HandlerStep, UserStep

\* Only a new update is recorded or acts.
LEMMA UpdateNext == Typing /\ UpdateInv /\ [Next]_vars => UpdateInv'
<1> SUFFICES ASSUME Typing, UpdateInv, [Next]_vars PROVE UpdateInv'
  OBVIOUS
<1> USE NoneAssumption DEF Typing, TypeOK, UpdateInv, UpdateActsOnce, ActedIsStored,
        WaitingIsUnused, dbVars, historyVars, taskVars, Tasks
<1>1. ASSUME NEW t \in Tasks, NEW count \in 0..Width, NEW asking \in SUBSET (1..count),
      AwaitUser(t, count, asking) PROVE UpdateInv'
  BY <1>1 DEF AwaitUser, At, Goto
<1>2. ASSUME NEW t \in Tasks, Done(t) PROVE UpdateInv'
  BY <1>2 DEF Done, At, Goto, Return
<1>3. ASSUME NEW t \in Tasks, AgentFails(t) PROVE UpdateInv'
  BY <1>3 DEF AgentFails, At, Goto, Return, FailRun
<1>4. ASSUME NEW t \in Tasks, Intend(t) PROVE UpdateInv'
  BY <1>4 DEF Intend, At, Goto
<1>5. ASSUME NEW t \in Tasks, Show(t) PROVE UpdateInv'
  BY <1>5 DEF Show
<1>6. ASSUME NEW t \in Tasks, RecordSent(t) PROVE UpdateInv'
  BY <1>6 DEF RecordSent, At, Goto
<1>7. ASSUME NEW t \in Tasks, AllSent(t) PROVE UpdateInv'
  BY <1>7 DEF AllSent, At, Goto, Return
<1>8. ASSUME NEW t \in Tasks, SendFails(t) PROVE UpdateInv'
  BY <1>8 DEF SendFails, At, Goto, Return, FailRun
<1>9. ASSUME NEW h \in Handlers, NEW u \in Updates, ResumeByCommand(h, u) PROVE UpdateInv'
  BY <1>9 DEF ResumeByCommand, At, Goto, Resume, Delivered, NewUpdate
<1>10. ASSUME NEW h \in Handlers, NEW u \in Updates, Ignore(h, u) PROVE UpdateInv'
  BY <1>10 DEF Ignore, Delivered, NewUpdate
<1>11. ASSUME NEW h \in Handlers, NEW u \in Updates, NEW m \in Messages, RecordResponse(h, u, m)
      PROVE UpdateInv'
  BY <1>11 DEF RecordResponse, At, Goto, Delivered, NewUpdate
<1>12. ASSUME NEW h \in Handlers, ResumeByResponse(h) PROVE UpdateInv'
  BY <1>12 DEF ResumeByResponse, At, Goto, Resume, Claimable
<1>13. ASSUME NEW h \in Handlers, LeaveRecorded(h) PROVE UpdateInv'
  BY <1>13 DEF LeaveRecorded, At, Goto, Return
<1>14. ASSUME NEW u \in Updates, NEW m \in Messages, Answer(u, m) PROVE UpdateInv'
  BY <1>14 DEF Answer
<1>15. ASSUME NEW u \in Updates, NEW c \in Commands, Command(u, c) PROVE UpdateInv'
  BY <1>15 DEF Command
<1>16. ASSUME Crash PROVE UpdateInv'
  BY <1>16 DEF Crash
<1>17. ASSUME Interrupt PROVE UpdateInv'
  BY <1>17 DEF Interrupt
<1>18. ASSUME UNCHANGED vars PROVE UpdateInv'
  BY <1>18 DEF vars
<1> QED
  BY <1>1, <1>2, <1>3, <1>4, <1>5, <1>6, <1>7, <1>8, <1>9, <1>10, <1>11, <1>12, <1>13, <1>14,
     <1>15, <1>16, <1>17, <1>18
     DEF Next, TurnStep, HandlerStep, UserStep

\* The first state.
LEMMA InitInv == Init => Typing /\ TurnInv /\ UpdateInv
<1> SUFFICES ASSUME Init PROVE Typing /\ TurnInv /\ UpdateInv
  OBVIOUS
<1> USE TelegramAssumption DEF Init
<1>1. TypeOK
  BY DEF TypeOK, Tasks, Messages
<1>2. SendsMessage
  BY DEF SendsMessage
<1>3. TurnInv
  BY DEF TurnInv, OneTurn
<1>4. UpdateInv
  BY DEF UpdateInv, UpdateActsOnce, ActedIsStored, WaitingIsUnused
<1> QED BY <1>1, <1>2, <1>3, <1>4 DEF Typing

\* Every variable keeps its type, and every row that is written is a row of a
\* message the turn has.
THEOREM TypeCorrect == Spec => []TypeOK
<1>1. Typing => TypeOK
  BY DEF Typing
<1> QED BY <1>1, InitInv, TypingNext, PTL DEF Spec

\* However answers and commands race for a run, one of them resumes it at a
\* time; this also holds when a sender fails the run meanwhile, and after a
\* crash.
THEOREM TurnsExcludeEachOther == Spec => []OneTurn
<1>1. TurnInv => OneTurn
  BY DEF TurnInv
<1> QED BY <1>1, InitInv, TypingNext, TurnNext, PTL DEF Spec

\* However often Telegram delivers an update, it resumes the agent at most
\* once.
THEOREM UpdatesActOnce == Spec => []UpdateActsOnce
<1>1. UpdateInv => UpdateActsOnce
  BY DEF UpdateInv
<1> QED BY <1>1, InitInv, TypingNext, UpdateNext, PTL DEF Spec

-----------------------------------------------------------------------------
(* Messages, answers and what a resumed agent is told *)

\* A task that sends the messages of a turn.
Sends(t) == pc[t] \in {"next", "posting"}

\* Every turn has one sender.
OneSender == \A t, u \in Tasks : Sends(t) /\ Sends(u) /\ seenTurn[t] = seenTurn[u] => t = u

\* What lies behind a sender is sent, what lies before it has no row.
InOrder(t) ==
    /\ seenTurn[t] <= turn
    /\ \A i \in 1..Width :
        /\ i < next[t] => row[<<seenTurn[t], i>>] = "sent"
        /\ i > next[t] => row[<<seenTurn[t], i>>] = "none"
        /\ i = next[t] /\ pc[t] = "next" => row[<<seenTurn[t], i>>] = "none"
        /\ i = next[t] /\ pc[t] = "posting" => row[<<seenTurn[t], i>>] = "sending"

\* Turns that have not ended have no rows.
LaterUnsent == \A m \in Messages : TurnNo(m) > turn => row[m] = "none"

SenderInv == OneSender /\ (\A t \in Tasks : Sends(t) => InOrder(t)) /\ LaterUnsent

\* The user answers messages that were sent, of the turns there have been.
AnsweredInv == \A m \in answered : row[m] = "sent"

\* A handler that waits for its two calls has seen the turn that is the last.
HandlerInv == \A h \in Tasks : pc[h] = "acking" => seenTurn[h] = turn

\* A sender posts messages of its turn.
PostsWithin == \A t \in Tasks : pc[t] = "posting" => next[t] <= size[seenTurn[t]]

\* Messages that ask are messages of a turn, and a turn asks with all or none.
AsksInv ==
    \A m \in asks :
        /\ TurnNo(m) <= turn
        /\ m[2] <= size[TurnNo(m)]
        /\ \A i \in 1..size[TurnNo(m)] : <<TurnNo(m), i>> \in asks

\* A run awaits the user only after a turn.
WaitsAfterTurn == status = "awaiting_user" => turn > 0

WaitInv == WaitsAfterTurn /\ WaitsWithAllSent

\* One sender goes through the messages of a turn in order.
LEMMA SenderNext ==
    ASSUME Typing, SenderInv, [Next]_vars PROVE SenderInv'
<1> USE TelegramAssumption DEF Typing, TypeOK, SendsMessage, Sends, runVars, dbVars,
        userVars, historyVars, taskVars, Tasks, Messages, TurnNo, SenderInv, OneSender,
        InOrder, LaterUnsent, Sending
<1>1. ASSUME NEW t \in Tasks, NEW count \in 0..Width, NEW asking \in SUBSET (1..count),
      AwaitUser(t, count, asking) PROVE SenderInv'
  <2>1. /\ turn' = turn + 1 /\ row' = row /\ pc' = [pc EXCEPT ![t] = "next"]
        /\ seenTurn' = [seenTurn EXCEPT ![t] = turn + 1] /\ next' = [next EXCEPT ![t] = 1]
        /\ turn + 1 \in 1..Turns
    BY <1>1 DEF AwaitUser, Goto
  <2>2. \A u \in Tasks \ {t} : Sends(u)' => Sends(u) /\ seenTurn'[u] = seenTurn[u] /\ seenTurn[u] <= turn
    BY <2>1
  <2>3. \A i \in 1..Width : row[<<turn + 1, i>>] = "none"
    <3> TAKE i \in 1..Width
    <3>1. <<turn + 1, i>> \in Messages /\ TurnNo(<<turn + 1, i>>) > turn
      BY <2>1
    <3> QED BY <3>1
  <2>4. ASSUME NEW u \in Tasks, NEW v \in Tasks, Sends(u)', Sends(v)', seenTurn'[u] = seenTurn'[v]
        PROVE  u = v
    BY <2>1, <2>2, <2>4
  <2>5. ASSUME NEW u \in Tasks, Sends(u)'
        PROVE  InOrder(u)'
    <3>1. CASE u = t
      BY <2>1, <2>3, <3>1
    <3>2. CASE u # t
      <4>1. /\ Sends(u) /\ seenTurn'[u] = seenTurn[u] /\ pc'[u] = pc[u] /\ next'[u] = next[u]
            /\ row' = row /\ turn' >= turn
        BY <2>1, <2>2, <2>5, <3>2
      <4>2. InOrder(u) /\ turn \in Nat /\ turn' \in Nat /\ seenTurn[u] \in Nat
        BY <2>1, <4>1
      <4> HIDE DEF Typing, TypeOK, SendsMessage, SenderInv, OneSender, LaterUnsent
      <4> QED BY <4>1, <4>2
    <3> QED BY <3>1, <3>2
  <2>6. \A m \in Messages : TurnNo(m) > turn' => row'[m] = "none"
    BY <2>1
  <2> QED BY <2>4, <2>5, <2>6
<1>2. ASSUME NEW t \in Tasks, Done(t) PROVE SenderInv'
  BY <1>2 DEF Done, At, Goto, Return
<1>3. ASSUME NEW t \in Tasks, AgentFails(t) PROVE SenderInv'
  BY <1>3 DEF AgentFails, At, Goto, Return, FailRun
<1>4. ASSUME NEW t \in Tasks, Intend(t) PROVE SenderInv'
  <2> DEFINE s == Sending(t)
  <2>1. /\ row' = [row EXCEPT ![s] = "sending"] /\ pc' = [pc EXCEPT ![t] = "posting"]
        /\ UNCHANGED <<turn, seenTurn, next>> /\ pc[t] = "next"
    BY <1>4 DEF Intend, At, Goto
  <2>2. next[t] \in 1..Width /\ seenTurn[t] \in 1..Turns
    BY <1>4 DEF Intend, At, HasMore
  <2>3. s \in Messages /\ seenTurn[t] <= turn /\ TurnNo(s) <= turn
    BY <2>1, <2>2
  <2>4. ASSUME NEW u \in Tasks, Sends(u)' PROVE Sends(u)
    BY <2>1, <2>4
  <2>5. ASSUME NEW u \in Tasks, Sends(u)'
        PROVE  InOrder(u)'
    <3>1. CASE u = t
      <4>1. /\ pc'[t] = "posting" /\ next'[t] = next[t] /\ seenTurn'[t] = seenTurn[t]
            /\ row'[s] = "sending" /\ s = <<seenTurn[t], next[t]>> /\ turn' = turn
        BY <2>1, <2>2, <2>3
      <4>2. \A i \in 1..Width : i # next[t] => row'[<<seenTurn[t], i>>] = row[<<seenTurn[t], i>>]
        BY <2>1, <2>2, <2>3
      <4>3. InOrder(t) /\ next[t] \in 1..Width
        BY <2>1, <2>2
      <4> HIDE DEF Typing, TypeOK, SendsMessage, SenderInv, OneSender, LaterUnsent, s
      <4> QED BY <3>1, <4>1, <4>2, <4>3
    <3>2. CASE u # t
      <4>1. seenTurn[u] # seenTurn[t]
        BY <2>1, <2>4, <2>5, <3>2
      <4>2. \A i \in 1..Width : <<seenTurn[u], i>> # s
        BY <4>1
      <4>3. \A i \in 1..Width : row'[<<seenTurn[u], i>>] = row[<<seenTurn[u], i>>]
        BY <2>1, <2>3, <4>2
      <4>4. /\ pc'[u] = pc[u] /\ next'[u] = next[u] /\ seenTurn'[u] = seenTurn[u] /\ turn' = turn
            /\ InOrder(u)
        BY <2>1, <2>4, <2>5, <3>2
      <4> QED BY <4>3, <4>4
    <3> QED BY <3>1, <3>2
  <2>6. \A m \in Messages : TurnNo(m) > turn' => row'[m] = "none"
    BY <2>1, <2>3
  <2>7. OneSender'
    BY <2>1, <2>4
  <2> QED BY <2>5, <2>6, <2>7
<1>5. ASSUME NEW t \in Tasks, Show(t) PROVE SenderInv'
  BY <1>5 DEF Show
<1>6. ASSUME NEW t \in Tasks, RecordSent(t) PROVE SenderInv'
  <2> DEFINE s == Sending(t)
  <2>1. /\ row' = [row EXCEPT ![s] = "sent"] /\ pc' = [pc EXCEPT ![t] = "next"]
        /\ next' = [next EXCEPT ![t] = @ + 1] /\ UNCHANGED <<turn, seenTurn>> /\ pc[t] = "posting"
    BY <1>6 DEF RecordSent, At, Goto
  <2>2. next[t] \in 1..Width /\ seenTurn[t] \in 1..Turns
    BY <1>6 DEF RecordSent, At
  <2>3. s \in Messages /\ seenTurn[t] <= turn /\ TurnNo(s) <= turn
    BY <2>1, <2>2
  <2>4. ASSUME NEW u \in Tasks, Sends(u)' PROVE Sends(u)
    BY <2>1, <2>4
  <2>5. ASSUME NEW u \in Tasks, Sends(u)'
        PROVE  InOrder(u)'
    <3>1. CASE u = t
      <4>1. /\ pc'[t] = "next" /\ next'[t] = next[t] + 1 /\ seenTurn'[t] = seenTurn[t]
            /\ row'[s] = "sent" /\ s = <<seenTurn[t], next[t]>> /\ turn' = turn
        BY <2>1, <2>2, <2>3
      <4>2. \A i \in 1..Width : i # next[t] => row'[<<seenTurn[t], i>>] = row[<<seenTurn[t], i>>]
        BY <2>1, <2>2, <2>3
      <4>3. InOrder(t) /\ next[t] \in 1..Width
        BY <2>1, <2>2
      <4> HIDE DEF Typing, TypeOK, SendsMessage, SenderInv, OneSender, LaterUnsent, s
      <4> QED BY <3>1, <4>1, <4>2, <4>3
    <3>2. CASE u # t
      <4>1. seenTurn[u] # seenTurn[t]
        BY <2>1, <2>4, <2>5, <3>2
      <4>2. \A i \in 1..Width : <<seenTurn[u], i>> # s
        BY <4>1
      <4>3. \A i \in 1..Width : row'[<<seenTurn[u], i>>] = row[<<seenTurn[u], i>>]
        BY <2>1, <2>3, <4>2
      <4>4. /\ pc'[u] = pc[u] /\ next'[u] = next[u] /\ seenTurn'[u] = seenTurn[u] /\ turn' = turn
            /\ InOrder(u)
        BY <2>1, <2>4, <2>5, <3>2
      <4> QED BY <4>3, <4>4
    <3> QED BY <3>1, <3>2
  <2>6. \A m \in Messages : TurnNo(m) > turn' => row'[m] = "none"
    BY <2>1, <2>3
  <2>7. OneSender'
    BY <2>1, <2>4
  <2> QED BY <2>5, <2>6, <2>7
<1>7. ASSUME NEW t \in Tasks, AllSent(t) PROVE SenderInv'
  BY <1>7 DEF AllSent, At, Goto, Return, HasMore
<1>8. ASSUME NEW t \in Tasks, SendFails(t) PROVE SenderInv'
  BY <1>8 DEF SendFails, At, Goto, Return, FailRun
<1>9. ASSUME NEW h \in Handlers, NEW u \in Updates, ResumeByCommand(h, u) PROVE SenderInv'
  BY <1>9 DEF ResumeByCommand, At, Goto, Resume, Delivered
<1>10. ASSUME NEW h \in Handlers, NEW u \in Updates, Ignore(h, u) PROVE SenderInv'
  BY <1>10 DEF Ignore, Delivered
<1>11. ASSUME NEW h \in Handlers, NEW u \in Updates, NEW m \in Messages, RecordResponse(h, u, m)
      PROVE SenderInv'
  BY <1>11 DEF RecordResponse, At, Goto, Delivered, Recordable
<1>12. ASSUME NEW h \in Handlers, ResumeByResponse(h) PROVE SenderInv'
  BY <1>12 DEF ResumeByResponse, At, Goto, Resume, Claimable
<1>13. ASSUME NEW h \in Handlers, LeaveRecorded(h) PROVE SenderInv'
  BY <1>13 DEF LeaveRecorded, At, Goto, Return
<1>14. ASSUME NEW u \in Updates, NEW m \in Messages, Answer(u, m) PROVE SenderInv'
  BY <1>14 DEF Answer
<1>15. ASSUME NEW u \in Updates, NEW c \in Commands, Command(u, c) PROVE SenderInv'
  BY <1>15 DEF Command
<1>16. ASSUME Crash PROVE SenderInv'
  BY <1>16 DEF Crash
<1>17. ASSUME Interrupt PROVE SenderInv'
  BY <1>17 DEF Interrupt
<1>18. ASSUME UNCHANGED vars PROVE SenderInv'
  BY <1>18 DEF vars
<1> QED
  BY <1>1, <1>2, <1>3, <1>4, <1>5, <1>6, <1>7, <1>8, <1>9, <1>10, <1>11, <1>12, <1>13, <1>14,
     <1>15, <1>16, <1>17, <1>18
     DEF Next, TurnStep, HandlerStep, UserStep

\* A row that is sent stays sent.
LEMMA AnsweredNext ==
    ASSUME Typing, SenderInv, AnsweredInv, [Next]_vars PROVE AnsweredInv'
<1> USE TelegramAssumption DEF Typing, TypeOK, SendsMessage, Sends, runVars, dbVars,
        userVars, historyVars, taskVars, Tasks, Messages, TurnNo, SenderInv, OneSender,
        InOrder, LaterUnsent, Sending, AnsweredInv
<1>1. ASSUME NEW t \in Tasks, NEW count \in 0..Width, NEW asking \in SUBSET (1..count),
      AwaitUser(t, count, asking) PROVE AnsweredInv'
  BY <1>1 DEF AwaitUser, At, Goto
<1>2. ASSUME NEW t \in Tasks, Done(t) PROVE AnsweredInv'
  BY <1>2 DEF Done, At, Goto, Return
<1>3. ASSUME NEW t \in Tasks, AgentFails(t) PROVE AnsweredInv'
  BY <1>3 DEF AgentFails, At, Goto, Return, FailRun
<1>4. ASSUME NEW t \in Tasks, Intend(t) PROVE AnsweredInv'
  <2>1. next[t] \in 1..Width /\ seenTurn[t] \in 1..Turns /\ row[Sending(t)] = "none"
    BY <1>4 DEF Intend, At, HasMore
  <2>2. row' = [row EXCEPT ![Sending(t)] = "sending"] /\ answered' = answered
    BY <1>4 DEF Intend
  <2> QED BY <2>1, <2>2
<1>5. ASSUME NEW t \in Tasks, Show(t) PROVE AnsweredInv'
  BY <1>5 DEF Show
<1>6. ASSUME NEW t \in Tasks, RecordSent(t) PROVE AnsweredInv'
  BY <1>6 DEF RecordSent, At, Goto, Sending
<1>7. ASSUME NEW t \in Tasks, AllSent(t) PROVE AnsweredInv'
  BY <1>7 DEF AllSent, At, Goto, Return, HasMore
<1>8. ASSUME NEW t \in Tasks, SendFails(t) PROVE AnsweredInv'
  BY <1>8 DEF SendFails, At, Goto, Return, FailRun
<1>9. ASSUME NEW h \in Handlers, NEW u \in Updates, ResumeByCommand(h, u) PROVE AnsweredInv'
  BY <1>9 DEF ResumeByCommand, At, Goto, Resume, Delivered
<1>10. ASSUME NEW h \in Handlers, NEW u \in Updates, Ignore(h, u) PROVE AnsweredInv'
  BY <1>10 DEF Ignore, Delivered
<1>11. ASSUME NEW h \in Handlers, NEW u \in Updates, NEW m \in Messages, RecordResponse(h, u, m)
      PROVE AnsweredInv'
  BY <1>11 DEF RecordResponse, At, Goto, Delivered, Recordable
<1>12. ASSUME NEW h \in Handlers, ResumeByResponse(h) PROVE AnsweredInv'
  BY <1>12 DEF ResumeByResponse, At, Goto, Resume, Claimable
<1>13. ASSUME NEW h \in Handlers, LeaveRecorded(h) PROVE AnsweredInv'
  BY <1>13 DEF LeaveRecorded, At, Goto, Return
<1>14. ASSUME NEW u \in Updates, NEW m \in Messages, Answer(u, m) PROVE AnsweredInv'
  BY <1>14 DEF Answer
<1>15. ASSUME NEW u \in Updates, NEW c \in Commands, Command(u, c) PROVE AnsweredInv'
  BY <1>15 DEF Command
<1>16. ASSUME Crash PROVE AnsweredInv'
  BY <1>16 DEF Crash
<1>17. ASSUME Interrupt PROVE AnsweredInv'
  BY <1>17 DEF Interrupt
<1>18. ASSUME UNCHANGED vars PROVE AnsweredInv'
  BY <1>18 DEF vars
<1> QED
  BY <1>1, <1>2, <1>3, <1>4, <1>5, <1>6, <1>7, <1>8, <1>9, <1>10, <1>11, <1>12, <1>13, <1>14,
     <1>15, <1>16, <1>17, <1>18
     DEF Next, TurnStep, HandlerStep, UserStep

\* Without a crash, a sender leaves only a turn that is sent completely, or a
\* run that has failed.
LEMMA WaitsNext ==
    ASSUME "crash" \notin Faults, Typing, SenderInv, WaitInv, [Next]_vars PROVE WaitInv'
<1> USE TelegramAssumption DEF Typing, TypeOK, SendsMessage, Sends, runVars, dbVars,
        userVars, historyVars, taskVars, Tasks, Messages, TurnNo, SenderInv, OneSender,
        InOrder, LaterUnsent, Sending, WaitInv, WaitsAfterTurn, WaitsWithAllSent
<1>1. ASSUME NEW t \in Tasks, NEW count \in 0..Width, NEW asking \in SUBSET (1..count),
      AwaitUser(t, count, asking) PROVE WaitInv'
  BY <1>1 DEF AwaitUser, At, Goto
<1>2. ASSUME NEW t \in Tasks, Done(t) PROVE WaitInv'
  BY <1>2 DEF Done, At, Goto, Return
<1>3. ASSUME NEW t \in Tasks, AgentFails(t) PROVE WaitInv'
  BY <1>3 DEF AgentFails, At, Goto, Return, FailRun
<1>4. ASSUME NEW t \in Tasks, Intend(t) PROVE WaitInv'
  BY <1>4 DEF Intend, At, Goto, HasMore, Sending
<1>5. ASSUME NEW t \in Tasks, Show(t) PROVE WaitInv'
  BY <1>5 DEF Show
<1>6. ASSUME NEW t \in Tasks, RecordSent(t) PROVE WaitInv'
  BY <1>6 DEF RecordSent, At, Goto, Sending
<1>7. ASSUME NEW t \in Tasks, AllSent(t) PROVE WaitInv'
  <2>1. /\ status' = status /\ turn' = turn /\ size' = size /\ row' = row /\ pc[t] = "next"
        /\ seenTurn' = [seenTurn EXCEPT ![t] = 0] /\ pc' = [pc EXCEPT ![t] = "idle"]
        /\ ~(next[t] <= size[seenTurn[t]]) /\ seenTurn[t] \in 1..Turns
    BY <1>7 DEF AllSent, At, Goto, Return, HasMore
  <2>2. CASE seenTurn[t] = turn
    <3>1. \A i \in 1..size[turn] : i \in 1..Width /\ i < next[t]
      BY <2>1, <2>2
    <3> QED BY <2>1, <2>2, <3>1
  <2>3. CASE seenTurn[t] # turn
    BY <2>1, <2>3
  <2> QED BY <2>2, <2>3
<1>8. ASSUME NEW t \in Tasks, SendFails(t) PROVE WaitInv'
  BY <1>8 DEF SendFails, At, Goto, Return, FailRun
<1>9. ASSUME NEW h \in Handlers, NEW u \in Updates, ResumeByCommand(h, u) PROVE WaitInv'
  BY <1>9 DEF ResumeByCommand, At, Goto, Resume, Delivered
<1>10. ASSUME NEW h \in Handlers, NEW u \in Updates, Ignore(h, u) PROVE WaitInv'
  BY <1>10 DEF Ignore, Delivered
<1>11. ASSUME NEW h \in Handlers, NEW u \in Updates, NEW m \in Messages, RecordResponse(h, u, m)
      PROVE WaitInv'
  BY <1>11 DEF RecordResponse, At, Goto, Delivered, Recordable
<1>12. ASSUME NEW h \in Handlers, ResumeByResponse(h) PROVE WaitInv'
  BY <1>12 DEF ResumeByResponse, At, Goto, Resume, Claimable
<1>13. ASSUME NEW h \in Handlers, LeaveRecorded(h) PROVE WaitInv'
  BY <1>13 DEF LeaveRecorded, At, Goto, Return
<1>14. ASSUME NEW u \in Updates, NEW m \in Messages, Answer(u, m) PROVE WaitInv'
  BY <1>14 DEF Answer
<1>15. ASSUME NEW u \in Updates, NEW c \in Commands, Command(u, c) PROVE WaitInv'
  BY <1>15 DEF Command
<1>18. ASSUME UNCHANGED vars PROVE WaitInv'
  BY <1>18 DEF vars
<1> QED
  BY <1>1, <1>2, <1>3, <1>4, <1>5, <1>6, <1>7, <1>8, <1>9, <1>10, <1>11, <1>12, <1>13, <1>14,
     <1>15, <1>18
     DEF Next, TurnStep, HandlerStep, UserStep

\* No turn ends while a handler waits for its two calls.
LEMMA HandlerNext ==
    ASSUME "outrun" \notin Faults, Typing, HandlerInv, [Next]_vars PROVE HandlerInv'
<1> USE TelegramAssumption DEF Typing, TypeOK, SendsMessage, Sends, runVars, dbVars,
        userVars, historyVars, taskVars, Tasks, Messages, TurnNo, HandlerInv
<1>1. ASSUME NEW t \in Tasks, NEW count \in 0..Width, NEW asking \in SUBSET (1..count),
      AwaitUser(t, count, asking) PROVE HandlerInv'
  BY <1>1 DEF AwaitUser, At, Goto, NotOutrun
<1>2. ASSUME NEW t \in Tasks, Done(t) PROVE HandlerInv'
  BY <1>2 DEF Done, At, Goto, Return
<1>3. ASSUME NEW t \in Tasks, AgentFails(t) PROVE HandlerInv'
  BY <1>3 DEF AgentFails, At, Goto, Return, FailRun
<1>4. ASSUME NEW t \in Tasks, Intend(t) PROVE HandlerInv'
  BY <1>4 DEF Intend, At, Goto, HasMore, Sending
<1>5. ASSUME NEW t \in Tasks, Show(t) PROVE HandlerInv'
  BY <1>5 DEF Show
<1>6. ASSUME NEW t \in Tasks, RecordSent(t) PROVE HandlerInv'
  BY <1>6 DEF RecordSent, At, Goto, Sending
<1>7. ASSUME NEW t \in Tasks, AllSent(t) PROVE HandlerInv'
  BY <1>7 DEF AllSent, At, Goto, Return, HasMore
<1>8. ASSUME NEW t \in Tasks, SendFails(t) PROVE HandlerInv'
  BY <1>8 DEF SendFails, At, Goto, Return, FailRun
<1>9. ASSUME NEW h \in Handlers, NEW u \in Updates, ResumeByCommand(h, u) PROVE HandlerInv'
  BY <1>9 DEF ResumeByCommand, At, Goto, Resume, Delivered
<1>10. ASSUME NEW h \in Handlers, NEW u \in Updates, Ignore(h, u) PROVE HandlerInv'
  BY <1>10 DEF Ignore, Delivered
<1>11. ASSUME NEW h \in Handlers, NEW u \in Updates, NEW m \in Messages, RecordResponse(h, u, m)
      PROVE HandlerInv'
  BY <1>11 DEF RecordResponse, At, Goto, Delivered, Recordable
<1>12. ASSUME NEW h \in Handlers, ResumeByResponse(h) PROVE HandlerInv'
  BY <1>12 DEF ResumeByResponse, At, Goto, Resume, Claimable
<1>13. ASSUME NEW h \in Handlers, LeaveRecorded(h) PROVE HandlerInv'
  BY <1>13 DEF LeaveRecorded, At, Goto, Return
<1>14. ASSUME NEW u \in Updates, NEW m \in Messages, Answer(u, m) PROVE HandlerInv'
  BY <1>14 DEF Answer
<1>15. ASSUME NEW u \in Updates, NEW c \in Commands, Command(u, c) PROVE HandlerInv'
  BY <1>15 DEF Command
<1>16. ASSUME Crash PROVE HandlerInv'
  BY <1>16 DEF Crash
<1>17. ASSUME Interrupt PROVE HandlerInv'
  BY <1>17 DEF Interrupt
<1>18. ASSUME UNCHANGED vars PROVE HandlerInv'
  BY <1>18 DEF vars
<1> QED
  BY <1>1, <1>2, <1>3, <1>4, <1>5, <1>6, <1>7, <1>8, <1>9, <1>10, <1>11, <1>12, <1>13, <1>14,
     <1>15, <1>16, <1>17, <1>18
     DEF Next, TurnStep, HandlerStep, UserStep

\* A sender posts only while its turn has more messages.
LEMMA PostsNext ==
    ASSUME Typing, SenderInv, PostsWithin, [Next]_vars PROVE PostsWithin'
<1> USE TelegramAssumption DEF Typing, TypeOK, SendsMessage, Sends, runVars, dbVars,
        userVars, historyVars, taskVars, Tasks, Messages, TurnNo, PostsWithin, SenderInv, InOrder
<1>1. ASSUME NEW t \in Tasks, NEW count \in 0..Width, NEW asking \in SUBSET (1..count),
      AwaitUser(t, count, asking) PROVE PostsWithin'
  BY <1>1 DEF AwaitUser, At, Goto
<1>2. ASSUME NEW t \in Tasks, Done(t) PROVE PostsWithin'
  BY <1>2 DEF Done, At, Goto, Return
<1>3. ASSUME NEW t \in Tasks, AgentFails(t) PROVE PostsWithin'
  BY <1>3 DEF AgentFails, At, Goto, Return, FailRun
<1>4. ASSUME NEW t \in Tasks, Intend(t) PROVE PostsWithin'
  BY <1>4 DEF Intend, At, Goto, HasMore, Sending
<1>5. ASSUME NEW t \in Tasks, Show(t) PROVE PostsWithin'
  BY <1>5 DEF Show
<1>6. ASSUME NEW t \in Tasks, RecordSent(t) PROVE PostsWithin'
  BY <1>6 DEF RecordSent, At, Goto, Sending
<1>7. ASSUME NEW t \in Tasks, AllSent(t) PROVE PostsWithin'
  BY <1>7 DEF AllSent, At, Goto, Return, HasMore
<1>8. ASSUME NEW t \in Tasks, SendFails(t) PROVE PostsWithin'
  BY <1>8 DEF SendFails, At, Goto, Return, FailRun
<1>9. ASSUME NEW h \in Handlers, NEW u \in Updates, ResumeByCommand(h, u) PROVE PostsWithin'
  BY <1>9 DEF ResumeByCommand, At, Goto, Resume, Delivered
<1>10. ASSUME NEW h \in Handlers, NEW u \in Updates, Ignore(h, u) PROVE PostsWithin'
  BY <1>10 DEF Ignore, Delivered
<1>11. ASSUME NEW h \in Handlers, NEW u \in Updates, NEW m \in Messages, RecordResponse(h, u, m)
      PROVE PostsWithin'
  BY <1>11 DEF RecordResponse, At, Goto, Delivered, Recordable
<1>12. ASSUME NEW h \in Handlers, ResumeByResponse(h) PROVE PostsWithin'
  BY <1>12 DEF ResumeByResponse, At, Goto, Resume, Claimable
<1>13. ASSUME NEW h \in Handlers, LeaveRecorded(h) PROVE PostsWithin'
  BY <1>13 DEF LeaveRecorded, At, Goto, Return
<1>14. ASSUME NEW u \in Updates, NEW m \in Messages, Answer(u, m) PROVE PostsWithin'
  BY <1>14 DEF Answer
<1>15. ASSUME NEW u \in Updates, NEW c \in Commands, Command(u, c) PROVE PostsWithin'
  BY <1>15 DEF Command
<1>16. ASSUME Crash PROVE PostsWithin'
  BY <1>16 DEF Crash
<1>17. ASSUME Interrupt PROVE PostsWithin'
  BY <1>17 DEF Interrupt
<1>18. ASSUME UNCHANGED vars PROVE PostsWithin'
  BY <1>18 DEF vars
<1> QED
  BY <1>1, <1>2, <1>3, <1>4, <1>5, <1>6, <1>7, <1>8, <1>9, <1>10, <1>11, <1>12, <1>13, <1>14,
     <1>15, <1>16, <1>17, <1>18
     DEF Next, TurnStep, HandlerStep, UserStep

\* Without mixed turns, a turn asks with all of its messages or with none.
LEMMA AsksNext ==
    ASSUME "mixed" \notin Faults, Typing, AsksInv, [Next]_vars PROVE AsksInv'
<1> USE TelegramAssumption DEF Typing, TypeOK, SendsMessage, Sends, runVars, dbVars,
        userVars, historyVars, taskVars, Tasks, Messages, TurnNo, AsksInv
<1>1. ASSUME NEW t \in Tasks, NEW count \in 0..Width, NEW asking \in SUBSET (1..count),
      AwaitUser(t, count, asking) PROVE AsksInv'
  <2>1. /\ turn' = turn + 1 /\ size' = [size EXCEPT ![turn + 1] = count]
        /\ asks' = asks \cup {<<turn + 1, j>> : j \in asking}
        /\ asking \in {{}, 1..count} /\ turn + 1 \in 1..Turns
    BY <1>1 DEF AwaitUser
  <2> SUFFICES ASSUME NEW m \in asks'
               PROVE  /\ TurnNo(m) <= turn'
                      /\ m[2] <= size'[TurnNo(m)]
                      /\ \A i \in 1..size'[TurnNo(m)] : <<TurnNo(m), i>> \in asks'
    OBVIOUS
  <2>2. CASE m \in asks
    <3>1. TurnNo(m) \in 1..Turns /\ TurnNo(m) <= turn
      BY <2>2
    <3>2. size'[TurnNo(m)] = size[TurnNo(m)]
      BY <2>1, <3>1
    <3> QED BY <2>1, <2>2, <3>1, <3>2
  <2>3. CASE m \notin asks
    <3>1. PICK j \in asking : m = <<turn + 1, j>>
      BY <2>1, <2>3
    <3>2. TurnNo(m) = turn + 1 /\ m[2] = j /\ size'[turn + 1] = count /\ j <= count
      BY <2>1, <3>1
    <3>3. asking = 1..count
      BY <2>1
    <3>4. \A i \in 1..count : <<turn + 1, i>> \in asks'
      BY <2>1, <3>3
    <3> QED BY <2>1, <3>2, <3>4
  <2> QED BY <2>2, <2>3
<1>2. ASSUME NEW t \in Tasks, Done(t) PROVE AsksInv'
  BY <1>2 DEF Done, At, Goto, Return
<1>3. ASSUME NEW t \in Tasks, AgentFails(t) PROVE AsksInv'
  BY <1>3 DEF AgentFails, At, Goto, Return, FailRun
<1>4. ASSUME NEW t \in Tasks, Intend(t) PROVE AsksInv'
  BY <1>4 DEF Intend, At, Goto, HasMore, Sending
<1>5. ASSUME NEW t \in Tasks, Show(t) PROVE AsksInv'
  BY <1>5 DEF Show
<1>6. ASSUME NEW t \in Tasks, RecordSent(t) PROVE AsksInv'
  BY <1>6 DEF RecordSent, At, Goto, Sending
<1>7. ASSUME NEW t \in Tasks, AllSent(t) PROVE AsksInv'
  BY <1>7 DEF AllSent, At, Goto, Return, HasMore
<1>8. ASSUME NEW t \in Tasks, SendFails(t) PROVE AsksInv'
  BY <1>8 DEF SendFails, At, Goto, Return, FailRun
<1>9. ASSUME NEW h \in Handlers, NEW u \in Updates, ResumeByCommand(h, u) PROVE AsksInv'
  BY <1>9 DEF ResumeByCommand, At, Goto, Resume, Delivered
<1>10. ASSUME NEW h \in Handlers, NEW u \in Updates, Ignore(h, u) PROVE AsksInv'
  BY <1>10 DEF Ignore, Delivered
<1>11. ASSUME NEW h \in Handlers, NEW u \in Updates, NEW m \in Messages, RecordResponse(h, u, m)
      PROVE AsksInv'
  BY <1>11 DEF RecordResponse, At, Goto, Delivered, Recordable
<1>12. ASSUME NEW h \in Handlers, ResumeByResponse(h) PROVE AsksInv'
  BY <1>12 DEF ResumeByResponse, At, Goto, Resume, Claimable
<1>13. ASSUME NEW h \in Handlers, LeaveRecorded(h) PROVE AsksInv'
  BY <1>13 DEF LeaveRecorded, At, Goto, Return
<1>14. ASSUME NEW u \in Updates, NEW m \in Messages, Answer(u, m) PROVE AsksInv'
  BY <1>14 DEF Answer
<1>15. ASSUME NEW u \in Updates, NEW c \in Commands, Command(u, c) PROVE AsksInv'
  BY <1>15 DEF Command
<1>16. ASSUME Crash PROVE AsksInv'
  BY <1>16 DEF Crash
<1>17. ASSUME Interrupt PROVE AsksInv'
  BY <1>17 DEF Interrupt
<1>18. ASSUME UNCHANGED vars PROVE AsksInv'
  BY <1>18 DEF vars
<1> QED
  BY <1>1, <1>2, <1>3, <1>4, <1>5, <1>6, <1>7, <1>8, <1>9, <1>10, <1>11, <1>12, <1>13, <1>14,
     <1>15, <1>16, <1>17, <1>18
     DEF Next, TurnStep, HandlerStep, UserStep

\* What a resume puts into the prompt.
LEMMA HeardStep ==
    ASSUME "outrun" \notin Faults, Go \notin Commands, Typing, AnsweredInv, HandlerInv, [Next]_vars,
           status = "awaiting_user", status' = "running_agent"
    PROVE  {m \in answered : TurnNo(m) = turn} \subseteq heard'
<1> USE TelegramAssumption DEF Typing, TypeOK, AnsweredInv, HandlerInv, runVars, Tasks
<1>1. ASSUME NEW t \in Tasks, TurnStep(t) PROVE FALSE
  BY <1>1 DEF TurnStep, AwaitUser, Done, AgentFails, Intend, Show, RecordSent, AllSent,
     SendFails, FailRun
<1>2. ASSUME NEW h \in Handlers, NEW u \in Updates, ResumeByCommand(h, u)
      PROVE  heard' = heard \cup Responses(turn)
  BY <1>2 DEF ResumeByCommand, Resume
<1>3. ASSUME NEW h \in Handlers, ResumeByResponse(h) PROVE heard' = heard \cup Responses(turn)
  BY <1>3 DEF ResumeByResponse, Resume, At
<1>4. heard' = heard \cup Responses(turn)
  BY <1>1, <1>2, <1>3 DEF Next, HandlerStep, UserStep, Ignore, RecordResponse, LeaveRecorded,
     Answer,
     Command, Crash, Interrupt, vars
<1> QED BY <1>4 DEF Responses, Outbounds

\* A handler that resumes the agent has every response the turn asks for.
LEMMA CompleteStep ==
    ASSUME Typing, SenderInv, AnsweredInv, HandlerInv, PostsWithin, AsksInv, WaitInv,
           NEW h \in Handlers, ResumeByResponse(h)
    PROVE  Asking(turn) \subseteq answered
<1>1. /\ Undisturbed(h) /\ pc[h] = "acking" /\ status = "awaiting_user"
      /\ seenTurn[h] = turn /\ Ready(turn) /\ turn \in 1..Turns
  BY DEF ResumeByResponse, At, Claimable, HandlerInv, WaitInv, WaitsAfterTurn, Typing, TypeOK,
     Tasks
<1>2. SUFFICES ASSUME NEW m \in asks, TurnNo(m) = turn PROVE m \in answered
  BY DEF Asking
<1>3. PICK i \in 1..size[turn] : m = <<turn, i>> /\ m \in Messages
  <2>1. m \in Messages /\ m[2] <= size[turn]
    BY <1>2 DEF AsksInv, Typing, TypeOK
  <2>2. m = <<turn, m[2]>> /\ m[2] \in 1..size[turn]
    BY <1>1, <1>2, <2>1 DEF Messages, TurnNo, Typing, TypeOK
  <2> QED BY <2>1, <2>2
<1>4. CASE \E u \in Tasks : Sends(u) /\ seenTurn[u] = turn
  <2>1. PICK u \in Tasks : Sends(u) /\ seenTurn[u] = turn
    BY <1>4
  <2>2. pc[u] = "posting" /\ next[u] \in 1..Width /\ next[u] <= size[turn]
    BY <1>1, <2>1 DEF Sends, Undisturbed, Awaits, PostsWithin, Typing, SendsMessage
  <2> DEFINE s == <<turn, next[u]>>
  <2>3. row[s] = "sending" /\ s \in Messages
    BY <1>1, <2>1, <2>2 DEF SenderInv, InOrder, Messages
  <2>4. s \in asks
    BY <1>1, <1>2, <2>2 DEF AsksInv, Typing, TypeOK
  <2>5. s \in Expected(turn)
    BY <2>3, <2>4 DEF Expected, Outbounds, TurnNo
  <2>6. s \in answered
    BY <1>1, <2>5 DEF Ready
  <2> QED BY <2>3, <2>6 DEF AnsweredInv
<1>5. CASE \A u \in Tasks : Sends(u) => seenTurn[u] # turn
  <2>1. row[m] = "sent"
    BY <1>1, <1>3, <1>5 DEF WaitInv, WaitsWithAllSent, Sends
  <2>2. m \in Expected(turn)
    BY <1>2, <1>3, <2>1 DEF Expected, Outbounds
  <2> QED BY <1>1, <2>2 DEF Ready
<1> QED BY <1>4, <1>5

\* In the first state nothing was sent.
LEMMA ConversationInit ==
    Init => /\ SenderInv /\ AnsweredInv /\ HandlerInv /\ PostsWithin /\ AsksInv
            /\ WaitInv
<1> SUFFICES ASSUME Init
             PROVE  /\ SenderInv /\ AnsweredInv /\ HandlerInv /\ PostsWithin /\ AsksInv
                    /\ WaitInv
  OBVIOUS
<1> QED BY DEF Init, SenderInv, OneSender, LaterUnsent, Sends, AnsweredInv, HandlerInv, PostsWithin,
           AsksInv, WaitInv, WaitsAfterTurn, WaitsWithAllSent

\* The senders of a run go through its turns in order, whatever fails.
LEMMA SendersInOrder == Spec => [](Typing /\ SenderInv /\ AnsweredInv /\ PostsWithin)
<1> QED BY InitInv, ConversationInit, TypingNext, SenderNext, AnsweredNext, PostsNext, PTL DEF Spec

\* As long as the process does not die, a run that awaits the user has sent all
\* of its turn, or is sending it: a failed send fails the run.
THEOREM WaitsWithEverythingSent == "crash" \notin Faults => (Spec => []WaitsWithAllSent)
<1> SUFFICES ASSUME "crash" \notin Faults PROVE Spec => []WaitsWithAllSent
  OBVIOUS
<1>1. Typing /\ SenderInv /\ WaitInv /\ [Next]_vars => WaitInv'
  BY WaitsNext
<1>2. WaitInv => WaitsWithAllSent
  BY DEF WaitInv
<1> QED BY <1>1, <1>2, ConversationInit, SendersInOrder, PTL DEF Spec

\* The next prompt lists every response to the turn that was recorded, also one
\* that came between the last expected one and the resume, and after restarts;
\* unless the user sends GO or SKIP, or a whole turn outruns a handler.
THEOREM AnswersReachTheAgent ==
    "outrun" \notin Faults /\ Go \notin Commands => (Spec => AnswersAreHeard)
<1> SUFFICES ASSUME "outrun" \notin Faults, Go \notin Commands PROVE Spec => AnswersAreHeard
  OBVIOUS
<1> DEFINE Heard == status = "awaiting_user" /\ status' = "running_agent"
                      => {m \in answered : TurnNo(m) = turn} \subseteq heard'
<1>1. Typing /\ HandlerInv /\ [Next]_vars => HandlerInv'
  BY HandlerNext
<1>2. Typing /\ AnsweredInv /\ HandlerInv /\ [Next]_vars => [Heard]_vars
  BY HeardStep
<1>3. AnswersAreHeard <=> [][Heard]_vars
  BY PTL DEF AnswersAreHeard
<1> QED BY <1>1, <1>2, <1>3, ConversationInit, SendersInOrder, PTL DEF Spec

\* A handler that decides, on the rows there are, that a turn is answered is
\* right about the messages still to be sent: unless the process dies, a turn
\* mixes messages that ask with others, or a turn outruns the handler.
THEOREM ResumesAreComplete ==
    Faults \cap {"crash", "mixed", "outrun"} = {} => (Spec => ResumesWhenComplete)
<1> SUFFICES ASSUME Faults \cap {"crash", "mixed", "outrun"} = {} PROVE Spec => ResumesWhenComplete
  OBVIOUS
<1> DEFINE ConversationInv ==
        /\ Typing /\ SenderInv /\ AnsweredInv /\ PostsWithin /\ HandlerInv /\ AsksInv
        /\ WaitInv
           Complies == \A t \in Handlers : ResumeByResponse(t) => Asking(turn) \subseteq answered
<1>1. Init => ConversationInv
  BY InitInv, ConversationInit
<1>2. ConversationInv /\ [Next]_vars => ConversationInv'
  BY TypingNext, SenderNext, AnsweredNext, PostsNext, HandlerNext, AsksNext, WaitsNext
<1>3. ConversationInv => Complies
  BY CompleteStep
<1>4. ResumesWhenComplete <=> [][Complies]_vars
  BY PTL DEF ResumesWhenComplete
<1>5. ConversationInv /\ [Next]_vars => [Complies]_vars
  BY <1>3
<1> HIDE DEF ConversationInv, Complies
<1> QED BY <1>1, <1>2, <1>4, <1>5, PTL DEF Spec
=============================================================================
