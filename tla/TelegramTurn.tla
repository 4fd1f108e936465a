---------------------------- MODULE TelegramTurn ----------------------------
(***************************************************************************)
(* The conversation of one run: the messages of a turn are sent one by     *)
(* one, the user answers them in any order or sends a command, and the     *)
(* last answer resumes the agent (workflow.py, the Telegram half).         *)
(*                                                                         *)
(* The webhook handlers, and the worker for the first turn, are tasks of   *)
(* one event loop: a task is interleaved with others only where it awaits  *)
(* (Undisturbed).  One action is one stretch between two database commits  *)
(* or two awaits.  A session does not expire what it has loaded, so a      *)
(* handler keeps the run's turn_seq it read before its awaits (seenTurn).  *)
(*                                                                         *)
(* A message is named by its turn and its index in the turn's output.      *)
(* Chat ids, button texts and callback ids are left out: every update      *)
(* comes from the allowed chat and presses a button the message has.       *)
(***************************************************************************)
EXTENDS Naturals, FiniteSets

CONSTANTS
    Turns,      \* bound on the number of turns of the run
    Width,      \* bound on the number of messages of a turn
    Worker,     \* the task that runs the first turn
    Handlers,   \* webhook requests in progress at the same time
    Updates,    \* Telegram updates: what the user does, one update each
    Go, Text,   \* commands: GO or SKIP, and a text that answers no message
    Commands,   \* those of them the user sends
    None,       \* null
    Faults      \* see FaultKinds

(***************************************************************************)
(* crash   the web process dies between any two of its steps               *)
(* agent   the agent raises                                                *)
(* send    sendMessage raises                                              *)
(* mixed   one turn mixes messages that ask for a response with messages   *)
(*         that do not                                                     *)
(* outrun  a whole turn runs while a handler awaits answerCallbackQuery or *)
(*         editMessageText                                                 *)
(***************************************************************************)
FaultKinds == {"crash", "agent", "send", "mixed", "outrun"}

ASSUME TelegramAssumption ==
    /\ Turns \in Nat \ {0} /\ Width \in Nat \ {0}
    /\ Worker \notin Handlers
    /\ Commands \subseteq {Go, Text} /\ Go # Text
    /\ Faults \subseteq FaultKinds

Tasks == {Worker} \cup Handlers
Messages == (1..Turns) \X (1..Width)
TurnNo(m) == m[1]

ASSUME NoneAssumption == None \notin Updates \cup Messages \cup Commands

VARIABLES
    status,     \* status of the run
    turn,       \* turn_seq: number of turns the agent has finished
    size,       \* number of messages of each turn's output
    asks,       \* messages with buttons or force_reply
    row,        \* outbound telegram_interactions: status, "none" without a row
    shown,      \* messages the user can see
    sent,       \* what the user did: the message answered or the command
    stored,     \* updates whose inbound row is committed
    answered,   \* messages with a recorded response
    heard,      \* messages whose response was put into a prompt
    resumedBy,  \* the update that resumed the agent after each turn
    pc,         \* program counter of each task
    update,     \* the update a handler works on
    seenTurn,   \* run.turn_seq as loaded by a handler
    next        \* index of the next message a task sends

runVars == <<status, turn, size, asks>>
dbVars == <<row, stored, answered>>
userVars == <<shown, sent>>
historyVars == <<heard, resumedBy>>
taskVars == <<pc, update, seenTurn, next>>
vars == <<runVars, dbVars, userVars, historyVars, taskVars>>

TypeOK ==
    /\ status \in {"running_agent", "awaiting_user", "completed", "failed"}
    /\ turn \in 0..Turns
    /\ size \in [1..Turns -> 0..Width]
    /\ asks \subseteq Messages
    /\ row \in [Messages -> {"none", "sending", "sent"}]
    /\ shown \subseteq Messages
    /\ sent \in [Updates -> Messages \cup Commands \cup {None}]
    /\ stored \subseteq Updates
    /\ answered \subseteq Messages
    /\ heard \subseteq Messages
    /\ resumedBy \in [1..Turns -> Updates \cup {None}]
    /\ pc \in [Tasks -> {"idle", "agent", "next", "posting", "acking"}]
    /\ update \in [Tasks -> Updates \cup {None}]
    /\ seenTurn \in [Tasks -> 0..Turns]
    /\ next \in [Tasks -> 1..Width + 1]

\* The run is in its first turn, run by the worker.
Init ==
    /\ status = "running_agent"
    /\ turn = 0
    /\ size = [k \in 1..Turns |-> 0]
    /\ asks = {}
    /\ row = [m \in Messages |-> "none"]
    /\ shown = {}
    /\ sent = [u \in Updates |-> None]
    /\ stored = {}
    /\ answered = {}
    /\ heard = {}
    /\ resumedBy = [k \in 1..Turns |-> None]
    /\ pc = [t \in Tasks |-> IF t = Worker THEN "agent" ELSE "idle"]
    /\ update = [t \in Tasks |-> None]
    /\ seenTurn = [t \in Tasks |-> 0]
    /\ next = [t \in Tasks |-> 1]

-----------------------------------------------------------------------------
(* Control *)

Awaits == {"idle", "agent", "posting", "acking"}
Undisturbed(t) == \A u \in Tasks \ {t} : pc[u] \in Awaits
At(t, counter) == pc[t] = counter /\ Undisturbed(t)
Goto(t, counter) == pc' = [pc EXCEPT ![t] = counter]

Return(t) ==
    /\ Goto(t, "idle")
    /\ update' = [update EXCEPT ![t] = None]
    /\ seenTurn' = [seenTurn EXCEPT ![t] = 0]
    /\ next' = [next EXCEPT ![t] = 1]

\* _fail_run ends the run unless it has ended.
FailRun == status' = IF status \in {"running_agent", "awaiting_user"} THEN "failed" ELSE status

-----------------------------------------------------------------------------
(* The user *)

Unused == {u \in Updates : sent[u] = None}

\* The user presses a button of a message or replies to it.
Answer(u, m) ==
    /\ u \in Unused
    /\ m \in shown
    /\ sent' = [sent EXCEPT ![u] = m]
    /\ UNCHANGED <<runVars, dbVars, shown, historyVars, taskVars>>

\* The user sends GO or SKIP, or a text that answers no message.
Command(u, command) ==
    /\ u \in Unused
    /\ sent' = [sent EXCEPT ![u] = command]
    /\ UNCHANGED <<runVars, dbVars, shown, historyVars, taskVars>>

-----------------------------------------------------------------------------
(* Answers: handle_telegram_update *)

\* Variant: update_id is not unique.
AnyUpdate(u) == TRUE

\* The insert of the inbound row does not violate the unique update_id.
NewUpdate(u) == u \notin stored

\* Variant: the messages of earlier turns, which GO may have left, as well.
OutboundsSoFar(k) == {m \in Messages : TurnNo(m) <= k /\ row[m] # "none"}

\* _current_turn_outbounds
Outbounds(k) == {m \in Messages : TurnNo(m) = k /\ row[m] # "none"}

Expected(k) == Outbounds(k) \cap asks

\* Variant: one answer is enough.
SomeAnswered(k) == Outbounds(k) \cap answered # {}

\* _current_turn_ready
Ready(k) ==
    IF Expected(k) = {} THEN Outbounds(k) \cap answered # {} ELSE Expected(k) \subseteq answered

\* Variant: responses are listed for the messages that ask for one.
ExpectedResponses(k) == Expected(k) \cap answered

\* The responses _responses_prompt lists.
Responses(k) == Outbounds(k) \cap answered

\* Variant: the status is not compared when it is swapped.
AnyStatus == TRUE

\* The WHERE clause of _claim_awaiting_run.
Claimable == status = "awaiting_user"

\* _resume_from_telegram up to the agent's turn.
Resume(t, u, responses) ==
    /\ status' = "running_agent"
    /\ heard' = heard \cup responses
    /\ resumedBy' = [resumedBy EXCEPT ![turn] = u]
    /\ Goto(t, "agent")
    /\ update' = [update EXCEPT ![t] = u]
    /\ seenTurn' = [seenTurn EXCEPT ![t] = turn]
    /\ UNCHANGED <<turn, size, asks, next>>

\* An update is delivered until the webhook has answered it, so also again
\* while a handler works on it: the insert then finds the stored row.
Delivered(h, u) == At(h, "idle") /\ sent[u] # None /\ NewUpdate(u)

Recordable(m) == row[m] = "sent" /\ status = "awaiting_user" /\ m \notin answered

\* A callback or a reply: the response is recorded and committed, the handler
\* goes on to answer the callback query and to edit the message.
RecordResponse(h, u, m) ==
    /\ Delivered(h, u)
    /\ sent[u] = m
    /\ Recordable(m)
    /\ stored' = stored \cup {u}
    /\ answered' = answered \cup {m}
    /\ Goto(h, "acking")
    /\ update' = [update EXCEPT ![h] = u]
    /\ seenTurn' = [seenTurn EXCEPT ![h] = turn]
    /\ UNCHANGED <<runVars, row, userVars, historyVars, next>>

\* stale, duplicate or no_pending_run: the update is stored and answered.
Ignore(h, u) ==
    /\ Delivered(h, u)
    /\ \/ sent[u] \in Messages /\ ~Recordable(sent[u])
       \/ sent[u] \in Commands /\ status # "awaiting_user"
    /\ stored' = stored \cup {u}
    /\ UNCHANGED <<runVars, row, answered, userVars, historyVars, taskVars>>

\* GO and SKIP carry no responses; a text carries those of the current turn.
ResumeByCommand(h, u) ==
    /\ Delivered(h, u)
    /\ sent[u] \in Commands
    /\ status = "awaiting_user"
    /\ stored' = stored \cup {u}
    /\ Resume(h, u, IF sent[u] = Text THEN Responses(turn) ELSE {})
    /\ UNCHANGED <<row, answered, userVars>>

\* Both calls have returned (their failures are swallowed) and every expected
\* response is there: claim the run.
ResumeByResponse(h) ==
    /\ At(h, "acking")
    /\ Ready(seenTurn[h])
    /\ Claimable
    /\ Resume(h, update[h], Responses(seenTurn[h]))
    /\ UNCHANGED <<dbVars, userVars>>

\* ... or not (recorded), or somebody else claimed the run (already_resuming).
LeaveRecorded(h) ==
    /\ At(h, "acking")
    /\ ~Ready(seenTurn[h]) \/ ~Claimable
    /\ Return(h)
    /\ UNCHANGED <<runVars, dbVars, userVars, historyVars>>

-----------------------------------------------------------------------------
(* The agent's turn: _execute_claimed_turn *)

\* Other handlers do not stay in their two calls for a whole turn.
NotOutrun == "outrun" \in Faults \/ \A h \in Tasks : pc[h] # "acking"

\* The turn ends with messages for the user; the status is committed first.
AwaitUser(t, count, asking) ==
    /\ At(t, "agent")
    /\ NotOutrun
    /\ turn < Turns
    /\ asking \subseteq 1..count
    /\ "mixed" \in Faults \/ asking \in {{}, 1..count}
    /\ turn' = turn + 1
    /\ status' = "awaiting_user"
    /\ size' = [size EXCEPT ![turn + 1] = count]
    /\ asks' = asks \cup {<<turn + 1, i>> : i \in asking}
    /\ Goto(t, "next")
    /\ seenTurn' = [seenTurn EXCEPT ![t] = turn + 1]
    /\ next' = [next EXCEPT ![t] = 1]
    /\ UNCHANGED <<dbVars, userVars, historyVars, update>>

\* The turn is done: RunDurability has the rest.
Done(t) ==
    /\ At(t, "agent")
    /\ NotOutrun
    /\ status' = "completed"
    /\ Return(t)
    /\ UNCHANGED <<turn, size, asks, dbVars, userVars, historyVars>>

AgentFails(t) ==
    /\ At(t, "agent")
    /\ "agent" \in Faults
    /\ FailRun
    /\ Return(t)
    /\ UNCHANGED <<turn, size, asks, dbVars, userVars, historyVars>>

-----------------------------------------------------------------------------
(* Sending: send_agent_messages and _send_idempotent *)

Sending(t) == <<seenTurn[t], next[t]>>

\* Variant: the last message is left out.
HasMoreButLast(t) == next[t] < size[seenTurn[t]]

HasMore(t) == next[t] <= size[seenTurn[t]]

\* The intent row is committed before the call.
Intend(t) ==
    /\ At(t, "next")
    /\ HasMore(t)
    /\ row' = [row EXCEPT ![Sending(t)] = "sending"]
    /\ Goto(t, "posting")
    /\ UNCHANGED <<runVars, stored, answered, userVars, historyVars, update, seenTurn, next>>

\* Telegram shows the message before the call returns.
Show(t) ==
    /\ pc[t] = "posting"
    /\ Sending(t) \notin shown
    /\ shown' = shown \cup {Sending(t)}
    /\ UNCHANGED <<runVars, dbVars, sent, historyVars, taskVars>>

\* The call returns the message id.
RecordSent(t) ==
    /\ At(t, "posting")
    /\ Sending(t) \in shown
    /\ row' = [row EXCEPT ![Sending(t)] = "sent"]
    /\ next' = [next EXCEPT ![t] = @ + 1]
    /\ Goto(t, "next")
    /\ UNCHANGED <<runVars, stored, answered, userVars, historyVars, update, seenTurn>>

AllSent(t) ==
    /\ At(t, "next")
    /\ ~HasMore(t)
    /\ Return(t)
    /\ UNCHANGED <<runVars, dbVars, userVars, historyVars>>

SendFails(t) ==
    /\ At(t, "posting")
    /\ "send" \in Faults
    /\ FailRun
    /\ Return(t)
    /\ UNCHANGED <<turn, size, asks, dbVars, userVars, historyVars>>

-----------------------------------------------------------------------------
(* Crash and restart *)

Crash ==
    /\ \E t \in Tasks : pc[t] # "idle"
    /\ pc' = [t \in Tasks |-> "idle"]
    /\ update' = [t \in Tasks |-> None]
    /\ seenTurn' = [t \in Tasks |-> 0]
    /\ next' = [t \in Tasks |-> 1]
    /\ UNCHANGED <<runVars, dbVars, userVars, historyVars>>

\* reconcile_startup: a turn whose lease ran out.
Interrupt ==
    /\ status = "running_agent"
    /\ \A t \in Tasks : pc[t] # "agent"
    /\ status' = "failed"
    /\ UNCHANGED <<turn, size, asks, dbVars, userVars, historyVars, taskVars>>

-----------------------------------------------------------------------------

TurnStep(t) ==
    \/ \E count \in 0..Width : \E asking \in SUBSET (1..count) : AwaitUser(t, count, asking)
    \/ Done(t) \/ AgentFails(t)
    \/ Intend(t) \/ Show(t) \/ RecordSent(t) \/ AllSent(t) \/ SendFails(t)

HandlerStep(h) ==
    \/ \E u \in Updates : ResumeByCommand(h, u) \/ Ignore(h, u)
    \/ \E u \in Updates, m \in Messages : RecordResponse(h, u, m)
    \/ ResumeByResponse(h) \/ LeaveRecorded(h)

UserStep ==
    \/ \E u \in Updates, m \in Messages : Answer(u, m)
    \/ \E u \in Updates, command \in Commands : Command(u, command)

Next ==
    \/ \E t \in Tasks : TurnStep(t)
    \/ \E h \in Handlers : HandlerStep(h)
    \/ UserStep
    \/ "crash" \in Faults /\ (Crash \/ Interrupt)

Spec == Init /\ [][Next]_vars

-----------------------------------------------------------------------------
(* Properties *)

Asking(k) == {m \in asks : TurnNo(m) = k}

\* The agent works on one turn at a time: two answers that both complete the
\* set, or an answer and a command, do not both resume it.
OneTurn == \A t, u \in Tasks : pc[t] = "agent" /\ pc[u] = "agent" => t = u

\* No update resumes the agent twice, however often it is delivered.
UpdateActsOnce ==
    \A j, k \in 1..Turns : resumedBy[j] = resumedBy[k] /\ resumedBy[j] # None => j = k

\* An answer resumes the agent only when every message of the turn that asks
\* for a response has one, also those that are not sent yet.
ResumesWhenComplete ==
    [][\A t \in Handlers : ResumeByResponse(t) => Asking(turn) \subseteq answered]_vars

\* A run waits for the user only with all messages of its turn sent, or while
\* a task is still sending them.
WaitsWithAllSent ==
        /\ status = "awaiting_user"
        /\ \A t \in Tasks : pc[t] \in {"next", "posting"} => seenTurn[t] # turn
    =>
        \A i \in 1..size[turn] : row[<<turn, i>>] = "sent"

\* When the agent is resumed, it is told every recorded response to the turn.
AnswersAreHeard ==
    [][status = "awaiting_user" /\ status' = "running_agent"
          => {m \in answered : TurnNo(m) = turn} \subseteq heard']_vars

\* The user has answered everything the turn asks for.
Complete ==
    /\ status = "awaiting_user" /\ turn > 0
    /\ Asking(turn) # {} /\ Asking(turn) \subseteq answered

\* Synchronous code runs on, and the two calls of a handler return (they have
\* a timeout).  Nothing is assumed of the agent or of the user.
Fairness ==
    /\ \A t \in Tasks : WF_vars(Intend(t) \/ AllSent(t))
    /\ \A h \in Handlers : WF_vars(ResumeByResponse(h) \/ LeaveRecorded(h))

FairSpec == Spec /\ Fairness

\* Once all expected responses are recorded, the run is resumed.
CompleteResumes == Complete ~> status # "awaiting_user"
=============================================================================
