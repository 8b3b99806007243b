-------------------------- MODULE ConversationTurn --------------------------
(***************************************************************************)
(* One conversation's turns: ConversationService::send_message / cancel /  *)
(* delete, WorkerTaskManagerImpl (one OnceCell per conversation), the      *)
(* agent managers' send_message / cancel / kill over AgentRuntime, and the *)
(* StreamRelay that waits for a turn's terminal event.                     *)
(*                                                                         *)
(* An agent instance is the content of one OnceCell; killing a task drops  *)
(* the cell from the map, so the next caller gets another one.  The relay  *)
(* of a turn holds the instance, so its event channel never closes: the    *)
(* turn ends when, and only when, the relay hears a Finish or an Error.    *)
(* A continuation (the agent's reply carried cron commands) is a new send  *)
(* of the same loop and is modelled as a turn that takes over.             *)
(***************************************************************************)
EXTENDS Naturals, FiniteSets

CONSTANTS Turns,     \* sends, continuations included
          Insts,     \* OnceCells, and the agent instances they hold
          Kinds,     \* the agent managers that may be built
          MaxStops,  \* bound: cancels, kills, deletions, process deaths and
                     \* failed updates of the row
          NoInst

Managers == {"acp", "aionrs", "openclaw", "nanobot"}

ASSUME TurnConstants ==
    /\ Kinds \subseteq Managers
    /\ MaxStops \in Nat
    /\ NoInst \notin Insts

VARIABLES row,    \* the conversation's row: its status, or "gone"
          slot,   \* WorkerTaskManagerImpl.tasks: the conversation's cell
          cell,   \* the OnceCells
          agent,  \* the instances: manager, AgentRuntime.status, process
          turn,   \* the requests and their relays
          send,   \* the spawned agent.send_message of each turn
          hook,   \* a deletion whose hook has not run yet
          stops,
          lost    \* history: the last complete_conversation did not reach the row

vars == <<row, slot, cell, agent, turn, send, hook, stops, lost>>

Status == {"none", "running", "finished"}
Agent == [kind: Managers, status: Status, up: BOOLEAN, timer: BOOLEAN]
Turn == [pc: {"new", "build", "cell", "building", "ready", "spawned", "relay", "complete", "done"},
         inst: Insts \cup {NoInst}, heard: BOOLEAN]
Sends == {"none", "start", "lock", "prompt", "abort", "cli", "done"}

Unbuilt == [kind |-> "acp", status |-> "none", up |-> FALSE, timer |-> FALSE]

Init ==
    /\ row = "finished"
    /\ slot = NoInst
    /\ cell = [i \in Insts |-> "fresh"]
    /\ agent = [i \in Insts |-> Unbuilt]
    /\ turn = [t \in Turns |-> [pc |-> "new", inst |-> NoInst, heard |-> FALSE]]
    /\ send = [t \in Turns |-> "none"]
    /\ hook = FALSE
    /\ stops = 0
    /\ lost = FALSE

-----------------------------------------------------------------------------
(* AgentRuntime.                                                           *)

Stop == stops < MaxStops /\ stops' = stops + 1

Goto(t, pc) == turn' = [turn EXCEPT ![t].pc = pc]

\* A terminal event reaches every relay that listens to the instance.
Hear(i) ==
    turn' = [t \in Turns |-> IF turn[t].pc = "relay" /\ turn[t].inst = i
                             THEN [turn[t] EXCEPT !.heard = TRUE] ELSE turn[t]]

\* emit_finish / emit_error: nothing at all once the status is Finished.
EmitEnd(i) ==
    IF agent[i].status = "finished"
    THEN UNCHANGED <<agent, turn>>
    ELSE agent' = [agent EXCEPT ![i].status = "finished"] /\ Hear(i)

\* transition_to: Finished is absorbing.
TransitionTo(status, s) == IF status = "finished" THEN status ELSE s

-----------------------------------------------------------------------------
(* ConversationService::send_message and the task manager.                 *)

\* The row is read: a free conversation is entered.
SendMessage(t) ==
    /\ turn[t].pc = "new"
    /\ row = "finished"
    /\ Goto(t, "build")
    /\ UNCHANGED <<row, slot, cell, agent, send, hook, stops, lost>>

\* A busy or deleted conversation is refused.
Refuse(t) ==
    /\ turn[t].pc = "new"
    /\ row # "finished"
    /\ Goto(t, "done")
    /\ UNCHANGED <<row, slot, cell, agent, send, hook, stops, lost>>

\* get_or_build_task takes the conversation's cell, a new one if it has none.
TakeCell(t) ==
    /\ turn[t].pc = "build"
    /\ IF slot # NoInst
       THEN /\ turn' = [turn EXCEPT ![t].pc = "cell", ![t].inst = slot]
            /\ UNCHANGED <<slot, cell>>
       ELSE \E i \in Insts :
            /\ cell[i] = "fresh"
            /\ cell' = [cell EXCEPT ![i] = "empty"]
            /\ slot' = i
            /\ turn' = [turn EXCEPT ![t].pc = "cell", ![t].inst = i]
    /\ UNCHANGED <<row, agent, send, hook, stops, lost>>

\* get_or_try_init: the first caller runs the factory, the others wait.
EnterCell(t) ==
    LET i == turn[t].inst
    IN /\ turn[t].pc = "cell"
       /\ \/ cell[i] = "empty" /\ Goto(t, "building") /\ cell' = [cell EXCEPT ![i] = "building"]
          \/ cell[i] = "built" /\ Goto(t, "ready") /\ UNCHANGED cell
       /\ UNCHANGED <<row, slot, agent, send, hook, stops, lost>>

\* The factory returns an instance ...
Built(t) ==
    LET i == turn[t].inst
    IN /\ turn[t].pc = "building"
       /\ cell' = [cell EXCEPT ![i] = "built"]
       /\ \E k \in Kinds :
            agent' = [agent EXCEPT ![i] = [Unbuilt EXCEPT !.kind = k, !.up = TRUE]]
       /\ Goto(t, "ready")
       /\ UNCHANGED <<row, slot, send, hook, stops, lost>>

\* ... or an error: the cell stays empty and the request fails.
BuildFails(t) ==
    /\ turn[t].pc = "building"
    /\ cell' = [cell EXCEPT ![turn[t].inst] = "empty"]
    /\ Goto(t, "done")
    /\ UNCHANGED <<row, slot, agent, send, hook, stops, lost>>

\* The row is set to running, and the turn's loop spawned.  A deleted row is
\* an error.
MarkRunning(t) ==
    /\ turn[t].pc = "ready"
    /\ IF row = "gone" THEN Goto(t, "done") /\ UNCHANGED row
                       ELSE Goto(t, "spawned") /\ row' = "running"
    /\ UNCHANGED <<slot, cell, agent, send, hook, stops, lost>>

\* The update fails, and the request with it.
MarkFails(t) ==
    /\ turn[t].pc = "ready"
    /\ Stop
    /\ Goto(t, "done")
    /\ UNCHANGED <<row, slot, cell, agent, send, hook, lost>>

\* The loop subscribes to the agent and then spawns its send_message.
StartRelay(t) ==
    /\ turn[t].pc = "spawned"
    /\ turn' = [turn EXCEPT ![t].pc = "relay", ![t].heard = FALSE]
    /\ send' = [send EXCEPT ![t] = "start"]
    /\ UNCHANGED <<row, slot, cell, agent, hook, stops, lost>>

\* StreamRelay::consume returns on a terminal event: the turn is over ...
EndRelay(t) ==
    /\ turn[t].pc = "relay" /\ turn[t].heard
    /\ Goto(t, "complete")
    /\ UNCHANGED <<row, slot, cell, agent, send, hook, stops, lost>>

\* ... or the reply had cron commands and their results are sent back.
Continue(t, u) ==
    /\ turn[t].pc = "relay" /\ turn[t].heard
    /\ turn[u].pc = "new"
    /\ turn' = [turn EXCEPT ![t].pc = "done",
                            ![u].pc = "spawned", ![u].inst = turn[t].inst]
    /\ UNCHANGED <<row, slot, cell, agent, send, hook, stops, lost>>

\* Mutant: a status that is neither running nor finished.
CompletePending(t) ==
    /\ turn[t].pc = "complete"
    /\ Goto(t, "done")
    /\ row' = IF row = "gone" THEN row ELSE "pending"
    /\ UNCHANGED <<slot, cell, agent, send, hook, stops, lost>>

\* Mutant: the row is left as it is.
CompleteForgets(t) ==
    /\ turn[t].pc = "complete"
    /\ Goto(t, "done")
    /\ UNCHANGED <<row, slot, cell, agent, send, hook, stops, lost>>

\* complete_conversation ...
Complete(t) ==
    /\ turn[t].pc = "complete"
    /\ Goto(t, "done")
    /\ row' = IF row = "gone" THEN row ELSE "finished"
    /\ lost' = FALSE
    /\ UNCHANGED <<slot, cell, agent, send, hook, stops>>

\* ... whose failed update is logged and swallowed: "turn.completed" is sent
\* all the same, and the row stays as it is.
CompleteFails(t) ==
    /\ turn[t].pc = "complete"
    /\ row # "gone"
    /\ Stop
    /\ Goto(t, "done")
    /\ lost' = TRUE
    /\ UNCHANGED <<row, slot, cell, agent, send, hook>>

-----------------------------------------------------------------------------
(* The agent managers' send_message.                                       *)

KindOf(t) == agent[turn[t].inst].kind

\* Mutant: a transition where the reset is needed.
SendResetAbsorbed(t) ==
    LET i == turn[t].inst
    IN /\ send[t] = "start"
       /\ KindOf(t) \in {"acp", "aionrs"}
       /\ agent' = [agent EXCEPT ![i].status = TransitionTo(@, "running")]
       /\ send' = [send EXCEPT ![t] = IF KindOf(t) = "acp" THEN "prompt" ELSE "lock"]
       /\ UNCHANGED <<row, slot, cell, turn, hook, stops, lost>>

\* AcpAgentManager and AionrsAgentManager reset the status for the turn;
\* aionrs then waits for the engine.  acp resets it after ensure_session_opened,
\* which returns at once: the factory has opened the session (warmup_session)
\* or failed.
SendReset(t) ==
    LET i == turn[t].inst
    IN /\ send[t] = "start"
       /\ KindOf(t) \in {"acp", "aionrs"}
       /\ agent' = [agent EXCEPT ![i].status = "running"]
       /\ send' = [send EXCEPT ![t] = IF KindOf(t) = "acp" THEN "prompt" ELSE "lock"]
       /\ UNCHANGED <<row, slot, cell, turn, hook, stops, lost>>

\* OpenClawAgentManager and NanobotAgentManager only ask for a transition.
SendTransition(t) ==
    LET i == turn[t].inst
    IN /\ send[t] = "start"
       /\ KindOf(t) \in {"openclaw", "nanobot"}
       /\ agent' = [agent EXCEPT ![i].status = TransitionTo(@, "running")]
       /\ send' = [send EXCEPT ![t] = "prompt"]
       /\ UNCHANGED <<row, slot, cell, turn, hook, stops, lost>>

\* Mutant: a send that has returned keeps the engine's guard.
LockEngineLeaks(t) ==
    /\ send[t] = "lock"
    /\ \A u \in Turns : turn[u].inst = turn[t].inst => send[u] \notin {"prompt", "abort", "done"}
    /\ send' = [send EXCEPT ![t] = "prompt"]
    /\ UNCHANGED <<row, slot, cell, agent, turn, hook, stops, lost>>

\* aionrs: engine.lock(), one run at a time.
LockEngine(t) ==
    /\ send[t] = "lock"
    /\ \A u \in Turns : turn[u].inst = turn[t].inst => send[u] \notin {"prompt", "abort"}
    /\ send' = [send EXCEPT ![t] = "prompt"]
    /\ UNCHANGED <<row, slot, cell, agent, turn, hook, stops, lost>>

\* acp and aionrs: the prompt is answered, fails or was aborted; send_message
\* emits the end of the turn itself.
PromptEnds(t) ==
    /\ send[t] \in {"prompt", "abort"}
    /\ KindOf(t) \in {"acp", "aionrs"}
    /\ send' = [send EXCEPT ![t] = "done"]
    /\ EmitEnd(turn[t].inst)
    /\ UNCHANGED <<row, slot, cell, hook, stops, lost>>

\* openclaw and nanobot: the request is accepted and the agent works on it.
Accepted(t) ==
    /\ send[t] = "prompt"
    /\ KindOf(t) \in {"openclaw", "nanobot"}
    /\ agent[turn[t].inst].up
    /\ send' = [send EXCEPT ![t] = "cli"]
    /\ UNCHANGED <<row, slot, cell, agent, turn, hook, stops, lost>>

\* The request fails: openclaw emits an error, nanobot only returns it.
SendFails(t) ==
    /\ send[t] = "prompt"
    /\ KindOf(t) \in {"openclaw", "nanobot"}
    /\ send' = [send EXCEPT ![t] = "done"]
    /\ IF KindOf(t) = "openclaw" THEN EmitEnd(turn[t].inst)
                                 ELSE UNCHANGED <<agent, turn>>
    /\ UNCHANGED <<row, slot, cell, hook, stops, lost>>

\* openclaw and nanobot: the agent reports the end of its work; the event is
\* forwarded whatever the status is.
CliEnds(t) ==
    LET i == turn[t].inst
    IN /\ send[t] = "cli"
       /\ agent[i].up
       /\ send' = [send EXCEPT ![t] = "done"]
       /\ agent' = [agent EXCEPT ![i].status = "finished"]
       /\ Hear(i)
       /\ UNCHANGED <<row, slot, cell, hook, stops, lost>>

-----------------------------------------------------------------------------
(* Cancel, kill, delete, and agents that die.                              *)

\* ConversationService::cancel on the registered instance.  acp forces the
\* status and always emits; aionrs wakes the send that runs the engine;
\* openclaw asks the gateway and sets a fallback timer; nanobot only asks.
Cancel ==
    LET i == slot
    IN /\ Stop
       /\ row # "gone" /\ slot # NoInst /\ cell[i] = "built"
       /\ CASE agent[i].kind = "acp" ->
                 /\ agent' = [agent EXCEPT ![i].status = "finished"]
                 /\ Hear(i)
                 /\ UNCHANGED send
            [] agent[i].kind = "aionrs" ->
                 /\ send' = [t \in Turns |-> IF turn[t].inst = i /\ send[t] = "prompt"
                                             THEN "abort" ELSE send[t]]
                 /\ UNCHANGED <<agent, turn>>
            [] agent[i].kind = "openclaw" ->
                 /\ agent' = [agent EXCEPT ![i].timer = TRUE]
                 /\ UNCHANGED <<send, turn>>
            [] agent[i].kind = "nanobot" -> UNCHANGED <<agent, send, turn>>
       /\ UNCHANGED <<row, slot, cell, hook, lost>>

\* openclaw: STOP_FINISH_FALLBACK_TIMEOUT has passed.
Fallback(i) ==
    /\ agent[i].timer
    /\ IF agent[i].status = "running"
       THEN agent' = [agent EXCEPT ![i].timer = FALSE, ![i].status = "finished"] /\ Hear(i)
       ELSE agent' = [agent EXCEPT ![i].timer = FALSE] /\ UNCHANGED turn
    /\ UNCHANGED <<row, slot, cell, send, hook, stops, lost>>

\* WorkerTaskManagerImpl::kill: the cell leaves the map; a built instance is
\* killed.  acp emits an error and its process dies; openclaw and nanobot lose
\* their connection or process; aionrs does nothing.
KillTask ==
    LET i == slot
    IN /\ slot' = NoInst
       /\ IF slot = NoInst \/ cell[slot] # "built" \/ agent[slot].kind = "aionrs"
          THEN UNCHANGED <<agent, turn>>
          ELSE IF agent[i].kind = "acp" /\ agent[i].status # "finished"
          THEN agent' = [agent EXCEPT ![i].up = FALSE, ![i].status = "finished"] /\ Hear(i)
          ELSE agent' = [agent EXCEPT ![i].up = FALSE] /\ UNCHANGED turn

\* A change of model, the team service, or the idle scanner kills the task.
Kill ==
    /\ Stop
    /\ slot # NoInst
    /\ KillTask
    /\ UNCHANGED <<row, cell, send, hook, lost>>

\* delete removes the row ...
Delete ==
    /\ Stop
    /\ row # "gone"
    /\ row' = "gone"
    /\ hook' = TRUE
    /\ UNCHANGED <<slot, cell, agent, turn, send, lost>>

\* ... and then its hook, on_conversation_deleted, kills the task.
DeleteHook ==
    /\ hook
    /\ hook' = FALSE
    /\ KillTask
    /\ UNCHANGED <<row, cell, send, stops, lost>>

\* An agent's process or connection goes away by itself.
Dies(i) ==
    /\ Stop
    /\ agent[i].up /\ agent[i].kind # "aionrs"
    /\ agent' = [agent EXCEPT ![i].up = FALSE]
    /\ UNCHANGED <<row, slot, cell, turn, send, hook, lost>>

\* nanobot's event relay finds the channel closed: the status follows, and no
\* event is emitted.
ChannelClosed(i) ==
    /\ agent[i].kind = "nanobot" /\ ~agent[i].up
    /\ agent[i].status = "running"
    /\ agent' = [agent EXCEPT ![i].status = "finished"]
    /\ UNCHANGED <<row, slot, cell, turn, send, hook, stops, lost>>

-----------------------------------------------------------------------------
\* The turn's own tasks.
Step(t) ==
    \/ TakeCell(t) \/ EnterCell(t) \/ Built(t) \/ BuildFails(t)
    \/ MarkRunning(t) \/ StartRelay(t) \/ EndRelay(t) \/ Complete(t)

SendStep(t) ==
    \/ SendReset(t) \/ SendTransition(t) \/ LockEngine(t) \/ PromptEnds(t)
    \/ Accepted(t) \/ SendFails(t) \/ CliEnds(t)

Next ==
    \/ \E t \in Turns : \/ SendMessage(t) \/ Refuse(t) \/ Step(t) \/ SendStep(t)
                        \/ MarkFails(t) \/ CompleteFails(t)
                        \/ \E u \in Turns : Continue(t, u)
    \/ \E i \in Insts : Fallback(i) \/ Dies(i) \/ ChannelClosed(i)
    \/ Cancel \/ Kill \/ Delete \/ DeleteHook

Spec == Init /\ [][Next]_vars

\* Spawned tasks run, a factory returns, a prompt is answered or fails, and a
\* live agent ends its work.
Fairness == \A t \in Turns : WF_vars(Step(t)) /\ WF_vars(SendStep(t))

FairSpec == Spec /\ Fairness

-----------------------------------------------------------------------------
(* Properties.                                                             *)

\* Types of the row, the cells, the agents and the turns.
TypeOK ==
    /\ row \in {"finished", "running", "gone"}
    /\ slot \in Insts \cup {NoInst}
    /\ cell \in [Insts -> {"fresh", "empty", "building", "built"}]
    /\ agent \in [Insts -> Agent]
    /\ turn \in [Turns -> Turn]
    /\ send \in [Turns -> Sends]
    /\ hook \in BOOLEAN /\ stops \in Nat /\ lost \in BOOLEAN

\* The agent's send_message of turn t has yet to start, or is under way with a
\* status from which emit_finish or emit_error will emit.
WillHear(t) ==
    \/ send[t] = "start"
    \/ send[t] \in {"lock", "prompt", "abort", "cli"}
       /\ agent[turn[t].inst].status = "running"

Waiting(t) == turn[t].pc = "relay" /\ ~turn[t].heard

\* A relay of an acp or aionrs turn that has heard no terminal event yet will
\* hear one, whatever cancels, kills, deletions and overlapping turns have done
\* to the status that emit_finish and emit_error look at (agent_runtime.rs).
NeverStuck ==
    \A t \in Turns : Waiting(t) /\ KindOf(t) \in {"acp", "aionrs"} => WillHear(t)

\* For every manager: a send_message that has returned and left nothing running
\* has emitted the end of its turn ("emitting Error+Finish").
NoRelayStuck == \A t \in Turns : Waiting(t) => send[t] # "done"

\* A row that says running has a turn that will set it back: without one, the
\* guard of send_message would refuse every later message.  The exception the
\* code makes is a completion whose update failed (stream_relay.rs:874-876):
\* no one tries it again.
RunningHasTurn ==
    row = "running" /\ ~lost
        => \E t \in Turns : turn[t].pc \in {"spawned", "relay", "complete"}

\* Every turn of an acp or aionrs agent ends: its loop gets past its relay and
\* through complete_conversation.
TurnEnds ==
    \A t \in Turns :
        (turn[t].pc = "spawned" /\ KindOf(t) \in {"acp", "aionrs"}) ~> (turn[t].pc = "done")
=============================================================================
