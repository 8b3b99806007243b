--------------------------- MODULE TeamEventLoop ---------------------------
(***************************************************************************)
(* One live team session: the scheduler's agent slots, the SQLite mailbox, *)
(* one event loop per agent slot, the MCP tools the agents call during a   *)
(* turn, and the plain chat turns users run on the same conversations.     *)
(* Source: crates/chisl-team (event_loop.rs, session.rs, service.rs,       *)
(* mailbox.rs, scheduler/, mcp/server.rs).                                 *)
(***************************************************************************)
EXTENDS Naturals, FiniteSets

CONSTANTS
    Agents,      \* slot ids that can ever exist in the team
    Lead,        \* the slot created with TeammateRole::Lead
    User,        \* the from_agent_id "user"
    Initial,     \* slots in the team row when the session starts
    Leavers,     \* slots that may be removed during the run
    Detached,    \* openclaw, nanobot and remote agents: send_message returns at
                 \* acceptance and the handle stays Running until the agent ends
    MaxMsgs,     \* bound: mailbox rows written by users and MCP tools
    MaxChats,    \* bound: plain chat turns
    MaxLate,     \* bound: relays that lag at the same time
    MaxFaults    \* bound: failed calls, aborted sessions and crashes

ASSUME TeamAssumption ==
    /\ Lead \in Initial
    /\ Initial \subseteq Agents
    /\ Leavers \subseteq Agents
    /\ Detached \subseteq Agents
    /\ User \notin Agents
ASSUME BoundAssumption == {MaxMsgs, MaxChats, MaxLate, MaxFaults} \subseteq Nat

VARIABLES
    \* TeammateManager (memory)
    slots,       \* keys of TeammateManager::slots, also the persisted roster
    gone,        \* slots removed from the team; slot ids are never reused
    status,      \* AgentSlot::status
    fresh,       \* AgentSlot::needs_role_prompt
    \* Mailbox and conversations (SQLite)
    unread,      \* unread mailbox rows by recipient
    nextId,      \* id of the next mailbox row
    conv,        \* conversations.status of the agent's conversation
    \* EventLoopRegistry and the loops
    loops,       \* slots with a registered notifier and loop task
    permit,      \* the Notify permit of each loop
    pc,          \* where each loop stands
    batch,       \* WakeInput::unread of the turn in progress
    prompted,    \* WakeInput::first_message carries the role prompt
    turnOk,      \* what handle.send_message returned
    late,        \* slots with a relay that lags behind its ended turn
    running,     \* detached agents whose handle is Running after send returned
    \* other tasks
    pokes,       \* wakes still to be made after a mailbox write
    inline,      \* try_wake_inline running for a slot without a loop
    inlineBatch,
    attaching,   \* background attach tasks started by spawn_agent
    leaving,     \* deferred removals started by "shutdown_approved"
    chat,        \* ConversationService::send_message on the conversation
    chats, faults, sent,     \* spent bounds
    \* history
    handed,      \* row ids passed to the agent's send_message
    rehanded,    \* row ids passed to it more than once
    stalled      \* slots the code left without a wake after a guard or a failure

slotVars == <<slots, gone, status, fresh>>
mailVars == <<unread, nextId>>
loopVars == <<loops, permit, pc, batch, prompted, turnOk>>
relayVars == <<late, running>>
inlineVars == <<inline, inlineBatch>>
bounds == <<chats, faults, sent>>
history == <<handed, rehanded, stalled>>
vars == <<slotVars, mailVars, conv, loopVars, relayVars, pokes, inlineVars,
          attaching, leaving, chat, bounds, history>>

Senders == Agents \cup {User}
Kinds == {"message", "shutdown_request", "idle_notification", "declined"}
Row == [id : Nat, from : Senders, kind : Kinds]
Statuses == {"Idle", "Working", "Error"}
LoopPC == {"none", "wait", "peek", "drained", "start", "claim", "send", "mark",
           "finalize", "idle", "note", "cascade"}

\* Every variable holds a value of the Rust type it stands for.
TypeOK ==
    /\ slots \subseteq Agents /\ gone \subseteq Agents
    /\ status \in [Agents -> Statuses]
    /\ fresh \in [Agents -> BOOLEAN]
    /\ unread \in [Agents -> SUBSET Row]
    /\ nextId \in Nat
    /\ conv \in [Agents -> {"running", "finished"}]
    /\ loops \subseteq Agents
    /\ permit \in [Agents -> BOOLEAN]
    /\ pc \in [Agents -> LoopPC]
    /\ batch \in [Agents -> SUBSET Row]
    /\ prompted \in [Agents -> BOOLEAN]
    /\ turnOk \in [Agents -> BOOLEAN]
    /\ late \subseteq Agents
    /\ running \subseteq Detached
    /\ pokes \subseteq Agents \X {"notify", "try_wake"}
    /\ inline \in [Agents -> {"off", "peek", "send"}]
    /\ inlineBatch \in [Agents -> SUBSET Row]
    /\ attaching \subseteq Agents
    /\ leaving \subseteq Agents
    /\ chat \in [Agents -> {"off", "checked", "busy"}]
    /\ chats \in Nat /\ faults \in Nat /\ sent \in Nat
    /\ handed \in [Agents -> SUBSET Nat]
    /\ rehanded \in [Agents -> SUBSET Nat]
    /\ stalled \subseteq Agents

-----------------------------------------------------------------------------
(* Helpers                                                                  *)

Ids(rows) == {m.id : m \in rows}

\* compute_wake_input drops rows an agent wrote to itself.
Foreign(a) == {m \in unread[a] : m.from # a}

\* A session that ensure_session_inner has just started for the roster S:
\* fresh slots, one loop each, every loop notified once.
SessionStart(S) ==
    /\ status' = [a \in Agents |-> "Idle"]
    /\ fresh' = [a \in Agents |-> TRUE]
    /\ loops' = S
    /\ permit' = [a \in Agents |-> a \in S]
    /\ pc' = [a \in Agents |-> IF a \in S THEN "wait" ELSE "none"]
    /\ batch' = [a \in Agents |-> {}]
    /\ prompted' = [a \in Agents |-> FALSE]
    /\ turnOk' = [a \in Agents |-> TRUE]
    /\ pokes' = {}
    /\ inline' = [a \in Agents |-> "off"]
    /\ inlineBatch' = [a \in Agents |-> {}]
    /\ attaching' = {}
    /\ running' = {}
    /\ stalled' = {}

Init ==
    /\ slots = Initial
    /\ gone = {}
    /\ status = [a \in Agents |-> "Idle"]
    /\ fresh = [a \in Agents |-> TRUE]
    /\ unread = [a \in Agents |-> {}]
    /\ nextId = 0
    /\ conv = [a \in Agents |-> "finished"]
    /\ loops = Initial
    /\ permit = [a \in Agents |-> a \in Initial]
    /\ pc = [a \in Agents |-> IF a \in Initial THEN "wait" ELSE "none"]
    /\ batch = [a \in Agents |-> {}]
    /\ prompted = [a \in Agents |-> FALSE]
    /\ turnOk = [a \in Agents |-> TRUE]
    /\ late = {}
    /\ running = {}
    /\ pokes = {}
    /\ inline = [a \in Agents |-> "off"]
    /\ inlineBatch = [a \in Agents |-> {}]
    /\ attaching = {}
    /\ leaving = {}
    /\ chat = [a \in Agents |-> "off"]
    /\ chats = 0 /\ faults = 0 /\ sent = 0
    /\ handed = [a \in Agents |-> {}]
    /\ rehanded = [a \in Agents |-> {}]
    /\ stalled = {}

\* Mutant of Write: two messages share an id.
WriteSameId(targets, from, kind) ==
    /\ unread' = [a \in Agents |->
                    IF a \in targets
                    THEN unread[a] \cup {[id |-> nextId, from |-> from, kind |-> kind]}
                    ELSE unread[a]]
    /\ UNCHANGED nextId

\* Mailbox::write: one new unread row per recipient.  A broadcast writes its
\* rows one after the other; all of them precede the wakes.
Write(targets, from, kind) ==
    /\ unread' = [a \in Agents |->
                    IF a \in targets
                    THEN unread[a] \cup {[id |-> nextId, from |-> from, kind |-> kind]}
                    ELSE unread[a]]
    /\ nextId' = nextId + 1

\* Passing a batch to handle.send_message.
Hand(a, rows) ==
    /\ handed' = [handed EXCEPT ![a] = @ \cup Ids(rows)]
    /\ rehanded' = [rehanded EXCEPT ![a] = @ \cup (handed[a] \cap Ids(rows))]

\* handle.status() or the conversation row says a turn is running.
Busy(a) ==
    \/ conv[a] = "running"
    \/ a \in running
    \/ chat[a] = "busy"
    \/ inline[a] = "send"

\* The agent process is in a turn, so it can call the team's MCP tools.  The
\* factories hand those to ACP and aionrs agents only; the model lets any
\* agent call them until its send returns.
InTurn(a) == pc[a] = "send" \/ chat[a] = "busy" \/ inline[a] = "send"

Spend == faults < MaxFaults /\ faults' = faults + 1

-----------------------------------------------------------------------------
(* Users and the MCP tools                                                  *)

\* TeamSession::send_message (a = Lead) and send_message_to_agent: write the
\* row, then try_wake the recipient.
UserSend(a) ==
    /\ a \in slots
    /\ sent < MaxMsgs
    /\ Write({a}, User, "message")
    /\ pokes' = pokes \cup {<<a, "try_wake">>}
    /\ sent' = sent + 1
    /\ UNCHANGED <<slotVars, conv, loopVars, relayVars, inlineVars, attaching,
                   leaving, chat, chats, faults, history>>

\* exec_send_message: the resolved target is any live slot, the caller
\* included; "*" is every other live slot.  Rows first, then one notify each.
AgentSend(a, targets) ==
    /\ InTurn(a)
    /\ sent < MaxMsgs
    /\ \/ \E b \in slots : targets = {b}
       \/ targets = slots \ {a}
    /\ Write(targets, a, "message")
    /\ pokes' = pokes \cup (targets \X {"notify"})
    /\ sent' = sent + 1
    /\ UNCHANGED <<slotVars, conv, loopVars, relayVars, inlineVars, attaching,
                   leaving, chat, chats, faults, history>>

\* The same call when a write fails.  A broadcast writes row by row: the rows W
\* written before the failing one stay, and the error returns before any
\* notify, so their recipients are left without a wake.
AgentSendFails(a, targets, W) ==
    /\ InTurn(a)
    /\ sent < MaxMsgs
    /\ Spend
    /\ \/ \E b \in slots : targets = {b}
       \/ targets = slots \ {a}
    /\ W \subseteq targets /\ W # targets
    /\ Write(W, a, "message")
    /\ stalled' = stalled \cup W
    /\ sent' = sent + 1
    /\ UNCHANGED <<slotVars, conv, loopVars, relayVars, pokes, inlineVars,
                   attaching, leaving, chat, chats, handed, rehanded>>

\* exec_shutdown_agent and handle_shutdown_agent: lead only, never at a lead.
LeadShutdown(t) ==
    /\ InTurn(Lead) /\ Lead \in slots
    /\ t \in slots \ {Lead}
    /\ sent < MaxMsgs
    /\ Write({t}, Lead, "shutdown_request")
    /\ pokes' = pokes \cup {<<t, "notify">>}
    /\ sent' = sent + 1
    /\ UNCHANGED <<slotVars, conv, loopVars, relayVars, inlineVars, attaching,
                   leaving, chat, chats, faults, history>>

\* "shutdown_rejected:": notify_shutdown_rejected writes a row to the lead
\* and wakes nobody.
ShutdownRejected(a) ==
    /\ InTurn(a)
    /\ a # Lead /\ Lead \in slots
    /\ sent < MaxMsgs
    /\ Write({Lead}, a, "declined")
    /\ sent' = sent + 1
    /\ UNCHANGED <<slotVars, conv, loopVars, relayVars, pokes, inlineVars,
                   attaching, leaving, chat, chats, faults, history>>

\* "shutdown_approved": whoever says it is removed half a second later.
ShutdownApproved(a) ==
    /\ InTurn(a)
    /\ a \in (slots \cap Leavers) \ leaving
    /\ leaving' = leaving \cup {a}
    /\ UNCHANGED <<slotVars, mailVars, conv, loopVars, relayVars, pokes, inlineVars,
                   attaching, chat, bounds, history>>

\* Removing a slot: the conversation is deleted (its agent is killed), the
\* roster is saved, the loop aborted and the scheduler slot dropped.  A turn
\* in flight dies with the agent; mailbox rows stay.
RemoveSlot(a) ==
    /\ slots' = slots \ {a}
    /\ gone' = gone \cup {a}
    /\ loops' = loops \ {a}
    /\ permit' = [permit EXCEPT ![a] = FALSE]
    /\ pc' = [pc EXCEPT ![a] = "none"]
    /\ batch' = [batch EXCEPT ![a] = {}]
    /\ prompted' = [prompted EXCEPT ![a] = FALSE]
    /\ inline' = [inline EXCEPT ![a] = "off"]
    /\ inlineBatch' = [inlineBatch EXCEPT ![a] = {}]
    /\ chat' = [chat EXCEPT ![a] = "off"]
    /\ late' = late \ {a}
    /\ running' = running \ {a}
    /\ leaving' = leaving \ {a}
    /\ UNCHANGED <<status, fresh, mailVars, conv, turnOk, pokes, attaching,
                   bounds, history>>

\* The task exec_send_message spawned for "shutdown_approved".
DeferredRemove(a) == a \in leaving /\ RemoveSlot(a)

\* DELETE /api/teams/{id}/agents/{slot_id}.
RemoveAgent(a) == a \in slots \cap Leavers /\ RemoveSlot(a)

\* TeamSession::spawn_agent by the lead: a new slot, its welcome row, and a
\* background task that will start the process and register the loop.  Only a
\* team-capable backend is spawned; none of the detached ones is.
SpawnAgent(t) ==
    /\ InTurn(Lead) /\ Lead \in slots
    /\ t \in Agents \ (slots \cup gone \cup Detached)
    /\ slots' = slots \cup {t}
    /\ status' = [status EXCEPT ![t] = "Idle"]
    /\ fresh' = [fresh EXCEPT ![t] = TRUE]
    /\ Write({t}, Lead, "message")
    /\ attaching' = attaching \cup {t}
    /\ UNCHANGED <<gone, conv, loopVars, relayVars, pokes, inlineVars, leaving,
                   chat, bounds, history>>

\* Mutant of Attach: the loop is registered and not notified.
AttachUnnotified(t) ==
    /\ t \in attaching
    /\ attaching' = attaching \ {t}
    /\ loops' = loops \cup {t}
    /\ pc' = [pc EXCEPT ![t] = "wait"]
    /\ UNCHANGED <<slotVars, mailVars, conv, permit, batch, prompted, turnOk,
                   relayVars, pokes, inlineVars, leaving, chat, bounds, history>>

\* The end of that task: register_event_loop and notify, whether or not the
\* process started and whether or not the slot still exists.
Attach(t) ==
    /\ t \in attaching
    /\ attaching' = attaching \ {t}
    /\ loops' = loops \cup {t}
    /\ permit' = [permit EXCEPT ![t] = TRUE]
    /\ pc' = [pc EXCEPT ![t] = "wait"]
    /\ UNCHANGED <<slotVars, mailVars, conv, batch, prompted, turnOk, relayVars,
                   pokes, inlineVars, leaving, chat, bounds, history>>

\* POST /api/teams/{id}/agents on a live session: slot and loop, no notify.
AddAgent(t) ==
    /\ t \in Agents \ (slots \cup gone)
    /\ slots' = slots \cup {t}
    /\ status' = [status EXCEPT ![t] = "Idle"]
    /\ fresh' = [fresh EXCEPT ![t] = TRUE]
    /\ loops' = loops \cup {t}
    /\ pc' = [pc EXCEPT ![t] = "wait"]
    /\ UNCHANGED <<gone, mailVars, conv, permit, batch, prompted, turnOk,
                   relayVars, pokes, inlineVars, attaching, leaving, chat, bounds,
                   history>>

-----------------------------------------------------------------------------
(* Wakes                                                                    *)

\* Mutant of Poke: notify_waiters, which stores no permit.
PokeWaiters(a, via) ==
    /\ <<a, via>> \in pokes
    /\ pokes' = pokes \ {<<a, via>>}
    /\ permit' = [permit EXCEPT ![a] = @ \/ (a \in loops /\ pc[a] = "wait")]
    /\ inline' = [inline EXCEPT ![a] =
                    IF via = "try_wake" /\ a \in slots \ loops /\ @ = "off"
                    THEN "peek" ELSE @]
    /\ UNCHANGED <<slotVars, mailVars, conv, loops, pc, batch, prompted, turnOk,
                   relayVars, inlineBatch, attaching, leaving, chat, bounds, history>>

\* EventLoopRegistry::notify stores one permit if a loop is registered;
\* TeamSession::try_wake without a loop falls back to the inline wake, which
\* returns at once when the slot's wake lock is held.
Poke(a, via) ==
    /\ <<a, via>> \in pokes
    /\ pokes' = pokes \ {<<a, via>>}
    /\ permit' = [permit EXCEPT ![a] = @ \/ a \in loops]
    /\ inline' = [inline EXCEPT ![a] =
                    IF via = "try_wake" /\ a \in slots \ loops /\ @ = "off"
                    THEN "peek" ELSE @]
    /\ UNCHANGED <<slotVars, mailVars, conv, loops, pc, batch, prompted, turnOk,
                   relayVars, inlineBatch, attaching, leaving, chat, bounds, history>>

\* try_wake_inline up to the send.  It gives up when there is nothing to
\* send, when the agent has no task yet, or when the handle is running.
InlineWake(a) ==
    /\ inline[a] = "peek"
    /\ fresh' = [fresh EXCEPT ![a] = FALSE]
    /\ \/ /\ inline' = [inline EXCEPT ![a] = "off"]
          /\ UNCHANGED <<status, inlineBatch, handed, rehanded>>
       \/ /\ Foreign(a) # {} /\ pc[a] # "send" /\ chat[a] # "busy"
          /\ inline' = [inline EXCEPT ![a] = "send"]
          /\ inlineBatch' = [inlineBatch EXCEPT ![a] = Foreign(a)]
          /\ status' = [status EXCEPT ![a] = "Working"]
          /\ Hand(a, Foreign(a))
    /\ UNCHANGED <<slots, gone, mailVars, conv, loopVars, relayVars, pokes,
                   attaching, leaving, chat, bounds, stalled>>

\* The inline send returns: Ok marks the rows read and leaves the status
\* Working; Err puts the status back to Idle, leaves the rows unread and does
\* not consider the lead for a wake.
InlineSent(a, ok) ==
    /\ inline[a] = "send"
    /\ inline' = [inline EXCEPT ![a] = "off"]
    /\ inlineBatch' = [inlineBatch EXCEPT ![a] = {}]
    /\ IF ok
       THEN /\ unread' = [unread EXCEPT ![a] = @ \ inlineBatch[a]]
            /\ UNCHANGED <<status, faults, stalled>>
       ELSE /\ Spend
            /\ status' = [status EXCEPT ![a] = "Idle"]
            /\ stalled' = stalled \cup {Lead}
            /\ UNCHANGED unread
    /\ UNCHANGED <<slots, gone, fresh, nextId, conv, loopVars, relayVars, pokes,
                   attaching, leaving, chat, chats, sent, handed, rehanded>>

-----------------------------------------------------------------------------
(* run_event_loop                                                           *)

\* notify.notified() consumes the permit and the drain loop begins.
LoopWake(a) ==
    /\ pc[a] = "wait" /\ permit[a]
    /\ permit' = [permit EXCEPT ![a] = FALSE]
    /\ pc' = [pc EXCEPT ![a] = "peek"]
    /\ UNCHANGED <<slotVars, mailVars, conv, loops, batch, prompted, turnOk,
                   relayVars, pokes, inlineVars, attaching, leaving, chat, bounds,
                   history>>

\* compute_wake_input: peek the rows, take the role-prompt flag, and leave
\* the drain loop when there is nothing to send.  A removed slot is an error,
\* which ends the drain loop as well.
Peek(a) ==
    LET more == a \in slots /\ Foreign(a) # {} IN
    /\ pc[a] = "peek"
    /\ batch' = [batch EXCEPT ![a] = IF more THEN Foreign(a) ELSE {}]
    /\ prompted' = [prompted EXCEPT ![a] = more /\ fresh[a]]
    /\ fresh' = [fresh EXCEPT ![a] = @ /\ a \notin slots]
    /\ pc' = [pc EXCEPT ![a] = IF more THEN "start" ELSE "drained"]
    /\ stalled' = stalled \ {a}
    /\ UNCHANGED <<slots, gone, status, mailVars, conv, loops, permit, turnOk,
                   relayVars, pokes, inlineVars, attaching, leaving, chat, bounds,
                   handed, rehanded>>

\* The loop leaves the empty drain loop and waits on its Notify again.
Park(a) ==
    /\ pc[a] = "drained"
    /\ pc' = [pc EXCEPT ![a] = "wait"]
    /\ UNCHANGED <<slotVars, mailVars, conv, loops, permit, batch, prompted,
                   turnOk, relayVars, pokes, inlineVars, attaching, leaving, chat,
                   bounds, history>>

\* Leaving the drain loop without a turn; the rows wait for the next signal.
GiveUp(a) ==
    /\ pc' = [pc EXCEPT ![a] = "wait"]
    /\ batch' = [batch EXCEPT ![a] = {}]
    /\ prompted' = [prompted EXCEPT ![a] = FALSE]
    /\ stalled' = stalled \cup {a}
    /\ UNCHANGED <<slotVars, mailVars, conv, loops, permit, turnOk, relayVars,
                   pokes, inlineVars, attaching, leaving, chat, chats, sent,
                   handed, rehanded>>

\* compute_wake_input fails on the database, or the warmup fails.
WakeFails(a) == pc[a] \in {"peek", "start"} /\ Spend /\ GiveUp(a)

\* The guard: a turn is already running on the conversation.
GuardHit(a) ==
    /\ pc[a] = "start" /\ Busy(a)
    /\ GiveUp(a)
    /\ UNCHANGED faults

GuardPass(a) ==
    /\ pc[a] = "start" /\ ~Busy(a)
    /\ pc' = [pc EXCEPT ![a] = "claim"]
    /\ UNCHANGED <<slotVars, mailVars, conv, loops, permit, batch, prompted,
                   turnOk, relayVars, pokes, inlineVars, attaching, leaving, chat,
                   bounds, history>>

\* Point of no return: Working, row "running", relay subscribed, batch sent.
\* A failed update of the row is ignored, here and at the end of the turn.
Claim(a) ==
    /\ pc[a] = "claim"
    /\ status' = [status EXCEPT ![a] = "Working"]
    /\ \/ conv' = [conv EXCEPT ![a] = "running"] /\ UNCHANGED faults
       \/ Spend /\ UNCHANGED conv
    /\ pc' = [pc EXCEPT ![a] = "send"]
    /\ Hand(a, batch[a])
    /\ UNCHANGED <<slots, gone, fresh, mailVars, loops, permit, batch, prompted,
                   turnOk, relayVars, pokes, inlineVars, attaching, leaving,
                   chat, chats, sent, stalled>>

\* handle.send_message returns.  The relay acts on the terminal event now, or
\* lags: it is a detached task and nothing waits for it.  A detached agent has
\* only accepted the message, and is still at work.
TurnEnds(a, ok) ==
    /\ pc[a] = "send"
    /\ IF ok THEN UNCHANGED faults ELSE Spend
    /\ turnOk' = [turnOk EXCEPT ![a] = ok]
    /\ \/ conv' = [conv EXCEPT ![a] = "finished"] /\ UNCHANGED relayVars
       \/ /\ Cardinality(late) < MaxLate
          /\ late' = late \cup {a}
          /\ UNCHANGED <<conv, running>>
       \/ /\ a \in Detached
          /\ running' = running \cup {a}
          /\ UNCHANGED <<conv, late>>
    /\ pc' = [pc EXCEPT ![a] = "mark"]
    /\ UNCHANGED <<slotVars, mailVars, loops, permit, batch, prompted,
                   pokes, inlineVars, attaching, leaving, chat, chats, sent,
                   handed, rehanded, stalled>>

\* The agent ends the turn it accepted: its handle leaves Running, and the
\* relay acts on the terminal event or lags.  Nothing wakes the loop.
AgentEnds(a) ==
    /\ a \in running
    /\ running' = running \ {a}
    /\ \/ conv' = [conv EXCEPT ![a] = "finished"] /\ UNCHANGED late
       \/ Cardinality(late) < MaxLate /\ late' = late \cup {a} /\ UNCHANGED conv
    /\ UNCHANGED <<slotVars, mailVars, loopVars, pokes, inlineVars, attaching,
                   leaving, chat, bounds, history>>

\* StreamRelay::consume on its terminal event: complete_conversation.  A failed
\* update is only logged: for the row that is a relay that never gets here.
RelayCompletes(a) ==
    /\ a \in late
    /\ late' = late \ {a}
    /\ conv' = [conv EXCEPT ![a] = "finished"]
    /\ UNCHANGED <<slotVars, mailVars, loopVars, running, pokes, inlineVars,
                   attaching, leaving, chat, bounds, history>>

\* Mutants of MarkRead: the call is lost; the whole mailbox is marked.
MarkReadLost(a) ==
    /\ pc[a] = "mark"
    /\ batch' = [batch EXCEPT ![a] = {}]
    /\ prompted' = [prompted EXCEPT ![a] = FALSE]
    /\ pc' = [pc EXCEPT ![a] = "finalize"]
    /\ UNCHANGED <<slotVars, mailVars, conv, loops, permit, turnOk, relayVars, pokes,
                   inlineVars, attaching, leaving, chat, bounds, history>>
MarkReadAll(a) ==
    /\ pc[a] = "mark"
    /\ unread' = [unread EXCEPT ![a] = {}]
    /\ batch' = [batch EXCEPT ![a] = {}]
    /\ prompted' = [prompted EXCEPT ![a] = FALSE]
    /\ pc' = [pc EXCEPT ![a] = "finalize"]
    /\ UNCHANGED <<slotVars, nextId, conv, loops, permit, turnOk, relayVars, pokes,
                   inlineVars, attaching, leaving, chat, bounds, history>>

\* mark_read_batch, whatever send_message returned; its failure is logged.
MarkRead(a) ==
    /\ pc[a] = "mark"
    /\ \/ unread' = [unread EXCEPT ![a] = @ \ batch[a]] /\ UNCHANGED faults
       \/ Spend /\ UNCHANGED unread
    /\ batch' = [batch EXCEPT ![a] = {}]
    /\ prompted' = [prompted EXCEPT ![a] = FALSE]
    /\ pc' = [pc EXCEPT ![a] = "finalize"]
    /\ UNCHANGED <<slotVars, nextId, conv, loops, permit, turnOk, relayVars, pokes,
                   inlineVars, attaching, leaving, chat, chats, sent, history>>

\* Mutant of FinalizeTurn: the scheduler's status ends up in the row.
FinalizeTurnWrongRow(a) ==
    /\ pc[a] = "finalize"
    /\ conv' = [conv EXCEPT ![a] = status[a]]
    /\ pc' = [pc EXCEPT ![a] = "idle"]
    /\ UNCHANGED <<slotVars, mailVars, loops, permit, batch, prompted, turnOk,
                   relayVars, pokes, inlineVars, attaching, leaving, chat, bounds,
                   history>>

\* Mutant of FinalizeTurn: the reset of the row is left to the relay.
FinalizeTurnKeepsRow(a) ==
    /\ pc[a] = "finalize"
    /\ status' = [status EXCEPT ![a] = IF turnOk[a] THEN @ ELSE "Error"]
    /\ turnOk' = [turnOk EXCEPT ![a] = TRUE]
    /\ pc' = [pc EXCEPT ![a] = "idle"]
    /\ UNCHANGED <<slots, gone, fresh, mailVars, conv, loops, permit, batch,
                   prompted, relayVars, pokes, inlineVars, attaching, leaving,
                   chat, bounds, history>>

\* finalize_turn: the row goes back to "finished", a failed turn sets Error.
FinalizeTurn(a) ==
    /\ pc[a] = "finalize"
    /\ \/ conv' = [conv EXCEPT ![a] = "finished"] /\ UNCHANGED faults
       \/ Spend /\ UNCHANGED conv
    /\ status' = [status EXCEPT ![a] = IF turnOk[a] THEN @ ELSE "Error"]
    /\ turnOk' = [turnOk EXCEPT ![a] = TRUE]
    /\ pc' = [pc EXCEPT ![a] = "idle"]
    /\ UNCHANGED <<slots, gone, fresh, mailVars, loops, permit, batch, prompted,
                   relayVars, pokes, inlineVars, attaching, leaving, chat,
                   chats, sent, history>>

\* Mutant of MarkIdle: a lead returns before its status is reset.
MarkIdleLeadEarly(a) ==
    /\ pc[a] = "idle"
    /\ status' = IF a = Lead THEN status ELSE [status EXCEPT ![a] = "Idle"]
    /\ pc' = [pc EXCEPT ![a] = IF a = Lead THEN "peek" ELSE "note"]
    /\ UNCHANGED <<slots, gone, fresh, mailVars, conv, loops, permit, batch,
                   prompted, turnOk, relayVars, pokes, inlineVars, attaching,
                   leaving, chat, bounds, history>>

\* mark_idle, first part: Idle whatever the status was.  A lead is done.
MarkIdle(a) ==
    /\ pc[a] = "idle"
    /\ status' = [status EXCEPT ![a] = "Idle"]
    /\ pc' = [pc EXCEPT ![a] = IF a = Lead THEN "peek" ELSE "note"]
    /\ UNCHANGED <<slots, gone, fresh, mailVars, conv, loops, permit, batch,
                   prompted, turnOk, relayVars, pokes, inlineVars, attaching,
                   leaving, chat, bounds, history>>

\* mark_idle, second part: the idle notification to the lead.  If the write
\* fails the function returns and the lead is not considered for a wake.
IdleNote(a) ==
    /\ pc[a] = "note"
    /\ \/ /\ Lead \in slots
          /\ Write({Lead}, a, "idle_notification")
          /\ pc' = [pc EXCEPT ![a] = "cascade"]
          /\ UNCHANGED <<faults, stalled>>
       \/ /\ Lead \notin slots
          /\ pc' = [pc EXCEPT ![a] = "cascade"]
          /\ UNCHANGED <<mailVars, faults, stalled>>
       \/ /\ Lead \in slots
          /\ Spend
          /\ pc' = [pc EXCEPT ![a] = "peek"]
          /\ stalled' = stalled \cup {Lead}
          /\ UNCHANGED mailVars
    /\ UNCHANGED <<slotVars, conv, loops, permit, batch, prompted, turnOk,
                   relayVars, pokes, inlineVars, attaching, leaving, chat, chats,
                   sent, handed, rehanded>>

\* is_settled, and maybe_wake_leader_when_all_idle.
Settled(t) == status[t] \in {"Idle", "Error"}

\* Mutant of WakeLeader: off by one, a team of two never wakes its lead.
WakeLeaderOfMany ==
    /\ Lead \in slots
    /\ Cardinality(slots) > 2
    /\ \A t \in slots \ {Lead} : Settled(t)
    /\ status[Lead] = "Idle"

WakeLeader ==
    /\ Lead \in slots
    /\ slots # {Lead}
    /\ \A t \in slots \ {Lead} : Settled(t)
    /\ status[Lead] = "Idle"

\* mark_idle, last part, and the notify of the lead it asks for.
Cascade(a) ==
    /\ pc[a] = "cascade"
    /\ permit' = [permit EXCEPT ![Lead] = @ \/ (WakeLeader /\ Lead \in loops)]
    /\ pc' = [pc EXCEPT ![a] = "peek"]
    /\ UNCHANGED <<slotVars, mailVars, conv, loops, batch, prompted, turnOk,
                   relayVars, pokes, inlineVars, attaching, leaving, chat, bounds,
                   history>>

-----------------------------------------------------------------------------
(* Chat turns on the same conversations, and restarts                       *)

\* ConversationService::send_message reads the row, later claims it, runs the
\* turn and completes the conversation.
ChatCheck(a) ==
    /\ a \in slots /\ chat[a] = "off" /\ chats < MaxChats
    /\ conv[a] # "running"
    /\ chats' = chats + 1
    /\ chat' = [chat EXCEPT ![a] = "checked"]
    /\ UNCHANGED <<slotVars, mailVars, conv, loopVars, relayVars, pokes, inlineVars,
                   attaching, leaving, faults, sent, history>>

ChatClaim(a) ==
    /\ chat[a] = "checked"
    /\ chat' = [chat EXCEPT ![a] = "busy"]
    /\ conv' = [conv EXCEPT ![a] = "running"]
    /\ UNCHANGED <<slotVars, mailVars, loopVars, relayVars, pokes, inlineVars,
                   attaching, leaving, bounds, history>>

ChatDone(a) ==
    /\ chat[a] = "busy"
    /\ chat' = [chat EXCEPT ![a] = "off"]
    /\ conv' = [conv EXCEPT ![a] = "finished"]
    /\ UNCHANGED <<slotVars, mailVars, loopVars, relayVars, pokes, inlineVars,
                   attaching, leaving, bounds, history>>

\* DELETE and POST /api/teams/{id}/session: the loops are aborted wherever
\* they stand, the agents are killed and rebuilt.  The kill gives the relay of
\* a turn in flight its terminal event.  Only stops that do not overlap a user
\* request or an attach task are considered.
StopAndEnsure ==
    /\ Spend
    /\ pokes = {} /\ attaching = {}
    /\ \A a \in Agents : inline[a] = "off"
    /\ SessionStart(slots)
    /\ late' = late \cup running \cup {a \in Agents : pc[a] = "send"}
    /\ UNCHANGED <<slots, gone, mailVars, conv, leaving, chat, chats, sent,
                   handed, rehanded>>

\* The backend dies and restores the session: only SQLite survives.
CrashRestart ==
    /\ Spend
    /\ SessionStart(slots)
    /\ late' = {}
    /\ leaving' = {}
    /\ chat' = [a \in Agents |-> "off"]
    /\ UNCHANGED <<slots, gone, mailVars, conv, chats, sent, handed, rehanded>>

-----------------------------------------------------------------------------
(* Specification                                                            *)

LoopStep(a) ==
    \/ LoopWake(a) \/ Peek(a) \/ Park(a) \/ GuardHit(a) \/ GuardPass(a) \/ Claim(a)
    \/ TurnEnds(a, TRUE) \/ MarkRead(a) \/ FinalizeTurn(a) \/ MarkIdle(a)
    \/ IdleNote(a) \/ Cascade(a)

Next ==
    \/ \E a \in Agents : UserSend(a)
    \/ \E a \in Agents : \E targets \in SUBSET Agents : AgentSend(a, targets)
    \/ \E a \in Agents : \E targets, W \in SUBSET Agents : AgentSendFails(a, targets, W)
    \/ \E t \in Agents : LeadShutdown(t)
    \/ \E a \in Agents : ShutdownRejected(a)
    \/ \E a \in Agents : ShutdownApproved(a)
    \/ \E a \in Agents : DeferredRemove(a)
    \/ \E a \in Agents : RemoveAgent(a)
    \/ \E t \in Agents : SpawnAgent(t)
    \/ \E t \in Agents : Attach(t)
    \/ \E t \in Agents : AddAgent(t)
    \/ \E a \in Agents : \E via \in {"notify", "try_wake"} : Poke(a, via)
    \/ \E a \in Agents : InlineWake(a)
    \/ \E a \in Agents : \E ok \in BOOLEAN : InlineSent(a, ok)
    \/ \E a \in Agents : LoopWake(a)
    \/ \E a \in Agents : Peek(a)
    \/ \E a \in Agents : Park(a)
    \/ \E a \in Agents : WakeFails(a)
    \/ \E a \in Agents : GuardHit(a)
    \/ \E a \in Agents : GuardPass(a)
    \/ \E a \in Agents : Claim(a)
    \/ \E a \in Agents : \E ok \in BOOLEAN : TurnEnds(a, ok)
    \/ \E a \in Agents : AgentEnds(a)
    \/ \E a \in Agents : RelayCompletes(a)
    \/ \E a \in Agents : MarkRead(a)
    \/ \E a \in Agents : FinalizeTurn(a)
    \/ \E a \in Agents : MarkIdle(a)
    \/ \E a \in Agents : IdleNote(a)
    \/ \E a \in Agents : Cascade(a)
    \/ \E a \in Agents : ChatCheck(a)
    \/ \E a \in Agents : ChatClaim(a)
    \/ \E a \in Agents : ChatDone(a)
    \/ StopAndEnsure
    \/ CrashRestart

Spec == Init /\ [][Next]_vars

\* tokio runs every ready task, and an agent answers what it is sent; users,
\* tools and faults owe nothing.
Fairness ==
    \A a \in Agents :
        /\ WF_vars(LoopStep(a))
        /\ WF_vars(\E via \in {"notify", "try_wake"} : Poke(a, via))
        /\ WF_vars(RelayCompletes(a))
        /\ WF_vars(Attach(a))
        /\ WF_vars(DeferredRemove(a))
        /\ WF_vars(InlineWake(a) \/ InlineSent(a, TRUE))
        /\ WF_vars(ChatClaim(a) \/ ChatDone(a))

FairSpec == Spec /\ Fairness

-----------------------------------------------------------------------------
(* Properties                                                               *)

\* A loop waiting for a signal has one coming whenever a row that was sent
\* with a wake is unread: the peek, the Notify permit and the re-peek after
\* every turn leave no window in which a send goes unnoticed.  The exceptions
\* the code makes (stalled) are a loop that gave up a wake (guard, warmup,
\* database) and a broadcast that failed after writing some of its rows.
NoLostWake ==
    \A a \in slots \cap loops :
        (/\ pc[a] \in {"drained", "wait"}
         /\ \E m \in Foreign(a) : m.kind \in {"message", "shutdown_request"})
        => permit[a] \/ a \in stalled
           \/ <<a, "notify">> \in pokes \/ <<a, "try_wake">> \in pokes

\* "All teammates settled wakes the leader": as long as nobody was removed, an
\* idle notification the waiting lead has not read is always covered by a
\* wake under way or by a teammate that is still to finish its turn.  Where a
\* call fails on the way the code gives the wake up (stalled).
LeadHearsBack ==
    (/\ gone = {} /\ Lead \in loops /\ pc[Lead] \in {"drained", "wait"}
     /\ \E m \in unread[Lead] : m.kind = "idle_notification")
    => \/ permit[Lead] \/ Lead \in stalled
       \/ <<Lead, "notify">> \in pokes \/ <<Lead, "try_wake">> \in pokes
       \/ \E t \in slots \ {Lead} :
              ~Settled(t) \/ pc[t] \in {"idle", "note", "cascade"}

\* Until a call fails or the session is interrupted, an agent the session was
\* started with is sent each mailbox row at most once, although rows are
\* marked read only after the turn.
NoRedelivery == faults = 0 => \A a \in Initial : rehanded[a] = {}

\* A status of Working never outlives the turn: the scheduler counts such an
\* agent as unsettled, and the lead would wait for it forever.
WorkingHasTurn ==
    \A a \in slots \cap Initial :
        status[a] = "Working" => pc[a] \in {"send", "mark", "finalize", "idle"}

\* No step marks a row read that was not passed to the agent: crashes, aborts
\* and removals lose no row silently.
ReadOnlyWhenHanded ==
    [][\A a \in Agents : \A m \in unread[a] \ unread'[a] : m.id \in handed[a]]_vars

\* The rows an agent was ever sent are the unread ones and those handed to it;
\* the rows marked read are the handed ones that are no longer unread.
MailboxSpec == INSTANCE Mailbox WITH
    written <- [a \in Agents |-> Ids(unread[a]) \cup handed[a]],
    delivered <- handed,
    read <- [a \in Agents |-> handed[a] \ Ids(unread[a])],
    next <- nextId

\* The session implements the mailbox: whatever the loops, the inline wakes,
\* restarts, crashes and removals do, a row written is never lost, is marked
\* read only once handed over, stays read, and nobody is handed a row that was
\* not written to it.
ImplementsMailbox == MailboxSpec!Spec

\* Without faults, removals and chat turns every row sent to an agent is
\* eventually taken out of its mailbox, idle notifications included.  The
\* exception is a loop that hit the guard (event_loop.rs:204-206), which nothing
\* re-arms, because a detached agent was still at work on what the loop's own
\* last send had left it.
Drains ==
    \A a \in Agents :
        Foreign(a) # {} ~>
            Foreign(a) = {} \/ a \in stalled \cap Detached \/ chats > 0

\* event_loop.rs: "Guard: skip if already running".  A team turn and a chat
\* turn never run on one conversation at the same time.
TurnsDoNotOverlap == \A a \in Agents : ~(pc[a] = "send" /\ chat[a] = "busy")
=============================================================================
