----------------------------- MODULE RemoteTurn -----------------------------
(* Turns of remote (OpenCode) conversations that share one server.          *)
(*                                                                          *)
(* The server has a single registration for the client-side file tools, so  *)
(* conversations take turns: a send waits for the turn slot (TURN_SIGNALS), *)
(* points the registration at its own tool server (SLOT_OWNERS and the      *)
(* registration mutex), posts the prompt and leaves the slot to the reader  *)
(* of the server's event stream, which ends the turn's relay and frees the  *)
(* slot.  The slot is held by a conversation, not by a turn, and the stream *)
(* delivers a turn's last events after the next turn may have begun.        *)
EXTENDS Integers, Sequences, FiniteSets

CONSTANTS
    Convs,          \* conversations whose agents use the same server
    None,           \* nobody
    Resumable,      \* conversations that start with a persisted session
    MaxTurns,       \* turns sent, all conversations together
    MaxTroubles     \* finalization bursts, errors, stops, timed-out waits,
                    \* refused calls, lost streams and disposals together

ASSUME RemoteAssumption ==
    /\ None \notin Convs \cup (Convs \X (0..MaxTurns))
    /\ Resumable \subseteq Convs
    /\ MaxTurns \in Nat \ {0} /\ MaxTroubles \in Nat

VARIABLES
    active,      \* TurnSignal.active: the conversation holding the slot
    waiters,     \* tasks parked on TurnSignal.notify, oldest first
    permit,      \* a notify_one nobody was parked for
    mutex,       \* the task holding the registration mutex
    owner,       \* SLOT_OWNERS: the conversation last claimed for
    registered,  \* external: whose tool server OpenCode would call
    pc,          \* where each task is
    session,     \* whether the OpenCode session exists
    turn,        \* number of turns sent so far
    relay,       \* the turn whose stream relay is listening, or 0
    armed,       \* root_turn_active
    finished,    \* finished_current_user_turn
    reader,      \* the event reader: "read", or "release" after a Finish
    events,      \* external: the event stream, not yet read
    prompts,     \* external: prompts the server accepted, not yet begun
    running,     \* external: the turn the server is working on, or 0
    aborting,    \* a POST abort is under way
    troubles,    \* how many of the bounded events happened
    failed,      \* history: a call failed, events were lost or disposed of
    excused,     \* history: turns that lost slot or tools to a stop, a timeout,
                 \* a registration made without the slot or a late release
    late,        \* history: turns sent while an earlier one was in flight
    exposed,     \* history: turns begun while a finalization burst of an earlier
                 \* one was unread
    stray        \* history: turns whose relay an earlier turn's event ended

slot == <<active, waiters, permit>>
tools == <<mutex, owner, registered>>
flags == <<armed, finished, reader>>
server == <<events, prompts, running>>
counts == <<troubles, failed>>
history == <<excused, late, exposed, stray>>
vars == <<slot, tools, pc, session, turn, relay, flags, server, aborting,
          counts, history>>

\* <<c, n>> is the send of turn n of conversation c; <<c, 0>> is the
\* connect_opencode of its agent.
Turns == Convs \X (1..MaxTurns)
Tasks == Convs \X (0..MaxTurns)

Stages == {"none", "subscribed", "acquire", "waiting", "ensure", "candidate",
           "verify", "fallback", "post", "done"}
Event == [kind : {"busy", "stop", "idle", "error", "disposed"}, turn : 0..MaxTurns]
Init ==
    /\ active = None /\ waiters = <<>> /\ permit = FALSE
    /\ mutex = None /\ owner = None /\ registered = None
    /\ pc = [t \in Tasks |-> "none"]
    /\ session = [c \in Convs |-> c \in Resumable]
    /\ turn = [c \in Convs |-> 0]
    /\ relay = [c \in Convs |-> 0]
    /\ armed = [c \in Convs |-> FALSE]
    /\ finished = [c \in Convs |-> FALSE]
    /\ reader = [c \in Convs |-> "read"]
    /\ events = [c \in Convs |-> <<>>]
    /\ prompts = [c \in Convs |-> <<>>]
    /\ running = [c \in Convs |-> 0]
    /\ aborting = [c \in Convs |-> FALSE]
    /\ troubles = 0 /\ failed = FALSE
    /\ excused = {} /\ late = {} /\ exposed = {} /\ stray = {}

Goto(t, stage) == pc' = [pc EXCEPT ![t] = stage]
Trouble == troubles < MaxTroubles /\ troubles' = troubles + 1 /\ UNCHANGED failed
Fault == troubles < MaxTroubles /\ troubles' = troubles + 1 /\ failed' = TRUE
TurnsOf(c) == {<<c, n>> : n \in 1..turn[c]}

-----------------------------------------------------------------------------
(* The turn slot.                                                           *)

\* Mutant of ReleaseTurn: the slot is freed without a notification.
ReleaseTurnSilently(c, p) ==
    /\ pc' = p
    /\ active' = IF active = c THEN None ELSE active
    /\ UNCHANGED <<waiters, permit>>

\* Mutant of ReleaseTurn: whoever holds the slot loses it.
ReleaseTurnUnchecked(c, p) ==
    /\ active' = None
    /\ IF waiters = <<>>
       THEN permit' = TRUE /\ pc' = p /\ UNCHANGED waiters
       ELSE /\ waiters' = Tail(waiters)
            /\ pc' = [p EXCEPT ![Head(waiters)] = "acquire"]
            /\ UNCHANGED permit

\* release_turn: owner-checked; notify_one wakes the oldest waiter or leaves a
\* permit.  p are the stages after the caller's own step.
ReleaseTurn(c, p) ==
    IF active # c
    THEN pc' = p /\ UNCHANGED slot
    ELSE /\ active' = None
         /\ IF waiters = <<>>
            THEN permit' = TRUE /\ pc' = p /\ UNCHANGED waiters
            ELSE /\ waiters' = Tail(waiters)
                 /\ pc' = [p EXCEPT ![Head(waiters)] = "acquire"]
                 /\ UNCHANGED permit

\* acquire_turn, one round under the lock: take a free slot, pass through when
\* the conversation holds it already, else arm the notification.  A permit
\* left behind makes the armed wait return at once.
AcquireTurn(t) ==
    /\ pc[t] = "acquire"
    /\ \/ /\ active \in {None, t[1]}
          /\ active' = t[1]
          /\ Goto(t, "ensure")
          /\ UNCHANGED <<waiters, permit>>
       \/ /\ active \notin {None, t[1]}
          /\ IF permit
             THEN permit' = FALSE /\ UNCHANGED <<waiters, pc>>
             ELSE /\ waiters' = Append(waiters, t)
                  /\ Goto(t, "waiting")
                  /\ UNCHANGED permit
          /\ UNCHANGED active
    /\ UNCHANGED <<tools, session, turn, relay, flags, server, aborting, counts, history>>

\* Nothing but a timer can happen.
Stalled ==
    /\ \A t \in Tasks : pc[t] \in {"none", "waiting", "done"}
    /\ \A c \in Convs : /\ events[c] = <<>> /\ prompts[c] = <<>> /\ running[c] = 0
                        /\ reader[c] = "read" /\ ~aborting[c]

Without(seq, i) == SubSeq(seq, 1, i - 1) \o SubSeq(seq, i + 1, Len(seq))

\* acquire_turn after TURN_WAIT_TIMEOUT: take the slot whoever holds it.  A
\* wait that times out while the holder is still at work is a trouble.
TimeOut(t) ==
    /\ pc[t] = "waiting"
    /\ IF Stalled THEN UNCHANGED counts ELSE Trouble
    /\ \E i \in 1..Len(waiters) : waiters[i] = t /\ waiters' = Without(waiters, i)
    /\ active' = t[1]
    /\ Goto(t, "ensure")
    /\ excused' = excused \cup (IF active \in Convs THEN TurnsOf(active) ELSE {})
    /\ UNCHANGED <<permit, tools, session, turn, relay, flags, server, aborting,
                   late, exposed, stray>>

-----------------------------------------------------------------------------
(* The registration of the tool server: ensure_local_fs_mcp.                *)

\* What follows the registration: a resuming connect is done, a send posts.
Onward(t) == IF t[2] = 0 THEN "done" ELSE "post"

\* The turns in flight that a registration made without the slot takes the
\* tools away from: a resuming connect never asks for the slot, a send may
\* have lost it.
Robbed(t) ==
    IF active = t[1] THEN {} ELSE UNION {TurnsOf(d) : d \in Convs \ {t[1]}}

\* owns_slot, outside the mutex: nothing to do, although another registration
\* may be half done.
AlreadyOwned(t) ==
    /\ pc[t] = "ensure" /\ owner = t[1]
    /\ Goto(t, Onward(t))
    /\ excused' = IF mutex = None THEN excused ELSE excused \cup {t}
    /\ UNCHANGED <<slot, tools, session, turn, relay, flags, server, aborting,
                   counts, late, exposed, stray>>

\* Mutant of LockRegistration: registrations do not exclude each other.
LockRegistrationShared(t) ==
    /\ pc[t] = "ensure" /\ owner # t[1]
    /\ mutex' = t
    /\ Goto(t, "candidate")
    /\ UNCHANGED <<slot, owner, registered, session, turn, relay, flags, server,
                   aborting, counts, history>>

\* acquire_slot_inner: enter the mutex and look again; it may be ours by now.
LockRegistration(t) ==
    /\ pc[t] = "ensure" /\ owner # t[1] /\ mutex = None
    /\ mutex' = t
    /\ Goto(t, "candidate")
    /\ UNCHANGED <<slot, owner, registered, session, turn, relay, flags, server,
                   aborting, counts, history>>

\* register_candidates: POST mcp.add for a candidate address; a refused one
\* leaves the best guess to be tried.
RegisterCandidate(t) ==
    /\ pc[t] = "candidate"
    /\ \/ /\ registered' = t[1]
          /\ excused' = excused \cup Robbed(t)
          /\ Goto(t, "verify")
          /\ UNCHANGED counts
       \/ /\ Fault
          /\ Goto(t, "fallback")
          /\ UNCHANGED <<registered, excused>>
    /\ UNCHANGED <<slot, mutex, owner, session, turn, relay, flags, server, aborting,
                   late, exposed, stray>>

\* verify_dial_back, then claim_slot; without a dial-back the registration is
\* disconnected again.
VerifyDialBack(t) ==
    /\ pc[t] = "verify"
    /\ \/ /\ owner' = t[1] /\ mutex' = None
          /\ excused' = excused \cup Robbed(t)
          /\ Goto(t, Onward(t))
          /\ UNCHANGED <<registered, counts>>
       \/ /\ Fault
          /\ registered' = None
          /\ Goto(t, "fallback")
          /\ UNCHANGED <<mutex, owner, excused>>
    /\ UNCHANGED <<slot, session, turn, relay, flags, server, aborting,
                   late, exposed, stray>>

\* The best guess, registered unverified and claimed; when that is refused too
\* the send goes on without its tools.
RegisterFallback(t) ==
    /\ pc[t] = "fallback"
    /\ \/ /\ registered' = t[1] /\ owner' = t[1]
          /\ excused' = excused \cup Robbed(t)
       \/ UNCHANGED <<registered, owner, excused>>
    /\ UNCHANGED counts
    /\ mutex' = None
    /\ Goto(t, Onward(t))
    /\ UNCHANGED <<slot, session, turn, relay, flags, server, aborting,
                   late, exposed, stray>>

-----------------------------------------------------------------------------
(* Opening a conversation, sending and stopping.                            *)

\* connect_opencode: a persisted session is looked up and, when the server
\* still has it, the tools are registered at once.
Connect(c) ==
    /\ pc[<<c, 0>>] = "none"
    /\ \/ /\ session[c]
          /\ Goto(<<c, 0>>, "ensure")
          /\ UNCHANGED <<session, counts>>
       \/ /\ session[c] /\ Fault
          /\ session' = [session EXCEPT ![c] = FALSE]
          /\ Goto(<<c, 0>>, "done")
       \/ /\ ~session[c]
          /\ Goto(<<c, 0>>, "done")
          /\ UNCHANGED <<session, counts>>
    /\ UNCHANGED <<slot, tools, turn, relay, flags, server, aborting, history>>

\* The sends of the turns before turn n have returned.
Dispatched(c, n) == \A k \in 1..n - 1 : pc[<<c, k>>] = "done"

\* Nothing of the turns before turn n is under way any more: their prompts
\* were answered and the last event was read.
Quiet(c, n) ==
    /\ Dispatched(c, n)
    /\ events[c] = <<>> /\ prompts[c] = <<>> /\ running[c] = 0
    /\ reader[c] = "read" /\ ~armed[c] /\ ~aborting[c]

\* The Finish of the turns before turn n is out; all that is left to read are
\* repeats of their last events.
Settled(c, n) ==
    /\ Dispatched(c, n) /\ finished[c]
    /\ prompts[c] = <<>> /\ running[c] = 0
    /\ \A i \in DOMAIN events[c] : events[c][i].kind # "error"

\* ConversationService::send_message: a conversation that is not running gets
\* a relay, subscribed before the agent is called.
Send(c) ==
    /\ pc[<<c, 0>>] = "done" /\ relay[c] = 0 /\ turn[c] < MaxTurns
    /\ Cardinality({t \in Turns : pc[t] # "none"}) < MaxTurns
    /\ turn' = [turn EXCEPT ![c] = @ + 1]
    /\ relay' = [relay EXCEPT ![c] = turn[c] + 1]
    /\ Goto(<<c, turn[c] + 1>>, "subscribed")
    /\ late' = IF Settled(c, turn[c] + 1) \/ Quiet(c, turn[c] + 1)
               THEN late
               ELSE late \cup {<<c, turn[c] + 1>>}
    /\ UNCHANGED <<slot, tools, session, flags, server, aborting, counts, excused, exposed,
                   stray>>

\* A busy event nobody has read yet.  When turn n begins with none of its
\* predecessors in flight, it can only be the burst of one of them.
BurstUnread(c) == \E i \in DOMAIN events[c] : events[c][i].kind = "busy"

\* What the history keeps of the moment a turn begins: a burst that the lifted
\* lockout no longer keeps from arming, and a slot that the Finish of the
\* previous turn is still to give back.
Overlaps(t) ==
    /\ exposed' = IF BurstUnread(t[1]) THEN exposed \cup {t} ELSE exposed
    /\ excused' = IF reader[t[1]] = "release" THEN excused \cup {t} ELSE excused

\* Mutant of BeginTurn: the lockout of the previous turn stays.
BeginTurnLockedOut(t) ==
    /\ pc[t] = "subscribed"
    /\ Goto(t, "acquire")
    /\ Overlaps(t)
    /\ UNCHANGED <<slot, tools, session, turn, relay, flags, server, aborting,
                   counts, late, stray>>

\* send_message up to the dispatch: lift the lockout of the previous turn.
BeginTurn(t) ==
    /\ pc[t] = "subscribed"
    /\ finished' = [finished EXCEPT ![t[1]] = FALSE]
    /\ Goto(t, "acquire")
    /\ Overlaps(t)
    /\ UNCHANGED <<slot, tools, session, turn, relay, armed, reader, server, aborting,
                   counts, late, stray>>

\* opencode_send_after_acquire: create the session if there is none and post
\* the prompt.  A refused call gives the slot back and tells nobody else; so
\* does a call that timed out although the server took the prompt.
PostPrompt(t) ==
    /\ pc[t] = "post"
    /\ LET c == t[1]
           posted == prompts' = [prompts EXCEPT ![c] = Append(@, t[2])]
           created == session' = [session EXCEPT ![c] = TRUE]
           done == [pc EXCEPT ![t] = "done"]
       IN \/ posted /\ created /\ pc' = done /\ UNCHANGED <<slot, counts>>
          \/ Fault /\ ReleaseTurn(c, done) /\ UNCHANGED <<prompts, session>>
          \/ Fault /\ ReleaseTurn(c, done) /\ created /\ UNCHANGED prompts
          \/ Fault /\ ReleaseTurn(c, done) /\ created /\ posted
    /\ UNCHANGED <<tools, turn, relay, flags, events, running, aborting, history>>

\* cancel: once a session exists, post an abort in the background and free the
\* slot; the relay is left to the server's last events.
Cancel(c) ==
    /\ pc[<<c, 0>>] = "done" /\ session[c]
    /\ Trouble
    /\ aborting' = [aborting EXCEPT ![c] = TRUE]
    /\ ReleaseTurn(c, pc)
    /\ excused' = excused \cup TurnsOf(c)
    /\ UNCHANGED <<tools, session, turn, relay, flags, server, late, exposed, stray>>

-----------------------------------------------------------------------------
(* External: the OpenCode server, one session per conversation.             *)

Report(kind, n) == [kind |-> kind, turn |-> n]
Emit(c, reports) == events' = [events EXCEPT ![c] = @ \o reports]

\* The server begins the next prompt of a session.
ServerBegins(c) ==
    /\ running[c] = 0 /\ prompts[c] # <<>>
    /\ running' = [running EXCEPT ![c] = Head(prompts[c])]
    /\ prompts' = [prompts EXCEPT ![c] = Tail(@)]
    /\ Emit(c, <<Report("busy", Head(prompts[c]))>>)
    /\ UNCHANGED <<slot, tools, pc, session, turn, relay, flags, aborting, counts, history>>

\* A turn ends with the terminal events, possibly followed by a finalization
\* burst, or with an error; an abort that reaches the session ends whatever
\* turn is running there.
ServerEnds(c) ==
    /\ \/ /\ running[c] # 0
          /\ Emit(c, <<Report("stop", running[c]), Report("idle", running[c])>>)
          /\ UNCHANGED <<aborting, counts>>
       \/ /\ running[c] # 0 /\ Trouble
          /\ Emit(c, <<Report("stop", running[c]), Report("idle", running[c]),
                     Report("busy", running[c]), Report("idle", running[c])>>)
          /\ UNCHANGED aborting
       \/ /\ running[c] # 0 /\ Trouble
          /\ Emit(c, <<Report("error", running[c]), Report("idle", running[c])>>)
          /\ UNCHANGED aborting
       \/ /\ aborting[c]
          /\ aborting' = [aborting EXCEPT ![c] = FALSE]
          /\ IF running[c] = 0 THEN UNCHANGED events
             ELSE Emit(c, <<Report("error", running[c]), Report("idle", running[c])>>)
          /\ UNCHANGED counts
    /\ running' = [running EXCEPT ![c] = 0]
    /\ UNCHANGED <<slot, tools, pc, session, turn, relay, flags, prompts, history>>

\* The server instance is disposed: its turns are gone, every stream says so.
ServerDisposed ==
    /\ Fault
    /\ events' = [c \in Convs |-> Append(events[c], Report("disposed", 0))]
    /\ prompts' = [c \in Convs |-> <<>>]
    /\ running' = [c \in Convs |-> 0]
    /\ UNCHANGED <<slot, tools, pc, session, turn, relay, flags, aborting, history>>

-----------------------------------------------------------------------------
(* The reader of the event stream: handle_opencode_sse_event.               *)

Incoming(c) == Head(events[c])

Receives(c, kinds) ==
    /\ reader[c] = "read" /\ events[c] # <<>> /\ Incoming(c).kind \in kinds
    /\ events' = [events EXCEPT ![c] = Tail(@)]

\* Mutant of EndRelay: a relay is counted off although none listens.
EndRelayTwice(c) ==
    /\ relay' = [relay EXCEPT ![c] = IF @ = 0 THEN @ - 1 ELSE 0]
    /\ UNCHANGED stray

\* A terminal event on the agent's channel ends the relay that listens.
EndRelay(c) ==
    /\ relay' = [relay EXCEPT ![c] = 0]
    /\ stray' = IF relay[c] \in {0, Incoming(c).turn} THEN stray
                ELSE stray \cup {<<c, relay[c]>>}

\* Mutant of Busy: every busy event arms the turn.
BusyAlways(c) ==
    /\ Receives(c, {"busy"})
    /\ armed' = [armed EXCEPT ![c] = TRUE]
    /\ UNCHANGED <<slot, tools, pc, session, turn, relay, finished, reader, prompts,
                   running, aborting, counts, history>>

\* session.status busy: arm the turn, unless its Finish is out already.
Busy(c) ==
    /\ Receives(c, {"busy"})
    /\ armed' = [armed EXCEPT ![c] = @ \/ ~finished[c]]
    /\ UNCHANGED <<slot, tools, pc, session, turn, relay, finished, reader, prompts,
                   running, aborting, counts, history>>

\* finish=stop, session.status idle and session.idle: emit_root_turn_finish.
RootTurnFinish(c) ==
    /\ Receives(c, {"stop", "idle"})
    /\ IF armed[c]
       THEN /\ armed' = [armed EXCEPT ![c] = FALSE]
            /\ finished' = [finished EXCEPT ![c] = TRUE]
            /\ reader' = [reader EXCEPT ![c] = "release"]
            /\ EndRelay(c)
       ELSE UNCHANGED <<flags, relay, stray>>
    /\ UNCHANGED <<slot, tools, pc, session, turn, prompts, running, aborting, counts,
                   excused, late, exposed>>

\* The rest of emit_root_turn_finish: release_turn_slot.
ReleaseSlot(c) ==
    /\ reader[c] = "release"
    /\ reader' = [reader EXCEPT ![c] = "read"]
    /\ ReleaseTurn(c, pc)
    /\ UNCHANGED <<tools, session, turn, relay, armed, finished, server, aborting, counts, history>>

\* session.error of the root session: an Error event, and nothing else.
SessionError(c) ==
    /\ Receives(c, {"error"})
    /\ EndRelay(c)
    /\ UNCHANGED <<slot, tools, pc, session, turn, flags, prompts, running, aborting,
                   counts, excused, late, exposed>>

\* server.instance.disposed: free the slot and reconnect.
Disposed(c) ==
    /\ Receives(c, {"disposed"})
    /\ ReleaseTurn(c, pc)
    /\ UNCHANGED <<tools, session, turn, relay, flags, prompts, running, aborting, counts, history>>

\* The stream breaks or stalls: what was not read is gone when the reader has
\* reconnected.
StreamLost(c) ==
    /\ events[c] # <<>> /\ reader[c] = "read" /\ Fault
    /\ events' = [events EXCEPT ![c] = <<>>]
    /\ UNCHANGED <<slot, tools, pc, session, turn, relay, flags, prompts, running,
                   aborting, history>>

-----------------------------------------------------------------------------
TaskStep(t) ==
    \/ BeginTurn(t) \/ AcquireTurn(t) \/ AlreadyOwned(t) \/ LockRegistration(t)
    \/ RegisterCandidate(t) \/ VerifyDialBack(t) \/ RegisterFallback(t) \/ PostPrompt(t)

Read(c) ==
    Busy(c) \/ RootTurnFinish(c) \/ ReleaseSlot(c) \/ SessionError(c) \/ Disposed(c)

Serve(c) == ServerBegins(c) \/ ServerEnds(c)

Next ==
    \/ \E t \in Tasks : TaskStep(t) \/ TimeOut(t)
    \/ \E c \in Convs : Connect(c) \/ Send(c) \/ Cancel(c)
    \/ \E c \in Convs : Read(c) \/ Serve(c) \/ StreamLost(c)
    \/ ServerDisposed

Spec == Init /\ [][Next]_vars

\* Tasks, readers and timers are scheduled; the server ends the turns it
\* begins.  Every process takes boundedly many steps, so fairness to the kinds
\* of step is fairness to each.
Fairness ==
    /\ WF_vars(\E t \in Tasks : TaskStep(t))
    /\ WF_vars(\E t \in Tasks : TimeOut(t))
    /\ WF_vars(\E c \in Convs : Read(c) \/ Serve(c))

FairSpec == Spec /\ Fairness

-----------------------------------------------------------------------------
(* Properties                                                               *)

SlotOK == active \in Convs \cup {None} /\ waiters \in Seq(Tasks) /\ permit \in BOOLEAN
ToolsOK ==
    /\ mutex \in Tasks \cup {None}
    /\ owner \in Convs \cup {None} /\ registered \in Convs \cup {None}
StagesOK == pc \in [Tasks -> Stages]
ConvsOK ==
    /\ session \in [Convs -> BOOLEAN]
    /\ turn \in [Convs -> 0..MaxTurns] /\ relay \in [Convs -> 0..MaxTurns]
FlagsOK ==
    /\ armed \in [Convs -> BOOLEAN] /\ finished \in [Convs -> BOOLEAN]
    /\ reader \in [Convs -> {"read", "release"}]
ServerOK ==
    /\ events \in [Convs -> Seq(Event)] /\ prompts \in [Convs -> Seq(0..MaxTurns)]
    /\ running \in [Convs -> 0..MaxTurns] /\ aborting \in [Convs -> BOOLEAN]
CountsOK == troubles \in 0..MaxTroubles /\ failed \in BOOLEAN
HistoryOK ==
    /\ excused \subseteq Tasks /\ late \subseteq Tasks
    /\ exposed \subseteq Tasks /\ stray \subseteq Tasks

\* Types of the slot, the registration, the flags, the streams and the tasks.
TypeOK ==
    SlotOK /\ ToolsOK /\ StagesOK /\ ConvsOK /\ FlagsOK /\ ServerOK /\ CountsOK /\ HistoryOK

\* A send parked on the notification is never forgotten: while the slot is
\* free, somebody who was woken, or who just arrived, is about to take it and
\* to release it again.
NoStrandedWaiter ==
    waiters # <<>> /\ active = None => \E t \in Tasks : pc[t] = "acquire"

\* "So we never see the map disagreeing with what OpenCode actually has
\* registered": whenever no registration is under way and no call failed,
\* SLOT_OWNERS names the conversation the server's tools lead to, so that the
\* check that skips a registration can be trusted.
MapIsTrue == mutex = None /\ ~failed => owner = registered

\* While the server works on a turn, the conversation holds the slot and the
\* server's file tools lead to its workspace -- unless a call failed, the turn
\* was stopped, was overtaken by a timed-out wait or by a resuming
\* conversation, was sent while an earlier turn was in flight, or was begun
\* before that turn's burst was read or its slot given back.
ToolsReachTheirWorkspace ==
    ~failed =>
    \A c \in Convs :
        running[c] # 0 /\ <<c, running[c]>> \notin excused \cup late \cup exposed
        => active = c /\ registered = c

\* A relay is ended by an event of its own turn only, whatever stops, idles,
\* disposals and bursts of earlier turns are still delivered -- with two
\* exceptions: an earlier turn was in flight when the message was sent (late);
\* or a finalization burst of one was still unread when send_message lifted
\* the lockout (agent.rs:5589), so that it arms and ends the new turn
\* (exposed).  The comments at agent.rs:61-67 and 2316-2323 do not expect the
\* second.
FinishIsOwn == stray \subseteq late \cup exposed

\* Without failing calls every turn's relay is ended: neither the lockout
\* after a Finish nor a wait for the slot swallows a turn.
TurnEnds == \A c \in Convs : relay[c] # 0 ~> (relay[c] = 0 \/ failed)

\* opencode_mcp.rs: while a turn is in flight, "other conversations asking to
\* claim the slot block until the active turn finishes".  No step points the
\* tools away from a working turn that holds the slot.
ClaimsWaitForTheTurn ==
    [][\A c \in Convs :
        running[c] # 0 /\ active = c /\ registered = c => registered' = c]_vars
=============================================================================
