# A verification project for chisel-core

chisel-core is the backend of a desktop application that runs AI agents: an
HTTP and WebSocket server over SQLite that starts agent processes, relays
their turns to the user, lets several agents work as a *team*, and fires
scheduled prompts. These TLA+ modules model the parts in which several tasks
share state; TLC checks them on small instances and TLAPS proves the main
results for every instance.

Paths below are relative to `src/crates/`.

## The system

| part | state | operations | talks to |
|---|---|---|---|
| team session, event loops, scheduler (`chisl-team/src/{session,event_loop}.rs`, `scheduler/`) | slots with status and `needs_role_prompt`; one `Notify` and one loop task per slot | wake, drain, turn, finalize, cascade to the lead | mailbox, task manager, conversation row, relay |
| team mailbox (`mailbox.rs`, `chisl-db/.../sqlite_team.rs`) | `mailbox` rows with a `read` flag | `write`, `peek_unread`, `mark_read_batch` | SQLite |
| team task board (`task_board.rs`) | `team_tasks` rows, dependencies stored in both directions | `create_task`, `update_task`, `check_unblocks` | SQLite |
| team MCP server (`mcp/server.rs`) | none of its own | `team_send_message`, `team_spawn_agent`, `team_shutdown_agent`, `team_task_*` | all of the above |
| team service (`service.rs`) | live sessions, the roster column | `ensure_session`, `restore_all`, `stop_session`, `add_agent`, `remove_agent`, `rename_agent` | session, conversations |
| conversations (`chisl-conversation`) | `conversations.status`, messages | `send_message`, `cancel`, `delete`, `complete_conversation`; one relay per turn | task manager, relay, cron |
| task manager and agent runtime (`chisl-ai-agent/src/{task_manager,agent_runtime}.rs`, `manager/{acp,aionrs,openclaw,nanobot}`) | one `OnceCell` per conversation; status and event channel per agent | build, kill, idle scan, finish and error events | factories, relays |
| cron (`chisl-cron`) | job rows, timers, busy marks | create, update, remove, fire, retry, reschedule, resume | conversations |
| remote agent manager and shared tool registration (`chisl-ai-agent/src/manager/remote/{agent,opencode_mcp}.rs`) | one turn slot and one registration per OpenCode server; turn flags and an event reader per conversation | connect, send, cancel, claim the slot, register the tools, read events | OpenCode server, relay, other conversations |
| remote prompts (`manager/remote/{agent,opencode_question}.rs`) | queued cards, deadlines, parked channels, buffered answers, reply stamps, blessings | ask, `confirm`, auto-accept, sweep, reject at the end of a turn, post a reply | OpenCode server, local tool server, user |
| the rest (auth, channels, files, extensions, MCP settings, LSP, office, terminal, shell, system, assets) | tables, files, child processes | CRUD and I/O | |

What is hard here: every agent has a loop of its own, the mailbox and the
conversation row are read and written by separate SQL statements, wakes are
`Notify` permits that can be stored once, lost or consumed for nothing,
relays are detached tasks, chat turns run on the same conversations, a timer's
tick works on a copy of its job while requests change the row, remote
conversations share one registration on one server whose event stream lags
behind the turns, an answer to a prompt races its deadline, its duplicates and
other clients' answers, and the backend can die between any two statements.
`PROJECT.json` lists the hazards one by one, at their lines, with the
properties that would catch them.

What makes each part correct:

* **mailbox and loops**: no row is left without a wake; no row is marked read
  that was not passed to its agent; without failures no row is passed twice;
  a status of `Working` ends; the lead is woken when its teammates settle;
  every mailbox drains as long as nobody's agent works behind its loop's back.
* **task board**: the two directions of a dependency agree; completing a task
  releases its dependents; nothing else does; creation makes no cycle.
* **conversations, task manager, agent runtime**: a relay that waits will hear
  a terminal event although the runtime emits none once its status is
  `Finished`; a row that says `running` has a turn that frees it, as long as
  the update at its end succeeds; every turn ends.
* **cron**: retries are bounded; a busy mark has a run that clears it; an
  enabled job that nothing is handling has a timer; a removed job's timer
  dies; a recurring job keeps ticking.
* **remote turns**: a send that waits for the slot is woken; the map that
  lets a registration be skipped is true; while the server works on a turn its
  tools lead to that turn's workspace; a relay is ended by its own turn; every
  turn ends.
* **remote prompts**: no parked tool call whose card was shown is forgotten;
  nothing is allowed that the user did not allow; a card does not outlive its
  prompt; every prompt ends.

## Modules

| module | what it is |
|---|---|
| `TeamEventLoop` | one live team session |
| `Mailbox` | what the team mailbox promises; `TeamEventLoop` implements it |
| `TaskBoard` | the task board |
| `ConversationTurn` | the turns of one conversation: service, task manager, agent runtime, relay |
| `Cron` | the cron engine |
| `RemoteTurn` | turns of remote conversations that share one OpenCode server |
| `RemotePrompts` | the prompts of one remote conversation |
| `MCTeamEventLoop`, `MCTaskBoard`, `MCConversationTurn`, `MCCron`, `MCRemoteTurn`, `MCRemotePrompts` | the model values and symmetries for TLC |
| `TeamEventLoopProofs`, `TaskBoardProofs`, `ConversationTurnProofs`, `CronProofs`, `CronTimerProofs`, `RemoteTurnProofs`, `RemoteStreamProofs`, `RemotePromptsProofs` | inductive invariants and theorems |

### TeamEventLoop

State. `slots`, `status` and `fresh` are the scheduler's `AgentSlot`s
(`fresh` is `needs_role_prompt`); `unread` and `conv` are the SQLite tables
that survive a crash; `loops` and `permit` are the `EventLoopRegistry`; `pc`,
`batch`, `prompted` and `turnOk` are the local variables of each loop; `late`
are relays that have not yet acted on their terminal event; `running` are
agents whose handle is still `Running` although `send_message` has returned
(openclaw, nanobot and remote agents, the constant `Detached`); `pokes` are wakes
a request handler still owes after it wrote rows; `inline`, `attaching`,
`leaving` and `chat` are the other tasks that touch the slot. `handed`,
`rehanded` and `stalled` are history.

A row is an id, a sender and a kind: message text is never looked at, except
for the two reserved replies `shutdown_approved` and `shutdown_rejected:`,
which are actions of their own.

Actions follow the code between two awaits that another task can observe:

| code | actions |
|---|---|
| `run_event_loop` | `LoopWake`, `Peek`, `Park` (drain loop), `GiveUp` |
| `execute_turn` | `WakeFails`, `GuardHit`, `GuardPass`, `Claim`, `TurnEnds` (`send_message` returns), `AgentEnds` (a detached agent is done), `MarkRead` |
| `finalize_turn`, `mark_idle` | `FinalizeTurn`, `MarkIdle`, `IdleNote`, `Cascade` |
| `send_message`, `send_message_to_agent`, `try_wake` | `UserSend`, `Poke`, `InlineWake`, `InlineSent` |
| MCP tools | `AgentSend`, `AgentSendFails`, `LeadShutdown`, `ShutdownApproved`, `ShutdownRejected`, `SpawnAgent` |
| background attach, deferred removal, REST roster changes | `Attach`, `DeferredRemove`, `RemoveAgent`, `AddAgent` |
| chat turns and relays | `ChatCheck`, `ChatClaim`, `ChatDone`, `RelayCompletes` |
| session stop and start, crash and restore | `StopAndEnsure`, `CrashRestart` |

`GuardPass` and `Claim` are separate because the code reads the conversation
row and writes it in separate statements; so are `ChatCheck` and `ChatClaim`.
`MarkIdle`, `IdleNote` and `Cascade` are separate because `mark_idle` takes
the slots lock three times and awaits a database write in between.

`stalled` records the places where the code itself gives a wake up: a guard
hit, a failed warmup, a failed peek, a failed write of the idle notification,
or a broadcast that fails after writing some of its rows and returns before it
notifies anybody. Nothing re-arms the loop there; `NoLostWake` and
`LeadHearsBack` say that these are the *only* places.

### Mailbox

The abstract mailbox knows four things: which ids were written to an agent,
which were delivered, which are read, and the next id. `TeamEventLoop` maps
`handed` to `delivered`, `Ids(unread) \cup handed` to `written` and the handed
rows that are no longer unread to `read`. Loops, sessions, crashes, removals
and inline wakes disappear in the mapping; what stays is that a row written is
not lost, is read only after it was delivered, stays read, and that nobody is
handed what was not written to it. Delivering a row twice is allowed: the code
does so after a crash.

### TaskBoard

One action per SQL statement (the two JSON appends are transactions in the
source and therefore one step). `call` is what each caller still has to do;
`blocks` is read at the beginning of an update and used at its end, as in the
code. `CutOff` is a database error or a crash in the middle of a call. `done`,
`rewritten`, `late`, `born` and `inserts` are history. Task statuses other
than `completed` behave alike and are one value.

### ConversationTurn

State. `row` is `conversations.status`; `slot` is the conversation's entry in
`WorkerTaskManagerImpl.tasks`, `cell` the `OnceCell`s it has had, `agent` the
instances in them (manager, `AgentRuntime.status`, whether the process lives,
whether a cancel fallback timer runs); `turn` are the requests with their
relays, `send` the spawned `agent.send_message` of each; `hook` is a deletion
whose hook has not run. `lost` is history: the last `complete_conversation`
did not reach the row.

| code | actions |
|---|---|
| `ConversationService::send_message` | `SendMessage`, `Refuse`, `MarkRunning`, `MarkFails`, `StartRelay` |
| `WorkerTaskManagerImpl::get_or_build_task` | `TakeCell`, `EnterCell`, `Built`, `BuildFails` |
| the spawned turn: relay, continuation, `complete_conversation` | `EndRelay`, `Continue`, `Complete`, `CompleteFails` |
| `send_message` of the agent managers | `SendReset`, `SendTransition`, `LockEngine`, `PromptEnds`, `Accepted`, `SendFails`, `CliEnds` |
| `cancel`, `kill`, the idle scanner, `delete` and its hook | `Cancel`, `Fallback`, `Kill`, `Delete`, `DeleteHook` |
| a process that dies, a channel that closes | `Dies`, `ChannelClosed` |

`EmitEnd` is the gate everything turns on: `emit_finish` and `emit_error`
return silently when the status is `Finished`, and `transition_to` cannot
leave `Finished`; only `reset_for_new_turn` can, and only some managers call
it. The relay holds the instance, so its channel does not close when the
manager is killed. `complete_conversation` logs a failed update and goes on
(`stream_relay.rs:874`); the row is then still `running` and nobody tries again,
which is the one exception of `RunningHasTurn`.

### Cron

State. `rows` is `cron_jobs`, `timers` the scheduler's handles, `busy` the
`CronBusyGuard`, `convs` the conversations. Each async task in flight is one
of `Slots`, with the await it is parked at and its `copy` of the job: the code
loads a job, awaits, and goes on with what it loaded.

| code | actions |
|---|---|
| `add_job`, `update_job`, `remove_job` | `AddJob`, `UpdateTimer`; `UpdateJob`, `UpdateWrite`, `UpdateTimer`; `RemoveJob`, `RemoveDelete` |
| `delete_jobs_by_conversation` | `DeleteConversation`, `CascadeCancel`, `CascadeDelete` |
| a timer and `tick` | `Fire`, `Tick`, `SaveRetry`, `ScheduleRetry`, `SaveSkipped` |
| `run_now` and `JobExecutor` | `RunNow`, `Prepare`, `PrepareFails`, `ExecutePrepared`, `ExecuteInner` |
| results and `reschedule_after_execution` | `ReadResult`, `SaveResult`, `Reschedule`, `RescheduleTimer` |
| `init`, `handle_system_resume`, a crash | `Restart`, `SystemResume`, `ListEnabled`, `InitJob`, `ResumeJob`, `ResumeMissed`, `RecordMissed`, `AdvanceMissed`, `MissedTimer`, `LoopEnd` |

Time is a choice: a timer may fire at any moment and a `next_run_at` may have
passed or not. `Saved` and `AdvancedRow` say which columns an update writes
(`max_retries` is not among them). `unsure` records the jobs whose timer a
failed call or two overlapping changes may have lost: `Crossing` and
`Rebinding` name those overlaps, and `EnabledIsScheduled` says there are no
others.

### RemoteTurn

OpenCode has one registration for the client-side file tools, so the
conversations of one server take turns. `active`, `waiters` and `permit` are
the `TurnSignal`; `mutex`, `owner` and `registered` the registration mutex,
`SLOT_OWNERS` and, external, what the server has registered; `pc` is where each
send (and each connect) stands; `armed` and `finished` are `root_turn_active`
and `finished_current_user_turn`; `events`, `prompts` and `running` are the
server, modelled from how the reader uses it.

| code | actions |
|---|---|
| `acquire_turn`, `release_turn` | `AcquireTurn`, `TimeOut`, `ReleaseTurn` (inside others) |
| `ensure_local_fs_mcp` | `AlreadyOwned`, `LockRegistration`, `RegisterCandidate`, `VerifyDialBack`, `RegisterFallback` |
| `connect_opencode`, `send_message`, `cancel` | `Connect`, `Send`, `BeginTurn`, `PostPrompt`, `Cancel` |
| the event reader | `Busy`, `RootTurnFinish`, `ReleaseSlot`, `SessionError`, `Disposed`, `StreamLost` |
| the server (external) | `ServerBegins`, `ServerEnds`, `ServerDisposed` |

A turn's terminal events may be read after the next turn has begun: the slot
is held by a conversation and not by a turn, and the flags are what tells the
events apart. The history says which turns the code makes no promise about.
`late` are turns sent while an earlier turn of their conversation still had
something under way: a send that had not returned, a prompt at the server, or
an event that could end a relay (`Quiet`, `Settled`). `exposed` are turns begun
while the busy/idle burst of an earlier one was unread: `send_message` lifts the
lockout (`agent.rs:5589`) before the reader meets the burst, which then arms the
new turn and ends it; the comments at `agent.rs:61-67` and 2316-2323 do not
expect that. `excused` are turns that were stopped or overtaken, or began
between the `Finish` of the previous turn and the release of its slot. A repeat
of a terminal event alone, or a burst read before the next turn begins, harms
nobody, and that is what `FinishIsOwn` says.

### RemotePrompts

Four kinds of prompts park a tool call: permissions and questions of the
OpenCode server, approvals (shell and destructive file operations) and
elicitations of the local tool server. `wait` is what each asker waits for or
was told; `cards`, `expiry`, `parked`, `answered`, `replied`, `closed`,
`requeued`, `memory` and `blessed` are the fields of `RemoteState` named in the
module; `news` is the server's event stream; `clicks` are `confirm` calls
between two lock sections, `posts` replies on the way and `acked` replies the
server has applied without the client having heard of it. A question has two
call ids, one for each part. `memory` holds kinds, `shell` and `fs`, because the
code keys the two apart (`agent.rs:1274-1286`).

A blessing is matched in two ways. When a permission is asked, `Covered` looks
at its target path and its sub-agent (`agent.rs:2852-2863`). When the blessing
comes, `Resembles` looks at the text of every queued card, against the workspace
too, which is blessed from the start (`agent.rs:1830-1834`, 6078-6090). Which
prompts are in which of the sets `InTree`, `InSession`, `TextInTree` and
`TextInWorkspace` is a constant, and the theorems hold for every choice.

`abandoned` are prompts whose reply was lost after the last try, `missed` those
of which an event was lost with the stream, `restored` cards put back after a
failed reply, `mistaken` prompts accepted for the text of their card although no
blessing covers them, `approved` the calls the user allowed.

| code | actions |
|---|---|
| `approve_shell_with_context`, `approve_fs_action`, `request_elicitation` | `RequestApproval`, `ApprovalTimesOut`, `ApprovalCleansUp`, `RequestElicitation` |
| the event reader | `AutoAccept`, `PermissionAsked`, `QueueCard`, `QuestionAsked`, `Replied`, `StreamLost` |
| `sweep_expired_prompts`, `synthesize_timeout_reject` | `SweepExpired`, `TimeoutReject` |
| `confirm` | `ConfirmLocal`, `RejectQuestion`, `AnswerQuestion`, `ConfirmPermission`, `ConfirmLocked`, then `Bless`, `Suppress`, `PostReply` |
| the spawned replies | `PostApplied` (external), `PostDelivered`, `PostFails` |
| `reject_pending_confirmations` | `RejectPending` |
| the server and its other clients (external) | `Ask`, `AskAgain`, `OtherClient`, `Apply` |

`confirm` is not async: it takes the lock three times with `try_write`, goes on
without a section whose lock is taken, and other tasks run between the
sections. The clock is a choice: a stamped prompt may be past its deadline at
any event, and a reply stamp may have aged when it is looked at. The module
takes for granted that an "always" key built from the names on an OpenCode
permission is never the key of a local file operation.

A lost stream takes unread `permission.asked` and `question.asked` with it; the
server may repeat them (`AskAgain`) but nothing makes it, and the list of pending
questions is not fetched (`opencode_question.rs:15-16`). A prompt whose card was
never shown for that reason is `Unseen` and excepted from `NobodyForgotten` and
`PromptEnds`; one whose card was shown before the stream went is not. A prompt
waits at most once, so that `[]<>` (nobody waits) in `PromptEnds` says that each
wait ends.

## Runs

Small sets of model values; deadlock is not checked: a session with nothing to
do is legitimately quiet, and the bounds end every behaviour.

| run | instance | checks |
|---|---|---|
| `team_spawn` | a lone lead, one slot to be spawned or added, removal of either, 1 message besides the welcome, 1 chat turn, 1 fault | `TypeOK`, `NoLostWake`, `ReadOnlyWhenHanded`, `ImplementsMailbox` |
| `team_drains` | lead and one teammate whose agent may be detached, 2 messages, 1 lagging relay, fair | `NoLostWake`, `WorkingHasTurn`, `NoRedelivery`, `LeadHearsBack`, `Drains` |
| `team_overlap` | 1 message, 1 chat turn | violates `TurnsDoNotOverlap` |
| `task_board` | 3 tasks, 2 callers, 2 updates, 1 cut-off | `TypeOK`, `LinksBothWays`, `LinkedDependentsReleased`, `DependsOnOlder`, `OnlyCompletionReleases` |
| `conversation_turn` | 2 turns, 2 instances, all 4 managers, 3 cancels, kills, deletions, deaths or failed updates, fair | `TypeOK`, `NeverStuck`, `RunningHasTurn`, `TurnEnds` |
| `conversation_turn_stuck` | openclaw, 2 turns | violates `NoRelayStuck` |
| `cron` | 1 job, 2 conversations, 2 tasks in flight, 2 edits, 1 fault | `TypeOK`, `RetriesBounded`, `BusyHasRun`, `EnabledIsScheduled` |
| `cron_fair` | 1 job, 1 conversation, 2 tasks, 2 edits, fair | `RemovedStops`, `KeepsTicking` |
| `cron_cascade` | 1 job, 2 conversations, 1 edit | violates `CascadeSparesNew` |
| `remote_turn` | 2 conversations, one of them resuming, 3 turns, 1 trouble, fair | `TypeOK`, `NoStrandedWaiter`, `MapIsTrue`, `ToolsReachTheirWorkspace`, `FinishIsOwn`, `TurnEnds` |
| `remote_workspace` | the same, 2 turns, no trouble | violates `ClaimsWaitForTheTurn` |
| `remote_prompts` | 2 prompts out of 2 permissions, a question, 3 approvals and an elicitation, 1 input, any deadline, any lost reply, fair | `TypeOK`, `NobodyForgotten`, `AllowedOnlyIfApproved`, `DeadCardsGo`, `PromptEnds` |

**Bounds.** `MaxMsgs` counts rows written by users and tools; idle
notifications are not bounded and end by themselves, because a turn needs a
message. Two messages are the smallest number for which a second send meets
every stage of the first one's turn (`team_drains`); in `team_spawn` the second
row is the welcome of the new slot. With two agents a
failing broadcast has written nothing to anybody else; that earlier rows stay
behind is covered by the theorems. One fault at any point covers each single
failure. Three tasks allow two dependents of one task and a chain; two updates
allow a completion to race with a reopening. Two turns of one conversation
meet in one instance or in two; three stops allow a cancel, a kill and a
deletion to overlap one turn; a failed update counts as one of them. Two tasks in flight let a run race with every
request, with a system resume and with a second tick of the same job; two
edits let an update follow another while the first one's copy is still in use.
`cron` has two conversations because a job's conversation may be deleted and
replaced while a run uses the old one. Three turns of two conversations let
one wait for the slot while the other's late events are still being read; one
trouble is a burst of final events, an error, a stop, a timed-out wait, a
refused call, a lost stream or a disposal. Two prompts let a blessing given
for one cover the other or, by its text, accept a card it does not cover, and
let an "always" meet a later approval of the same or of the other kind (`s`,
`s2` and `f`); the one input is an answer, a taken lock, another client's
answer, a lost stream or a repeated event (the second part of a question is free),
and deadlines, lost replies and ends of turns are not bounded. Two inputs and
more are left to the theorems, which have no bounds.

**What the violations show.** Four places where the code does something else
than a document or a comment of the repository says are recorded as findings
with the quoted line: the guard against concurrent turns is a check followed
by a separate write; an openclaw turn after the first whose send fails emits
no terminal event; deleting the conversation of a job that starts a new
conversation for every run deletes the job; a conversation that reconnects
moves the shared tools away from a turn that is being worked on.

**Fairness.** tokio runs every ready task, so each loop, owed wake, lagging
relay, background task and parked task has weak fairness. In addition: an
agent answers what it is sent (`team_drains`, `conversation_turn`); a timer
that is set again and again finds a free task, since the program does not
bound their number (`cron_fair`, strong fairness of `Fire`); the remote server
ends the turns it begins, and waits time out (`remote_turn`); its heartbeat
keeps the reader sweeping, POSTs end, and deadlines pass (`remote_prompts`). Users, tools,
requests, failures, cancels and roster changes have none. `Drains` is stated
up to guard hits and chat turns: when the guard meets a chat turn, or a detached
agent still at work on the loop's own last message, the code promises nothing
until the next signal; and a `shutdown_rejected:` from a chat turn wakes nobody.
The run has detached agents and no chat turn.

**Mutants.** Each property of a passing run is paired in `PROJECT.json` with a
plausible bug that breaks it: a loop registered without a notify
(`AttachUnnotified`), `notify_waiters` instead of a stored permit
(`PokeWaiters`), a turn whose end leaves the row `running`
(`FinalizeTurnKeepsRow`), a card without a deadline (`QueueCardUnstamped`), a lead that returns before its status is reset
(`MarkIdleLeadEarly`), an append that overwrites a concurrent one
(`LinkOverwrites`), a `transition_to` where a reset is needed
(`SendResetAbsorbed`), a busy mark kept on the error path
(`ExecuteInnerLeaks`), an off-by-one in the retry limit (`HandleBusyLate`), a
release that wakes nobody (`ReleaseTurnSilently`) or that anybody may make
(`ReleaseTurnUnchecked`), an end of turn that forgets the questions
(`RejectPendingSparesQuestions`), and so on. They stand next to the definitions they
alter and are used by no specification.

## Proofs

The `*Proofs` modules are checked by tlapm. They assume only the named
assumptions of the modules (`TeamAssumption`, `BoundAssumption`,
`BoardAssumption`, `TurnConstants`, `CronConstants`, `RowConstants`,
`RemoteAssumption`, `PromptAssumption`): any set of agents, tasks, turns, jobs,
conversations or prompts, any bounds.

**Team.** `TeamInv` is the conjunction of

* `TypeOK`;
* `RosterInv`: a slot not in the roster has no loop position; a slot that
  never existed has no mail; founding slots have a loop as long as they are in
  the roster, and never an inline wake;
* `MailInv`: ids are below the counter and identify a row of a mailbox; no
  notification comes from the lead itself;
* `HandedInv`: a batch being sent or marked is recorded as handed over;
* `StatusInv`: where a loop stands when its agent is `Working` or `Error`;
* `CleanInv`: before the first fault a batch consists of unread rows, and a
  handed row that is still unread belongs to the turn that handed it over;
* `NoRedelivery`, `NoLostWake`, `LeadHearsBack`.

`NoRedelivery` alone is not inductive: without `CleanInv` a step could peek a
row that was handed over earlier and never marked; `CleanInv` in turn needs
`MailInv` (ids identify rows) and `RosterInv` (no inline wake of a founding
slot). Broadcasts that fail half way are in the theorems with any number of
recipients: whoever got a row without a notify is in `stalled`. `LeadHearsBack` needs `MailInv` to know that a notification has a
teammate as its author. From `TeamInvariant` follow
`WakesAreKept`, `LeadIsWoken`, `HandedOnce`, `WorkingEnds`, and the action
property `NothingLostUnread`. `TeamImplementsMailbox` is the refinement:
initial states map to `Mailbox!Init`, and each action to a `Write`, a
`Deliver`, a `MarkRead` or a stutter; that written ids are fresh and that
marked rows were handed over comes from `TeamInv`.

**Board.** `BoardInv` adds to the properties `CallsSound` (what a call has
checked stays true until it acts: ids are its own, dependencies exist, only
completed tasks release) and `SnapshotComplete` (the `blocks` column a
completing update read names every dependent that is not late or still being
linked). The latter is what makes `LinkedDependentsReleased` inductive: the
snapshot is taken two statements before it is used. From `BoardInvariant`
follow `LinksAgree`, `DependentsReleased`, `CreatesNoCycle` and, for the
action property, `ReleasedByCompletion`.

**Conversation turns.** `TurnInv` is `TypeOK`, `NeverStuck`, `RunningHasTurn`
and `CellInv`: a turn past the build has an instance whose cell is built, and
one cell has one builder. `NeverStuck` needs it because a status is only
reset or left by a turn that holds the instance. `RelaysAreServed` and
`RunningIsFreed` follow; the latter excepts, like the invariant, a completion
whose update failed.

**Cron.** `CronInv` is `TypeOK`, `TaskInv` (a task at a stage that works on a
job has loaded one, a task that runs has a conversation), `BusyHasRun` and
`RetryInv`: every row's limit is the default, because no update persists
`max_retries`, and a task about to store a retry found the count below that
limit. `RetriesBounded` alone is not inductive: the count compared is that of
the task's copy, the one written to is the row's. `MarksAreCleared` and
`RetriesAreBounded` follow.

`EnabledJobsAreScheduled` (`CronTimerProofs`) says that timers are not lost.
`EnabledIsScheduled` speaks of jobs that no task handles, so its strengthening
`TimerInv` says what the tasks in flight still owe:

* `Covered`: an enabled job with a next run that is not `unsure` has a timer,
  or a task that will set one or delete the job (`Carries`: a tick before its
  reschedule, a task whose copy asks for a timer, a removal, a cascade that
  found the job bound to its conversation, `init` before it reached the job);
* `CopyInv`: a task that will cancel the timer from the copy it holds agrees
  with the row, as it is or, before the task's own write, as it will be;
* `MetInv`: a job whose changes cross at this moment is in `unsure`;
* `SteadyInv`: a tick loaded an enabled job, a snapshot lists each enabled job
  once, and nothing refers to an id before `add_job` used it; `AddedInv`: nor
  does it have a timer.

`Covered` needs `CopyInv` where a timer is cancelled, and `CopyInv` survives a
write by another task only because `MetInv` excludes that the two cross. `Kept`
collects what a step of one task has to satisfy; `KeptSteps` shows once that
this is enough for all the others, and one lemma per action establishes it.

**Remote turns.** `WaitersAreWoken` uses `FreshInv` (only begun tasks wait, so
that a woken waiter is a task that will go on); `SlotMapIsTrue` uses `RegInv`
(whoever registers holds the mutex; while a candidate is tried the map still
tells the truth; a dial-back is verified against one's own registration).

`RemoteStreamProofs` adds the course of a turn. `WaitInv`: a parked task is
parked once. `OrderInv`: in every conversation the turns before the current one
have returned, or the current one is `late`; and the current one is subscribed,
preparing, queued, working or over, each with what may then be at the server and
on the stream: unless it is `exposed`, an event that can end its relay is its
own. From it
`FinishIsTheTurnsOwn` follows; neither the flags nor the stream alone says which
turn an event belongs to. `HeldInv` (from its claim to its end a turn that is
not excused holds the slot, and from its registration on the tools) and
`AliveInv` (no disposal without a failure) give `ToolsAreTheTurnsOwn`; here
`RegInv` and `MapIsTrue` say that a claim that trusts the map is right.

**Remote prompts.** All four invariants are proved. `Consent` rests on
`Consented`: whatever is on its way to allow a call, a buffered answer, a
`confirm` between its sections or a reply, is backed by an approval, by a
blessing that covers the call or by the history `mistaken`; and, in it,
`Remembered`: a kind is in `memory` only after an approval of that kind was
allowed. `AllowedOnlyIfApproved` says nothing about what is still under way.
`Attention` rests on `Held`: nothing is known about a prompt that was not asked
(`AskedFirst`); the server reports only what it resolved (`ReportsTrue`); a
buffered question and a waiting elicitation have their deadlines (`Stamped`);
a waiting permission that counts as replied has a reply under way
(`StampHonest`) that a blessing took along once (`DrainsOnce`); only what was
shown is answered (`SeenFirst`, which carries the exception for lost streams);
and somebody holds every waiting permission and question (`PermissionHeld`,
`QuestionHeld`). Without `StampHonest` the invariant is not inductive: a stamp
is what makes `confirm` return without a reply. `DeadCards` needs `Swept` (every
card has a deadline, was put back, is being cleaned up, or belongs to an approval
that still waits); `TypeCorrect` needs only the types.

Only model-checked: the liveness properties `Drains`, `RemovedStops`,
`KeepsTicking`, `PromptEnds` and both `TurnEnds` (liveness under fairness is
beyond TLAPS) and the violations. Every invariant and action property of a
passing run is also a theorem. TLC checked `TimerInv` on the instance of `cron`
before it was proved, and its main parts with three edits; `FinishIsOwn` was
explored beyond the run's bounds, with three turns of two conversations and two
troubles.

## Disagreements without a run

Met while modelling, true of the models as well, and not worth a run each:

* a mailbox row can be delivered twice after a failed mark or a crash, where
  `chisl-team/docs/internals.md:162` promises at most once
  (`event_loop.rs:267`); the abstract `Mailbox` therefore allows it;
* a lead that answers `shutdown_approved` is removed, where `internals.md:166`
  says it cannot be (`mcp/server.rs:492`);
* the notify at session start uses up the role prompt on an empty mailbox
  (`scheduler/mod.rs:108`, `session.rs:194`);
* a batch is marked read although sending it failed (`mailbox.rs:92`,
  `event_loop.rs:267`);
* a crash leaves the conversation row `running`, and nothing resets it: the
  guard of the team loop then refuses every wake (`event_loop.rs:208`), and the
  chat path refuses the row too (`chisl-conversation/src/service.rs:1505`);
* an openclaw, nanobot or remote agent is still `Running` when its
  `send_message` has returned, so that the loop's next round hits the guard
  (`event_loop.rs:204`), drops the wake and is not re-armed when the agent ends;
* a broadcast that fails at a later row leaves the earlier ones without a wake
  (`scheduler/actions.rs:132`, `mcp/server.rs:535`);
* removing the last unsettled teammate runs no cascade, so that the others'
  idle notifications wait for the lead's next wake (`session.rs:591`);
* `turn.completed` says `canSendMessage: true` although the update of the row
  failed; the next message is then refused (`stream_relay.rs:874-886`);
* `kill` while a factory runs leaves an instance outside the map, so two may
  live, where `task_manager.rs:26` says "at most one active task"; the kill of
  an aionrs agent does not end its engine;
* an update of `max_retries` is accepted and not stored
  (`chisl-cron/src/service.rs`, `build_update_params`);
* the reader's `session.error` branch ends the relay and leaves the turn flags
  as they are, so that a later `idle` can end the next turn
  (`manager/remote/agent.rs:2396`; the comment at 3772 says such a stray event
  is ignored);
* the reachability guardian re-registers only while it owns the slot, and the
  registration returns at once for an owner, so a changed route is never
  announced (`opencode_mcp.rs:668`, 552);
* a task created while its dependency completes, or after, stays blocked by it,
  where `chisl-team/docs/phase1/backend-audit.md:246` says a completed id is
  taken out of `blocked_by` (`task_board.rs:93`);
* a burst of busy and idle that is unread when the next message is sent arms
  and ends the new turn, because `send_message` has lifted the lockout by then
  (`agent.rs:5589`); the comments at 61-67 and 2316-2323 say that the lockout
  keeps such a burst out;
* a `permission.asked` or `question.asked` that is lost with the stream is never
  asked for again (`agent.rs:2089-2108`; `opencode_question.rs:15-16` calls the
  backfill not yet wired), and the tool call stays parked;
* a queued card whose text starts with a blessed path, the workspace included,
  is accepted by the next blessing of whatever directory or sub-agent, whatever
  its own target is (`agent.rs:6086`), while a permission asked later is matched
  by its target (2852-2863);
* an `always` to the card of a file operation that is no longer parked remembers
  a key that nobody looks up (`agent.rs:6007`);
* the response to a reply may arrive after its `permission.replied` was read and
  takes the stamp that event has set, and the requeue mark of a card restored
  meanwhile (`agent.rs:6224`);
* the start-up sweep disconnects stale registrations without the registration
  mutex (`opencode_mcp.rs:331-398`, called at 471) while `SLOT_OWNERS` may
  already name another conversation, so that inside that conversation's
  `start_and_register` the map may say something the server does not;
  `MapIsTrue` is stated for a server that was swept before;
* an elicitation answered with `cancel` is accepted: `confirm` has turned the
  value into `once` before it looks for `cancel` (`manager/remote/agent.rs:5869`;
  the comment at 5938 says the prompt "cleanly cancels");
* `confirm` keeps the deadline of the prompt it answers, so that the sweep
  later posts a rejection for it (`agent.rs:6334`);
* a `confirm` that is suppressed as a duplicate returns before the replies its
  blessing drained are posted; their cards are gone by then (`agent.rs:6145`).

## Not modelled

* Team: mirroring of mailbox rows into the chat history, renames and the
  session mode write no state the properties read; `StopAndEnsure` is
  considered only when no request, inline wake or attach task is in flight;
  the duplicate-finalize window, the wake watchdog and the crash handler of
  `scheduler/` are called by tests only; the unlocked rewrite of the roster
  column by `remove_agent` and `rename_agent`.
* Conversations: the content of the stream, message persistence, artifacts,
  and the operations that only read or rename.
* Cron: skills, artifacts, and the parsing and arithmetic of schedules.
* Remote agents: child sessions, kill, the replay of cards to a reconnected
  client, the pruning of the reply stamps by number, the guardian, the start-up
  sweep of stale registrations (with the consequence for `MapIsTrue` above), the
  server-tools mode, the V2 prompt path, the
  WebSocket protocol and the local file tools.
* Prompt text, payloads, MCP framing, authentication, and the components
  `PROJECT.json` lists as `not_modelled`: most of the repository's lines are
  HTTP routes over SQL, file formats, process supervision and tests, whose
  control is a single statement or lives in the operating system.

## Plan

1. `TeamRoster`: the unlocked read-modify-write of the roster column against
   the locked one, with an atomic roster as abstract specification.
2. Its theorems: the locked operations implement the atomic roster.
