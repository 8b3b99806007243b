-------------------------------- MODULE Cron --------------------------------
(***************************************************************************)
(* The cron engine of chisl-cron: CronService over the cron_jobs table,    *)
(* CronScheduler (one tokio timer per job), JobExecutor and CronBusyGuard. *)
(*                                                                         *)
(* Every operation is an async task.  A task is one of Slots; its pc names *)
(* the await it is parked at, so that whatever the code reads before an    *)
(* await (the job as CronService loaded it) is the task's `copy' and may   *)
(* be stale when the task continues.  A timer's callback spawns the tick   *)
(* (router/state.rs), so cancelling a timer never cancels a tick.          *)
(*                                                                         *)
(* Time is abstracted: a timer may fire at any moment, next_run_at is only *)
(* present or absent, and whether it has passed is a choice.  Schedules    *)
(* are "at" (one shot), "every" (any recurring schedule) and "never" (a    *)
(* cron expression with no next run, which is how the program stores a     *)
(* manual job).                                                            *)
(***************************************************************************)
EXTENDS Integers, FiniteSets

CONSTANTS Jobs,          \* job ids; an id is never reused
          Convs,         \* conversation ids; an id is never reused
          InitialConvs,  \* the conversations that exist at the start
          Slots,         \* async tasks that may be in flight together
          DefaultMax,    \* max_retries of a new job (3 in the code)
          Limits,        \* the max_retries an update may ask for
          NewModes,      \* the execution modes that jobs are created with
          MaxEdits,      \* bound: updates, resumes, run-nows and deletions
          MaxFaults,     \* bound: failing database calls and crashes
          NoConv, NoJob, NoRow, Fresh, Gone

ASSUME CronConstants ==
    /\ IsFiniteSet(Slots)
    /\ InitialConvs \subseteq Convs
    /\ DefaultMax \in Nat /\ Limits \subseteq Nat
    /\ MaxEdits \in Nat /\ MaxFaults \in Nat
    /\ NewModes \subseteq {"existing", "new"}
    /\ NoConv \notin Convs /\ NoJob \notin Jobs

VARIABLES rows,     \* cron_jobs: a job's row, Fresh before insert, Gone after
          timers,   \* CronScheduler.handles: the live timer of a job
          busy,     \* CronBusyGuard.states: conversations being dispatched to
          convs,    \* conversation rows: none, live or gone
          task,     \* the async tasks
          unsure,   \* history: jobs whose timer a fault or a race may have lost
          edits, faults

vars == <<rows, timers, busy, convs, task, unsure, edits, faults>>

Kinds == {"at", "every", "never"}
Modes == {"existing", "new"}

Job == [enabled: BOOLEAN, kind: Kinds, next: BOOLEAN, mode: Modes,
        conv: Convs \cup {NoConv}, retry: Nat, max: Nat]

\* The marks for rows that do not exist are not jobs.
ASSUME RowConstants == Fresh \notin Job /\ Gone \notin Job /\ Fresh # Gone

Pcs == {"idle", "tick", "prepare", "spawned", "run", "ok", "err", "saveok",
        "saveerr", "retry", "retrytimer", "skip", "resched", "retimer",
        "write", "timer", "delete", "cascade", "cdel", "list", "loop",
        "missed", "advance", "missedtimer"}
Ops == {"none", "tick", "now", "add", "update", "remove", "cascade", "resume", "init"}
Fields == {"name", "enabled", "kind", "mode", "max"}

Task == [pc: Pcs, op: Ops, job: Jobs \cup {NoJob}, copy: Job \cup {NoRow},
         conv: Convs \cup {NoConv}, field: Fields, batch: SUBSET (Jobs \X Job)]

Idle == [pc |-> "idle", op |-> "none", job |-> NoJob, copy |-> NoRow,
         conv |-> NoConv, field |-> "name", batch |-> {}]

Exists(j) == rows[j] \notin {Fresh, Gone}

Init ==
    /\ rows = [j \in Jobs |-> Fresh]
    /\ timers = [j \in Jobs |-> "none"]
    /\ busy = {}
    /\ convs = [c \in Convs |-> IF c \in InitialConvs THEN "live" ELSE "none"]
    /\ task = [s \in Slots |-> Idle]
    /\ unsure = {}
    /\ edits = 0 /\ faults = 0

-----------------------------------------------------------------------------
(* CronScheduler.                                                          *)

\* compute_next_run: whether the schedule has a next run.
NextRun(kind) == kind # "never"

\* schedule_job: the job's timer is cancelled; an enabled job with a next run
\* gets a new one, repeating while the schedule has another run.
TimerOf(job) ==
    IF job.enabled /\ job.next
    THEN IF job.kind = "every" THEN "every" ELSE "at"
    ELSE "none"

ScheduleJob(j, job) == timers' = [timers EXCEPT ![j] = TimerOf(job)]

CancelJob(j) == timers' = [timers EXCEPT ![j] = "none"]

-----------------------------------------------------------------------------
(* Tasks.                                                                  *)

\* The HTTP server starts after init has returned.
Serving == \A s \in Slots : task[s].op # "init"

\* A database call that may fail: FALSE is a failing one, counted in faults.
DbOutcomes == IF faults < MaxFaults THEN BOOLEAN ELSE {TRUE}
CountFault(ok) == faults' = faults + (IF ok THEN 0 ELSE 1)

Goto(s, pc) == task' = [task EXCEPT ![s].pc = pc]
Finish(s)   == task' = [task EXCEPT ![s] = Idle]

Start(s, t) == task[s] = Idle /\ task' = [task EXCEPT ![s] = t]

\* An operation that only a client starts, counted in edits.
ClientStep == Serving /\ edits < MaxEdits /\ edits' = edits + 1

\* repo.update: the fields given overwrite the row's; a missing row is an
\* error, which every caller but update_job and reschedule_after_missed logs
\* and passes over.
UpdateRow(j, ok, new) ==
    rows' = IF ok /\ Exists(j) THEN [rows EXCEPT ![j] = new] ELSE rows

\* Task s is between its change of j's row and the change of j's timer that
\* follows it.
MidChange(s, j) ==
    task[s].job = j /\ task[s].pc \in {"write", "timer", "retimer", "missedtimer"}

\* Task s will cancel j's timer because of the copy of j it holds.
WillCancel(s, j) ==
    \/ MidChange(s, j) /\ TimerOf(task[s].copy) = "none"
    \/ \E e \in task[s].batch : e[1] = j /\ TimerOf(e[2]) = "none"

\* Two changes of j overlap and one of them cancels j's timer.
Crossing(j) ==
    \E s, t \in Slots : s # t /\ MidChange(s, j) /\ WillCancel(t, j)

\* A cascade has cancelled the timers of the jobs bound to its conversation, and
\* a run that found j unbound is about to bind it to another one: the cascade
\* will not delete j.
Rebinding(j) ==
    \E s, t \in Slots :
        /\ task[s].pc = "cdel" /\ Exists(j) /\ rows[j].conv = task[s].conv
        /\ task[t].pc = "saveok" /\ task[t].job = j /\ task[t].conv # NoConv

\* History: after a failed database call, or after such a meeting, a timer may
\* be lost until the next start.
Track == unsure' = IF faults' # faults THEN Jobs
                   ELSE unsure \cup {j \in Jobs : Crossing(j)' \/ Rebinding(j)'}

-----------------------------------------------------------------------------
(* CRUD.                                                                   *)

\* add_job: the row is inserted, and visible to other requests, before the
\* conversation is told and the timer is set (UpdateTimer).
AddJob(s, j, kind, mode, c) ==
    LET job == [enabled |-> TRUE, kind |-> kind, next |-> NextRun(kind),
                mode |-> mode, conv |-> c, retry |-> 0, max |-> DefaultMax]
    IN /\ Serving
       /\ rows[j] = Fresh
       /\ c # NoConv => convs[c] # "none"
       /\ rows' = [rows EXCEPT ![j] = job]
       /\ Start(s, [Idle EXCEPT !.op = "add", !.pc = "timer", !.job = j, !.copy = job])
       /\ UNCHANGED <<timers, busy, convs, edits, faults>>
       /\ Track

\* The jobs update_job may make of the one it read when the request names
\* `field' ("name" stands for the fields not modelled here): next_run_at is
\* computed again when the schedule or enabled is given.
Edited(job, field) ==
    CASE field = "name"    -> {job}
      [] field = "enabled" -> {[job EXCEPT !.enabled = b, !.next = NextRun(job.kind)] : b \in BOOLEAN}
      [] field = "kind"    -> {[job EXCEPT !.kind = k, !.next = NextRun(k)] : k \in Kinds}
      [] field = "mode"    -> {[job EXCEPT !.mode = m] : m \in Modes}
      [] field = "max"     -> {[job EXCEPT !.max = n] : n \in Limits}

\* build_update_params and repo.update: the row after the columns that the
\* request names are overwritten.  max_retries is not one of the columns.
Saved(row, job, field) ==
    CASE field = "enabled" -> [row EXCEPT !.enabled = job.enabled, !.next = job.next]
      [] field = "kind"    -> [row EXCEPT !.kind = job.kind, !.next = job.next]
      [] field = "mode"    -> [row EXCEPT !.mode = job.mode]
      [] OTHER             -> row

\* update_job up to its write: the row is read, the request applied to it.
UpdateJob(s, j, field) ==
    /\ ClientStep
    /\ Exists(j)
    /\ \E job \in Edited(rows[j], field) :
         Start(s, [Idle EXCEPT !.op = "update", !.pc = "write", !.job = j,
                               !.copy = job, !.field = field])
    /\ UNCHANGED <<rows, timers, busy, convs, faults>>
    /\ Track

\* update_job's write; an error, a row removed meanwhile too, ends the update.
UpdateWrite(s) ==
    LET j == task[s].job
    IN /\ task[s].pc = "write"
       /\ \E ok \in DbOutcomes :
            /\ CountFault(ok)
            /\ UpdateRow(j, ok, Saved(rows[j], task[s].copy, task[s].field))
            /\ IF ok /\ Exists(j) THEN Goto(s, "timer") ELSE Finish(s)
       /\ UNCHANGED <<timers, busy, convs, edits>>
       /\ Track

\* The end of add_job and update_job: the timer follows the job as this request
\* made it.
UpdateTimer(s) ==
    /\ task[s].pc = "timer"
    /\ ScheduleJob(task[s].job, task[s].copy)
    /\ Finish(s)
    /\ UNCHANGED <<rows, busy, convs, edits, faults>>
    /\ Track

\* remove_job cancels the timer, then deletes the row.
RemoveJob(s, j) ==
    /\ ClientStep
    /\ rows[j] # Fresh
    /\ CancelJob(j)
    /\ Start(s, [Idle EXCEPT !.op = "remove", !.pc = "delete", !.job = j])
    /\ UNCHANGED <<rows, busy, convs, faults>>
    /\ Track

RemoveDelete(s) ==
    LET j == task[s].job
    IN /\ task[s].pc = "delete"
       /\ \E ok \in DbOutcomes :
            /\ CountFault(ok)
            /\ UpdateRow(j, ok, Gone)
       /\ Finish(s)
       /\ UNCHANGED <<timers, busy, convs, edits>>
       /\ Track

\* ConversationService::delete removes the conversation and then calls the
\* delete hook, delete_jobs_by_conversation.
DeleteConversation(s, c) ==
    /\ ClientStep
    /\ convs[c] = "live"
    /\ convs' = [convs EXCEPT ![c] = "gone"]
    /\ Start(s, [Idle EXCEPT !.op = "cascade", !.pc = "cascade", !.conv = c])
    /\ UNCHANGED <<rows, timers, busy, faults>>
    /\ Track

BoundTo(c) == {j \in Jobs : Exists(j) /\ rows[j].conv = c}

\* The jobs found bound to the conversation lose their timers.
CascadeCancel(s) ==
    /\ task[s].pc = "cascade"
    /\ \E ok \in DbOutcomes :
         /\ CountFault(ok)
         /\ IF ok
            THEN /\ timers' = [j \in Jobs |-> IF j \in BoundTo(task[s].conv)
                                              THEN "none" ELSE timers[j]]
                 /\ Goto(s, "cdel")
            ELSE Finish(s) /\ UNCHANGED timers
    /\ UNCHANGED <<rows, busy, convs, edits>>
    /\ Track

\* delete_by_conversation deletes what is bound to the conversation by then.
CascadeDelete(s) ==
    /\ task[s].pc = "cdel"
    /\ \E ok \in DbOutcomes :
         /\ CountFault(ok)
         /\ rows' = [j \in Jobs |-> IF ok /\ j \in BoundTo(task[s].conv)
                                    THEN Gone ELSE rows[j]]
    /\ Finish(s)
    /\ UNCHANGED <<timers, busy, convs, edits>>
    /\ Track

-----------------------------------------------------------------------------
(* Ticks and executions.                                                   *)

\* A timer fires: its callback spawns the tick.  A one-shot timer is spent.
Fire(s, j) ==
    /\ timers[j] # "none"
    /\ Start(s, [Idle EXCEPT !.op = "tick", !.pc = "tick", !.job = j])
    /\ timers' = [timers EXCEPT ![j] = IF @ = "at" THEN "none" ELSE @]
    /\ UNCHANGED <<rows, busy, convs, edits, faults>>
    /\ Track

\* Mutant: one attempt too many.
HandleBusyLate(job) == IF job.retry > job.max THEN "skip" ELSE "retry"

\* handle_busy: a retry while the job has attempts left, then a skip.
HandleBusy(job) == IF job.retry >= job.max THEN "skip" ELSE "retry"

\* Mutant: a tick that finds no row leaves the timer running.
TickNoCancel(s) ==
    LET j == task[s].job
    IN /\ task[s].pc = "tick"
       /\ \E ok \in DbOutcomes :
            /\ CountFault(ok)
            /\ IF ok /\ Exists(j) /\ rows[j].enabled
               THEN task' = [task EXCEPT
                      ![s].copy = rows[j],
                      ![s].pc = IF rows[j].conv \in busy THEN HandleBusy(rows[j])
                                                         ELSE "prepare"]
               ELSE Finish(s)
       /\ UNCHANGED <<rows, timers, busy, convs, edits>>
       /\ Track

\* tick loads the job: a missing one loses its timer, a disabled one is left
\* alone, a busy conversation is not entered (execute's first test).
Tick(s) ==
    LET j == task[s].job
    IN /\ task[s].pc = "tick"
       /\ \E ok \in DbOutcomes :
            /\ CountFault(ok)
            /\ IF ok /\ ~Exists(j) THEN CancelJob(j) ELSE UNCHANGED timers
            /\ IF ok /\ Exists(j) /\ rows[j].enabled
               THEN task' = [task EXCEPT
                      ![s].copy = rows[j],
                      ![s].pc = IF rows[j].conv \in busy THEN HandleBusy(rows[j])
                                                         ELSE "prepare"]
               ELSE Finish(s)
       /\ UNCHANGED <<rows, busy, convs, edits>>
       /\ Track

\* run_now loads the job and prepares it without asking whether it is enabled
\* or whether its conversation is busy.
RunNow(s, j) ==
    /\ ClientStep
    /\ Exists(j)
    /\ Start(s, [Idle EXCEPT !.op = "now", !.pc = "prepare", !.job = j, !.copy = rows[j]])
    /\ UNCHANGED <<rows, timers, busy, convs, faults>>
    /\ Track

\* resolve_conversation: the bound conversation of an "existing" job, or else
\* a new one.  The conversations it may return, none when it can only fail.
Targets(job) ==
    IF job.mode = "existing" /\ job.conv # NoConv
    THEN {c \in {job.conv} : convs[c] = "live"}
    ELSE {c \in Convs : convs[c] = "none"}

\* prepare_saved_skill and resolve_conversation succeed.  A tick marks the
\* conversation at once; run_now spawns the execution first.
Prepare(s) ==
    /\ task[s].pc = "prepare"
    /\ \E c \in Targets(task[s].copy) :
         /\ convs' = [convs EXCEPT ![c] = "live"]
         /\ IF task[s].op = "tick"
            THEN /\ busy' = busy \cup {c}
                 /\ task' = [task EXCEPT ![s].pc = "run", ![s].conv = c]
            ELSE /\ UNCHANGED busy
                 /\ task' = [task EXCEPT ![s].pc = "spawned", ![s].conv = c]
    /\ UNCHANGED <<rows, timers, edits, faults>>
    /\ Track

\* Either of them fails, for whatever reason.
PrepareFails(s) ==
    /\ task[s].pc = "prepare"
    /\ IF task[s].op = "tick" THEN Goto(s, "err") ELSE Finish(s)
    /\ UNCHANGED <<rows, timers, busy, convs, edits, faults>>
    /\ Track

\* execute_prepared marks the conversation run_now resolved.
ExecutePrepared(s) ==
    /\ task[s].pc = "spawned"
    /\ busy' = busy \cup {task[s].conv}
    /\ Goto(s, "run")
    /\ UNCHANGED <<rows, timers, convs, edits, faults>>
    /\ Track

\* Mutant: an execution that fails returns before the mark is cleared.
ExecuteInnerLeaks(s) ==
    /\ task[s].pc = "run"
    /\ \/ convs[task[s].conv] = "live" /\ Goto(s, "ok") /\ busy' = busy \ {task[s].conv}
       \/ Goto(s, "err") /\ UNCHANGED busy
    /\ UNCHANGED <<rows, timers, convs, edits, faults>>
    /\ Track

\* execute_inner returns and the mark is cleared.  Dispatching the message
\* may fail at any time and cannot succeed once the conversation is deleted.
ExecuteInner(s) ==
    /\ task[s].pc = "run"
    /\ busy' = busy \ {task[s].conv}
    /\ \/ convs[task[s].conv] = "live" /\ Goto(s, "ok")
       \/ Goto(s, "err")
    /\ UNCHANGED <<rows, timers, convs, edits, faults>>
    /\ Track

\* What follows the bookkeeping of a run: only a tick reschedules.
AfterRun(s) ==
    IF task[s].op = "tick" THEN Goto(s, "resched") ELSE Finish(s)

\* update_job_after_success / _error read the row.  The conversation is kept
\* for the write only when the run succeeded and the row has none.
ReadResult(s) ==
    LET j == task[s].job
    IN /\ task[s].pc \in {"ok", "err"}
       /\ \E ok \in DbOutcomes :
            /\ CountFault(ok)
            /\ IF ok /\ Exists(j)
               THEN task' = [task EXCEPT
                      ![s].pc = IF @ = "ok" THEN "saveok" ELSE "saveerr",
                      ![s].conv = IF task[s].pc = "ok" /\ rows[j].conv = NoConv
                                  THEN @ ELSE NoConv]
               ELSE AfterRun(s)
       /\ UNCHANGED <<rows, timers, busy, convs, edits>>
       /\ Track

\* ... and write it: retry_count is reset, a first conversation is bound.
SaveResult(s) ==
    LET j == task[s].job
        c == task[s].conv
    IN /\ task[s].pc \in {"saveok", "saveerr"}
       /\ \E ok \in DbOutcomes :
            /\ CountFault(ok)
            /\ UpdateRow(j, ok, [rows[j] EXCEPT !.retry = 0,
                                                !.conv = IF c = NoConv THEN @ ELSE c])
       /\ AfterRun(s)
       /\ UNCHANGED <<timers, busy, convs, edits>>
       /\ Track

\* Mutant: the attempts are counted down.
SaveRetryDown(s) ==
    LET j == task[s].job
    IN /\ task[s].pc = "retry"
       /\ \E ok \in DbOutcomes :
            /\ CountFault(ok)
            /\ UpdateRow(j, ok, [rows[j] EXCEPT !.retry = task[s].copy.retry - 1])
       /\ Goto(s, "retrytimer")
       /\ UNCHANGED <<timers, busy, convs, edits>>
       /\ Track

\* Retrying: the attempt is stored ...
SaveRetry(s) ==
    LET j == task[s].job
    IN /\ task[s].pc = "retry"
       /\ \E ok \in DbOutcomes :
            /\ CountFault(ok)
            /\ UpdateRow(j, ok, [rows[j] EXCEPT !.retry = task[s].copy.retry + 1])
       /\ Goto(s, "retrytimer")
       /\ UNCHANGED <<timers, busy, convs, edits>>
       /\ Track

\* Mutant: the retry job has no next run, so the timer is only cancelled.
ScheduleRetryLost(s) ==
    /\ task[s].pc = "retrytimer"
    /\ CancelJob(task[s].job)
    /\ Finish(s)
    /\ UNCHANGED <<rows, busy, convs, edits, faults>>
    /\ Track

\* ... and schedule_retry replaces the job's timer by a one-shot one.
ScheduleRetry(s) ==
    /\ task[s].pc = "retrytimer"
    /\ timers' = [timers EXCEPT ![task[s].job] = "at"]
    /\ Finish(s)
    /\ UNCHANGED <<rows, busy, convs, edits, faults>>
    /\ Track

\* Mutant: a skipped run is not rescheduled, and its retry timer is spent.
SaveSkippedDone(s) ==
    LET j == task[s].job
    IN /\ task[s].pc = "skip"
       /\ \E ok \in DbOutcomes :
            /\ CountFault(ok)
            /\ UpdateRow(j, ok, [rows[j] EXCEPT !.retry = 0])
       /\ Finish(s)
       /\ UNCHANGED <<timers, busy, convs, edits>>
       /\ Track

\* Skipped: the attempts are given up.
SaveSkipped(s) ==
    LET j == task[s].job
    IN /\ task[s].pc = "skip"
       /\ \E ok \in DbOutcomes :
            /\ CountFault(ok)
            /\ UpdateRow(j, ok, [rows[j] EXCEPT !.retry = 0])
       /\ Goto(s, "resched")
       /\ UNCHANGED <<timers, busy, convs, edits>>
       /\ Track

\* The job after a run or a missed run: a one-shot job is disabled, another
\* one gets its next run.
Advanced(job) ==
    IF job.kind = "at" THEN [job EXCEPT !.enabled = FALSE, !.next = FALSE]
                       ELSE [job EXCEPT !.next = NextRun(job.kind)]

\* The columns of the row that this changes.
AdvancedRow(row, job) ==
    IF job.kind = "at" THEN [row EXCEPT !.enabled = FALSE, !.next = FALSE]
                       ELSE [row EXCEPT !.next = NextRun(job.kind)]

\* reschedule_after_execution writes the row from the job the tick loaded ...
Reschedule(s) ==
    LET j == task[s].job
        job == task[s].copy
    IN /\ task[s].pc = "resched"
       /\ \E ok \in DbOutcomes :
            /\ CountFault(ok)
            /\ UpdateRow(j, ok, AdvancedRow(rows[j], job))
       /\ task' = [task EXCEPT ![s].pc = "retimer", ![s].copy = Advanced(job)]
       /\ UNCHANGED <<timers, busy, convs, edits>>
       /\ Track

\* ... and then sets or cancels the timer from it.
RescheduleTimer(s) ==
    /\ task[s].pc = "retimer"
    /\ ScheduleJob(task[s].job, task[s].copy)
    /\ Finish(s)
    /\ UNCHANGED <<rows, busy, convs, edits, faults>>
    /\ Track

-----------------------------------------------------------------------------
(* Start-up and system resume.                                             *)

SystemResume(s) ==
    /\ ClientStep
    /\ Start(s, [Idle EXCEPT !.op = "resume", !.pc = "list"])
    /\ UNCHANGED <<rows, timers, busy, convs, faults>>
    /\ Track

\* The process dies and is started again: the rows survive, init begins.
Restart(s) ==
    /\ faults < MaxFaults
    /\ faults' = faults + 1
    /\ timers' = [j \in Jobs |-> "none"]
    /\ busy' = {}
    /\ task' = [t \in Slots |-> IF t = s THEN [Idle EXCEPT !.op = "init", !.pc = "list"]
                                         ELSE Idle]
    /\ unsure' = {}
    /\ UNCHANGED <<rows, convs, edits>>

\* init and handle_system_resume take a snapshot of the enabled jobs.
ListEnabled(s) ==
    /\ task[s].pc = "list"
    /\ \E ok \in DbOutcomes :
         /\ CountFault(ok)
         /\ IF ok
            THEN task' = [task EXCEPT
                   ![s].pc = "loop",
                   ![s].batch = {<<j, rows[j]>> : j \in {i \in Jobs : Exists(i) /\ rows[i].enabled}}]
            ELSE Finish(s)
    /\ UNCHANGED <<rows, timers, busy, convs, edits>>
    /\ Track

\* is_orphan: bound to a conversation that has been deleted.
IsOrphan(job) ==
    /\ job.mode = "existing"
    /\ job.conv # NoConv
    /\ job.conv \notin busy
    /\ convs[job.conv] # "live"

\* init handles one job of its snapshot; a conversation that cannot be looked up
\* does not make an orphan.  Nothing deletes a conversation or
\* knows the job before init has handled it, so the two awaits are one step.
InitJob(s) ==
    /\ task[s].pc = "loop" /\ task[s].op = "init"
    /\ \E e \in task[s].batch :
         /\ task' = [task EXCEPT ![s].batch = @ \ {e}]
         /\ \/ /\ IsOrphan(e[2])
               /\ \E ok \in DbOutcomes : CountFault(ok) /\ UpdateRow(e[1], ok, Gone)
               /\ UNCHANGED timers
            \/ /\ \E ok \in DbOutcomes : CountFault(ok) /\ (ok => ~IsOrphan(e[2]))
               /\ ScheduleJob(e[1], e[2])
               /\ UNCHANGED rows
    /\ UNCHANGED <<busy, convs, edits>>
    /\ Track

\* handle_system_resume handles one job: not due, its timer is set again ...
ResumeJob(s) ==
    /\ task[s].pc = "loop" /\ task[s].op = "resume"
    /\ \E e \in task[s].batch :
         /\ ScheduleJob(e[1], e[2])
         /\ task' = [task EXCEPT ![s].batch = @ \ {e}]
    /\ UNCHANGED <<rows, busy, convs, edits, faults>>
    /\ Track

\* ... or its next run has passed and it is marked missed.
ResumeMissed(s) ==
    /\ task[s].pc = "loop" /\ task[s].op = "resume"
    /\ \E e \in task[s].batch :
         /\ e[2].next
         /\ task' = [task EXCEPT ![s].batch = @ \ {e}, ![s].pc = "missed",
                                 ![s].job = e[1], ![s].copy = e[2]]
    /\ UNCHANGED <<rows, timers, busy, convs, edits, faults>>
    /\ Track

\* record_missed_execution.
RecordMissed(s) ==
    LET j == task[s].job
    IN /\ task[s].pc = "missed"
       /\ \E ok \in DbOutcomes :
            /\ CountFault(ok)
            /\ UpdateRow(j, ok, [rows[j] EXCEPT !.retry = 0])
       /\ Goto(s, "advance")
       /\ UNCHANGED <<timers, busy, convs, edits>>
       /\ Track

BackToLoop(s, t) ==
    task' = [t EXCEPT ![s].pc = "loop", ![s].job = NoJob, ![s].copy = NoRow]

\* reschedule_after_missed writes the row; unless the job is one-shot, an
\* error leaves the timer alone ...
AdvanceMissed(s) ==
    LET j == task[s].job
        job == task[s].copy
    IN /\ task[s].pc = "advance"
       /\ \E ok \in DbOutcomes :
            /\ CountFault(ok)
            /\ UpdateRow(j, ok, AdvancedRow(rows[j], job))
            /\ IF (ok /\ Exists(j)) \/ job.kind = "at"
               THEN task' = [task EXCEPT ![s].pc = "missedtimer",
                                         ![s].copy = Advanced(job)]
               ELSE BackToLoop(s, task)
       /\ UNCHANGED <<timers, busy, convs, edits>>
       /\ Track

\* ... and sets or cancels it otherwise.
MissedTimer(s) ==
    /\ task[s].pc = "missedtimer"
    /\ ScheduleJob(task[s].job, task[s].copy)
    /\ BackToLoop(s, task)
    /\ UNCHANGED <<rows, busy, convs, edits, faults>>
    /\ Track

\* The snapshot has been handled.
LoopEnd(s) ==
    /\ task[s].pc = "loop" /\ task[s].batch = {}
    /\ Finish(s)
    /\ UNCHANGED <<rows, timers, busy, convs, edits, faults>>
    /\ Track

-----------------------------------------------------------------------------
\* One await of the task in slot s completes.
Step(s) ==
    \/ UpdateWrite(s) \/ UpdateTimer(s) \/ RemoveDelete(s)
    \/ CascadeCancel(s) \/ CascadeDelete(s)
    \/ Tick(s) \/ Prepare(s) \/ PrepareFails(s) \/ ExecutePrepared(s) \/ ExecuteInner(s)
    \/ ReadResult(s) \/ SaveResult(s) \/ SaveRetry(s) \/ ScheduleRetry(s) \/ SaveSkipped(s)
    \/ Reschedule(s) \/ RescheduleTimer(s)
    \/ ListEnabled(s) \/ InitJob(s) \/ ResumeJob(s) \/ ResumeMissed(s)
    \/ RecordMissed(s) \/ AdvanceMissed(s) \/ MissedTimer(s) \/ LoopEnd(s)

\* What a client asks for.
Request(s) ==
    \/ \E j \in Jobs : \/ RunNow(s, j) \/ RemoveJob(s, j)
                       \/ \E f \in Fields : UpdateJob(s, j, f)
    \/ \E c \in Convs : DeleteConversation(s, c)
    \/ SystemResume(s)

Next ==
    \/ \E s \in Slots : \/ \E j \in Jobs, k \in Kinds, m \in NewModes, c \in Convs \cup {NoConv} :
                              AddJob(s, j, k, m, c)
                        \/ Request(s) \/ Step(s) \/ Restart(s)
                        \/ \E j \in Jobs : Fire(s, j)

Spec == Init /\ [][Next]_vars

\* tokio runs every ready task, the clock reaches every timer's instant, and
\* the number of tasks is not bounded in the program: a timer that is set
\* again and again finds a slot.
Fairness ==
    /\ \A s \in Slots : WF_vars(Step(s))
    /\ \A j \in Jobs : SF_vars(\E s \in Slots : Fire(s, j))

FairSpec == Spec /\ Fairness

-----------------------------------------------------------------------------
(* Properties.                                                             *)

\* Types of the rows, timers, marks and tasks.
TypeOK ==
    /\ rows \in [Jobs -> Job \cup {Fresh, Gone}]
    /\ timers \in [Jobs -> {"none", "at", "every"}]
    /\ busy \subseteq Convs
    /\ convs \in [Convs -> {"none", "live", "gone"}]
    /\ task \in [Slots -> Task]
    /\ unsure \subseteq Jobs
    /\ edits \in Nat /\ faults \in Nat

\* A row's retry count never exceeds its limit, whatever ticks, updates and
\* system resumes overlap (executor.rs handle_busy).
RetriesBounded == \A j \in Jobs : Exists(j) => rows[j].retry <= rows[j].max

\* CronBusyGuard: a conversation is marked only while an execution that will
\* clear the mark is under way; a mark that outlived it would turn every later
\* tick of its jobs into retries and skips.
BusyHasRun ==
    \A c \in busy : \E s \in Slots : task[s].pc = "run" /\ task[s].conv = c

\* Nothing in flight concerns j.
Quiet(j) ==
    \A s \in Slots :
        /\ task[s].job # j
        /\ task[s].op # "init"
        /\ \A e \in task[s].batch : e[1] # j
        /\ task[s].op = "cascade" => j \notin BoundTo(task[s].conv)

\* An enabled job with a next run that no operation is handling has a timer:
\* runs, run-nows, retries, skips, resumes, renames and restarts may overlap as
\* they like.  The exceptions are the ones `unsure' records: a database call
\* failed, two changes of the job overlapped and one cancels the timer from a
\* copy of the job that is stale by then (service.rs update_job,
\* reschedule_after_execution, handle_system_resume), or a job bound by two
\* overlapping first runs escaped the deletion of one of their conversations.
EnabledIsScheduled ==
    \A j \in Jobs :
        (/\ j \notin unsure /\ Quiet(j)
         /\ Exists(j) /\ rows[j].enabled /\ rows[j].kind # "never" /\ rows[j].next)
        => timers[j] # "none"

\* A removed job's timer does not outlive it for ever: a run or an update that
\* started before the removal may set it again, and then the tick that finds no
\* row cancels it.
RemovedStops == \A j \in Jobs : (rows[j] = Gone) ~> (timers[j] = "none")

\* A recurring job that stays enabled is ticked again and again, through busy
\* conversations, retries, skips and failed runs.
KeepsTicking ==
    \A j \in Jobs :
        []<>(\/ ~Exists(j) \/ j \in unsure
             \/ ~(rows[j].enabled /\ rows[j].kind = "every" /\ rows[j].next)
             \/ \E s \in Slots : task[s].pc = "tick" /\ task[s].job = j)

\* A job that starts a new conversation on every run does not depend on any
\* conversation: deleting one does not delete the job.
CascadeSparesNew ==
    \A s \in Slots : task[s].pc = "cdel"
        => \A j \in BoundTo(task[s].conv) : rows[j].mode = "existing"
=============================================================================
