-------------------------- MODULE CronTimerProofs --------------------------
(***************************************************************************)
(* The timers of the cron engine: an enabled job with a next run has a     *)
(* timer or a task that will set one, for any number of jobs, overlapping  *)
(* tasks, edits and faults.                                                *)
(***************************************************************************)
EXTENDS CronProofs

-----------------------------------------------------------------------------
(* Copies and rows                                                          *)

\* A row or a copy that asks for a timer.
Due(r) == r.enabled /\ r.next

\* The stages of a tick, from the spent timer to the write that reschedules.
Ticking == {"tick", "prepare", "run", "ok", "err", "saveok", "saveerr", "retry",
            "retrytimer", "skip", "resched"}

\* The stages that only a tick has.
TickOnly == {"tick", "skip", "retry", "retrytimer", "resched", "retimer"}

\* The stages of handling one job of a snapshot.
Missing == {"missed", "advance", "missedtimer"}

\* The task in slot s will set j's timer, or will delete the job.
Carries(s, j) ==
    \/ task[s].job = j /\ task[s].op = "tick" /\ task[s].pc \in Ticking
    \/ /\ task[s].job = j /\ task[s].pc \in {"timer", "retimer", "missedtimer"}
       /\ TimerOf(task[s].copy) # "none"
    \/ task[s].job = j /\ task[s].pc = "delete"
    \/ task[s].pc = "cdel" /\ rows[j].conv = task[s].conv
    \/ task[s].op = "init" /\ (task[s].pc = "list" \/ \E e \in task[s].batch : e[1] = j)

Covered ==
    \A j \in Jobs \ unsure :
        Exists(j) /\ Due(rows[j]) => timers[j] # "none" \/ \E s \in Slots : Carries(s, j)

\* The row once the task in slot s has written it.
Leaves(s, r) == IF task[s].pc = "write" THEN Saved(r, task[s].copy, task[s].field) ELSE r

\* A copy that will cancel j's timer agrees with the row.
Agrees(s, j) ==
    /\ MidChange(s, j) /\ TimerOf(task[s].copy) = "none" => ~Due(Leaves(s, rows[j]))
    /\ \A e \in task[s].batch : e[1] = j /\ TimerOf(e[2]) = "none" => ~Due(rows[j])

CopyInv == \A s \in Slots : \A j \in Jobs \ unsure : Exists(j) => Agrees(s, j)

\* What a task holds at its stages: a tick loaded an enabled job, a snapshot
\* lists each enabled job once.
Steady(s) ==
    /\ task[s].op = "tick" => task[s].pc \in Ticking \cup {"retimer"}
    /\ task[s].pc \in TickOnly => task[s].op = "tick"
    /\ task[s].op = "tick" /\ task[s].pc \notin {"tick", "retimer"} => task[s].copy.enabled
    /\ task[s].pc \in {"missed", "advance"} => task[s].copy.enabled
    /\ \A e \in task[s].batch : e[2].enabled
    /\ \A e, f \in task[s].batch : e[1] = f[1] => e = f
    /\ task[s].pc \in Missing => \A e \in task[s].batch : e[1] # task[s].job
    /\ task[s].batch # {} => task[s].pc \in Missing \cup {"loop"}
    /\ task[s].pc = "saveerr" => task[s].conv = NoConv
    /\ task[s].pc \in {"cascade", "cdel"} => task[s].op = "cascade"

\* No task knows a job before it was added.
Known(s) ==
    \A j \in Jobs : rows[j] = Fresh =>
        task[s].job # j /\ \A e \in task[s].batch : e[1] # j

SteadyInv == \A s \in Slots : Steady(s) /\ Known(s)

\* No timer runs for a job before it was added.
AddedInv == \A j \in Jobs : rows[j] = Fresh => timers[j] = "none"

\* The history holds every job whose changes cross.
MetInv == \A j \in Jobs : Crossing(j) \/ Rebinding(j) => j \in unsure

\* schedule_job sets a timer exactly for what asks for one.
LEMMA TimerDue == \A x : (TimerOf(x) = "none") <=> ~Due(x)
BY DEF TimerOf, Due

\* What a request saves asks for a timer when its copy does.
LEMMA EditDue ==
    ASSUME NEW x \in Job, NEW f \in Fields, NEW y \in Edited(x, f)
    PROVE  Due(Saved(x, y, f)) <=> Due(y)
<1>1. x.enabled \in BOOLEAN /\ x.next \in BOOLEAN /\ y \in Job
  BY EditedJobs, JobFields
<1>2. CASE f = "name"
  BY <1>2 DEF Edited, Saved
<1>3. CASE f = "enabled"
  BY <1>1, <1>3 DEF Edited, Saved, Due, Job
<1>4. CASE f = "kind"
  BY <1>1, <1>4 DEF Edited, Saved, Due, Job
<1>5. CASE f = "mode"
  BY <1>1, <1>5 DEF Edited, Saved, Due, Job
<1>6. CASE f = "max"
  BY <1>1, <1>6 DEF Edited, Saved, Due, Job
<1>. QED BY <1>2, <1>3, <1>4, <1>5, <1>6 DEF Fields

\* What an update leaves depends on the row's enabled and next_run_at alone.
LEMMA SavedDue ==
    ASSUME NEW x \in Job, NEW z \in Job, NEW y \in Job, NEW f \in Fields,
           z.enabled = x.enabled, z.next = x.next
    PROVE  Due(Saved(z, y, f)) <=> Due(Saved(x, y, f))
BY DEF Saved, Due, Job, Fields

\* A run of an enabled job that has no next run leaves the row without one.
LEMMA AdvanceDue ==
    ASSUME NEW x \in Job, NEW y \in Job, y.enabled, TimerOf(Advanced(y)) = "none"
    PROVE  ~Due(AdvancedRow(x, y))
<1>1. ~Due(Advanced(y))
  BY TimerDue
<1>. QED BY <1>1 DEF Advanced, AdvancedRow, Due, Job

\* The columns the bookkeeping of a run writes.
LEMMA BookDue ==
    ASSUME NEW x \in Job
    PROVE  /\ \A n : /\ [x EXCEPT !.retry = n].enabled = x.enabled
                     /\ [x EXCEPT !.retry = n].next = x.next
                     /\ [x EXCEPT !.retry = n].conv = x.conv
           /\ \A c : /\ [x EXCEPT !.retry = 0, !.conv = c].enabled = x.enabled
                     /\ [x EXCEPT !.retry = 0, !.conv = c].next = x.next
                     /\ [x EXCEPT !.retry = 0, !.conv = c].conv = c
           /\ \A y \in Job : AdvancedRow(x, y).conv = x.conv
           /\ \A y \in Job, f \in Fields : Saved(x, y, f).conv = x.conv
BY DEF Job, AdvancedRow, Saved, Fields

-----------------------------------------------------------------------------
(* Steps of one task                                                        *)

\* The task in slot s becomes this, the others stay.
Becomes(s, p, o, j, y, c, f, b) ==
    /\ \A t \in Slots \ {s} : task'[t] = task[t]
    /\ task'[s].pc = p /\ task'[s].op = o /\ task'[s].job = j /\ task'[s].copy = y
    /\ task'[s].conv = c /\ task'[s].field = f /\ task'[s].batch = b

\* Goto moves a task to another stage and leaves the rest of it.
LEMMA GotoMoves ==
    ASSUME TypeInv, NEW s \in Slots, NEW p, Goto(s, p)
    PROVE  Becomes(s, p, task[s].op, task[s].job, task[s].copy, task[s].conv, task[s].field,
                   task[s].batch)
<1>1. task[s] \in Task
  BY DEF TypeInv, TypeOK
<1>2. task'[s] = [task[s] EXCEPT !.pc = p] /\ \A t \in Slots \ {s} : task'[t] = task[t]
  BY DEF TypeInv, TypeOK, Goto
<1>. QED BY <1>1, <1>2 DEF Becomes, Task

\* Finish empties the slot.
LEMMA FinishMoves ==
    ASSUME TypeInv, NEW s \in Slots, Finish(s)
    PROVE  Becomes(s, "idle", "none", NoJob, NoRow, NoConv, "name", {})
BY DEF TypeInv, TypeOK, Finish, Becomes, Idle

\* Start fills an empty slot.
LEMMA StartMoves ==
    ASSUME TypeInv, NEW s \in Slots, NEW x, Start(s, x)
    PROVE  /\ Becomes(s, x.pc, x.op, x.job, x.copy, x.conv, x.field, x.batch)
           /\ task[s].pc = "idle" /\ task[s].op = "none" /\ task[s].job = NoJob
           /\ task[s].batch = {}
BY DEF TypeInv, TypeOK, Start, Becomes, Idle

\* BackToLoop drops the job at hand and keeps the snapshot.
LEMMA BackMoves ==
    ASSUME TypeInv, NEW s \in Slots, BackToLoop(s, task)
    PROVE  Becomes(s, "loop", task[s].op, NoJob, NoRow, task[s].conv, task[s].field, task[s].batch)
<1>1. task[s] \in Task
  BY DEF TypeInv, TypeOK
<1>2. /\ task'[s] = [task[s] EXCEPT !.pc = "loop", !.job = NoJob, !.copy = NoRow]
      /\ \A t \in Slots \ {s} : task'[t] = task[t]
  BY DEF TypeInv, TypeOK, BackToLoop
<1>. QED BY <1>1, <1>2 DEF Becomes, Task

\* What a step of the task in slot s does to the rows and timers that matter.
Kept(s) ==
    /\ \A t \in Slots \ {s} : task'[t] = task[t]
    /\ \A j \in Jobs : rows'[j] = Fresh =>
          rows[j] = Fresh /\ timers'[j] \in {timers[j], "none"}
    /\ Steady(s)' /\ Known(s)'
    /\ faults' = faults => \A j \in Jobs \ unsure : Exists(j)' =>
          /\ Exists(j) /\ Agrees(s, j)'
          /\ \/ rows'[j].enabled = rows[j].enabled /\ rows'[j].next = rows[j].next
             \/ MidChange(s, j)'
          /\ \/ rows'[j].conv = rows[j].conv
             \/ task[s].pc = "saveok" /\ task[s].job = j /\ task[s].conv # NoConv
          /\ Due(rows'[j]) /\ timers'[j] = "none" =>
                Carries(s, j)' \/ (Due(rows[j]) /\ timers[j] = "none" /\ ~Carries(s, j))

\* Such a step keeps the invariant, for the other tasks too: a task whose copy
\* will cancel a timer is not crossed by the write (MetInv), and a cascade that
\* will delete the job does not lose it to another binding.
LEMMA KeptSteps ==
    ASSUME TypeInv, TypeInv', SteadyInv, AddedInv, CopyInv, MetInv, Covered, MetInv',
           NEW s \in Slots, Kept(s), Track
    PROVE  SteadyInv' /\ AddedInv' /\ CopyInv' /\ Covered'
<1>1. \A t \in Slots \ {s} : task'[t] = task[t]
  BY DEF Kept
<1>2. SteadyInv'
  <2> SUFFICES ASSUME NEW t \in Slots PROVE Steady(t)' /\ Known(t)'
    BY DEF SteadyInv
  <2>1. CASE t = s
    BY <2>1 DEF Kept
  <2>2. CASE t # s
    <3>1. Steady(t) /\ Known(t) /\ task'[t] = task[t]
      BY <1>1, <2>2 DEF SteadyInv
    <3>2. Steady(t)'
      BY <3>1 DEF Steady
    <3>3. Known(t)'
      BY <3>1 DEF Known, Kept
    <3>. QED BY <3>2, <3>3
  <2>. QED BY <2>1, <2>2
<1>3. ASSUME NEW j \in Jobs \ unsure' PROVE j \notin unsure /\ faults' = faults
  BY <1>3 DEF Track
<1>4. CopyInv'
  <2> SUFFICES ASSUME NEW t \in Slots, NEW j \in Jobs \ unsure', Exists(j)'
               PROVE  Agrees(t, j)'
    BY DEF CopyInv
  <2>1. j \in Jobs \ unsure /\ faults' = faults
    BY <1>3
  <2>2. /\ Exists(j) /\ Agrees(s, j)'
        /\ \/ rows'[j].enabled = rows[j].enabled /\ rows'[j].next = rows[j].next
           \/ MidChange(s, j)'
    BY <2>1 DEF Kept
  <2>3. CASE t = s
    BY <2>2, <2>3
  <2>4. CASE t # s
    <3>1. task'[t] = task[t] /\ Agrees(t, j)
      BY <1>1, <2>1, <2>2, <2>4 DEF CopyInv
    <3>2. CASE MidChange(s, j)'
      <4>1. ~Crossing(j)'
        BY DEF MetInv
      <4>2. ~WillCancel(t, j)'
        BY <2>4, <3>2, <4>1 DEF Crossing
      <4>. QED BY <4>2 DEF Agrees, WillCancel
    <3>3. CASE rows'[j].enabled = rows[j].enabled /\ rows'[j].next = rows[j].next
      <4>1. rows[j] \in Job /\ rows'[j] \in Job
        BY <2>2, ExistingRow DEF TypeInv, TypeOK, Exists
      <4>2. Due(rows'[j]) <=> Due(rows[j])
        BY <3>3 DEF Due
      <4>3. MidChange(t, j) => task[t].copy \in Job
        BY DEF TypeInv, TaskInv, TaskOK, MidChange, Loaded, Pcs
      <4>4. task[t].field \in Fields
        BY DEF TypeInv, TypeOK, Task
      <4>5. MidChange(t, j) => (Due(Leaves(t, rows[j])') <=> Due(Leaves(t, rows[j])))
        BY <3>1, <3>3, <4>1, <4>2, <4>3, <4>4, SavedDue DEF Leaves
      <4>6. MidChange(t, j)' <=> MidChange(t, j)
        BY <3>1 DEF MidChange
      <4>. QED BY <3>1, <4>2, <4>5, <4>6 DEF Agrees
    <3>. QED BY <2>2, <3>2, <3>3
  <2>. QED BY <2>3, <2>4
<1>5. Covered'
  <2> SUFFICES ASSUME NEW j \in Jobs \ unsure', Exists(j)', Due(rows'[j]), timers'[j] = "none"
               PROVE  \E t \in Slots : Carries(t, j)'
    BY DEF Covered
  <2>1. j \in Jobs \ unsure /\ faults' = faults
    BY <1>3
  <2>2. /\ Exists(j)
        /\ \/ rows'[j].conv = rows[j].conv
           \/ task[s].pc = "saveok" /\ task[s].job = j /\ task[s].conv # NoConv
        /\ Carries(s, j)' \/ (Due(rows[j]) /\ timers[j] = "none" /\ ~Carries(s, j))
    BY <2>1 DEF Kept
  <2>3. CASE Carries(s, j)'
    BY <2>3
  <2>4. CASE Due(rows[j]) /\ timers[j] = "none" /\ ~Carries(s, j)
    <3>1. PICK t \in Slots : Carries(t, j)
      BY <2>1, <2>2, <2>4 DEF Covered
    <3>2. t # s /\ task'[t] = task[t]
      BY <1>1, <2>4, <3>1
    <3>3. ~Rebinding(j)
      BY <2>1 DEF MetInv
    <3>4. task[t].pc = "cdel" /\ rows[j].conv = task[t].conv => rows'[j].conv = rows[j].conv
      BY <2>2, <3>3 DEF Rebinding
    <3>5. Carries(t, j)'
      BY <3>1, <3>2, <3>4 DEF Carries
    <3>. QED BY <3>5
  <2>. QED BY <2>2, <2>3, <2>4
<1>6. AddedInv'
  BY DEF Kept, AddedInv
<1>. QED BY <1>2, <1>4, <1>5, <1>6

\* A database call that did not fail.
LEMMA NoFault ==
    ASSUME TypeInv, NEW ok \in DbOutcomes, CountFault(ok), faults' = faults
    PROVE  ok = TRUE
<1>1. ok \in BOOLEAN
  BY DEF DbOutcomes
<1>2. faults \in Nat
  BY DEF TypeInv, TypeOK
<1>. QED BY <1>1, <1>2 DEF CountFault

\* What repo.update and a delete do to the table.
LEMMA RowUpdates ==
    ASSUME TypeInv, NEW i \in Jobs, NEW ok \in BOOLEAN, NEW new, UpdateRow(i, ok, new),
           Exists(i) => new # Fresh
    PROVE  /\ \A j \in Jobs : rows'[j] = Fresh => rows[j] = Fresh
           /\ \A j \in Jobs : Exists(j)' => Exists(j)
           /\ \A j \in Jobs \ {i} : rows'[j] = rows[j]
           /\ ok /\ Exists(i) => rows'[i] = new
           /\ ~(ok /\ Exists(i)) => rows' = rows
BY DEF UpdateRow, TypeInv, TypeOK, Exists

\* What a task knows of the jobs that were added.
LEMMA KnownMoves ==
    ASSUME SteadyInv, NEW s \in Slots, \A j \in Jobs : rows'[j] = Fresh => rows[j] = Fresh,
           \/ task'[s].job \in {task[s].job, NoJob}
           \/ rows[task'[s].job] # Fresh
           \/ \E e \in task[s].batch : task'[s].job = e[1],
           \A e \in task'[s].batch : e \in task[s].batch \/ rows[e[1]] # Fresh
    PROVE  Known(s)'
<1>1. Known(s)
  BY DEF SteadyInv
<1>. QED BY <1>1, CronConstants DEF Known

\* A step of a task that sets no timer and changes nothing a timer hangs on.
LEMMA KeptMove ==
    ASSUME TypeInv, SteadyInv, CopyInv, NEW s \in Slots,
           \A t \in Slots \ {s} : task'[t] = task[t],
           \A j \in Jobs : rows'[j] = Fresh => rows[j] = Fresh,
           Steady(s)', Known(s)', task'[s].batch \subseteq task[s].batch,
           task'[s].pc \notin {"write", "timer", "retimer", "missedtimer"},
           timers' = timers,
           \A j \in Jobs : Exists(j)' => /\ Exists(j)
                                        /\ rows'[j].enabled = rows[j].enabled
                                        /\ rows'[j].next = rows[j].next,
           \A j \in Jobs : Exists(j)' =>
              \/ rows'[j].conv = rows[j].conv
              \/ task[s].pc = "saveok" /\ task[s].job = j /\ task[s].conv # NoConv,
           \A j \in Jobs : faults' = faults /\ Exists(j)' /\ Due(rows[j]) /\ Carries(s, j)
              => Carries(s, j)'
    PROVE  Kept(s)
<1>1. ASSUME NEW j \in Jobs \ unsure, Exists(j)' PROVE Agrees(s, j)'
  <2>1. Agrees(s, j) /\ (Due(rows'[j]) <=> Due(rows[j]))
    BY <1>1 DEF CopyInv, Due
  <2>. QED BY <2>1 DEF Agrees, MidChange
<1>2. ASSUME NEW j \in Jobs, Exists(j)' PROVE Due(rows'[j]) <=> Due(rows[j])
  BY <1>2 DEF Due
<1>. QED BY <1>1, <1>2 DEF Kept

\* A task starts: nothing is carried by an idle slot.
LEMMA KeptStart ==
    ASSUME TypeInv, SteadyInv, NEW s \in Slots, NEW x, Start(s, x), rows' = rows,
           x.batch = {}, x.job = NoJob \/ rows[x.job] # Fresh,
           x.pc \in {"write", "delete", "cascade", "prepare", "tick", "list"},
           x.op = "tick" <=> x.pc = "tick", x.pc = "cascade" => x.op = "cascade",
           \A j \in Jobs \ unsure : Exists(j) => Agrees(s, j)',
           \A j \in Jobs : timers'[j] = timers[j] \/ (timers'[j] = "none" /\ Carries(s, j)')
    PROVE  Kept(s)
<1>1. /\ Becomes(s, x.pc, x.op, x.job, x.copy, x.conv, x.field, x.batch)
      /\ task[s].pc = "idle" /\ task[s].op = "none" /\ task[s].job = NoJob
      /\ task[s].batch = {}
  BY StartMoves
<1>2. Steady(s)'
  BY <1>1 DEF Becomes, Steady, Ticking, TickOnly, Missing
<1>3. Known(s)'
  BY <1>1, KnownMoves DEF Becomes
<1>4. \A j \in Jobs : ~Carries(s, j)
  BY <1>1 DEF Carries
<1>5. \A j \in Jobs : Exists(j)' <=> Exists(j)
  BY DEF Exists
<1>. QED BY <1>1, <1>2, <1>3, <1>4, <1>5 DEF Becomes, Kept

\* update_job reads the row it will write.
LEMMA KeptUpdateJob ==
    ASSUME TypeInv, SteadyInv, NEW s \in Slots, NEW i \in Jobs, NEW f \in Fields, UpdateJob(s, i, f)
    PROVE  Kept(s)
<1>1. PICK y \in Edited(rows[i], f) :
         Start(s, [Idle EXCEPT !.op = "update", !.pc = "write", !.job = i, !.copy = y, !.field = f])
  BY DEF UpdateJob
<1> DEFINE x == [Idle EXCEPT !.op = "update", !.pc = "write", !.job = i, !.copy = y, !.field = f]
<1>2. /\ x.op = "update" /\ x.pc = "write" /\ x.job = i /\ x.copy = y /\ x.field = f
      /\ x.batch = {}
  BY DEF Idle
<1>3. Exists(i) /\ rows' = rows /\ timers' = timers /\ rows[i] # Fresh /\ rows[i] \in Job
  BY ExistingRow DEF UpdateJob, Exists, TypeInv
<1>4. Start(s, x)
  BY <1>1
<1> HIDE DEF x
<1>5. Becomes(s, "write", "update", i, y, x.conv, f, {})
  BY <1>2, <1>4, StartMoves
<1>6. ASSUME NEW j \in Jobs \ unsure, Exists(j) PROVE Agrees(s, j)'
  <2>1. Due(Saved(rows[i], y, f)) <=> Due(y)
    BY <1>3, EditDue
  <2>2. TimerOf(y) = "none" => ~Due(Saved(rows[i], y, f))
    BY <2>1, TimerDue
  <2>. QED BY <1>3, <1>5, <2>2 DEF Agrees, MidChange, Leaves, Becomes
<1>. QED BY <1>2, <1>3, <1>4, <1>6, KeptStart

\* remove_job cancels the timer of the job it will delete.
LEMMA KeptRemoveJob ==
    ASSUME TypeInv, SteadyInv, NEW s \in Slots, NEW i \in Jobs, RemoveJob(s, i)
    PROVE  Kept(s)
<1> DEFINE x == [Idle EXCEPT !.op = "remove", !.pc = "delete", !.job = i]
<1>1. x.op = "remove" /\ x.pc = "delete" /\ x.job = i /\ x.batch = {}
  BY DEF Idle
<1>2. Start(s, x) /\ rows' = rows /\ rows[i] # Fresh
  BY DEF RemoveJob
<1>3. timers'[i] = "none" /\ \A j \in Jobs \ {i} : timers'[j] = timers[j]
  BY DEF RemoveJob, CancelJob, TypeInv, TypeOK
<1> HIDE DEF x
<1>4. Becomes(s, "delete", "remove", i, x.copy, x.conv, x.field, {})
  BY <1>1, <1>2, StartMoves
<1>5. \A j \in Jobs : Agrees(s, j)'
  BY <1>4 DEF Agrees, MidChange, Becomes
<1>6. Carries(s, i)'
  BY <1>4 DEF Carries, Becomes
<1>. QED BY <1>1, <1>2, <1>3, <1>5, <1>6, KeptStart

\* A timer fires: the tick carries the job on.
LEMMA KeptFire ==
    ASSUME TypeInv, SteadyInv, AddedInv, NEW s \in Slots, NEW i \in Jobs, Fire(s, i)
    PROVE  Kept(s)
<1>0. timers'[i] \in {timers[i], "none"}
  BY DEF Fire, TypeInv, TypeOK
<1> DEFINE x == [Idle EXCEPT !.op = "tick", !.pc = "tick", !.job = i]
<1>1. x.op = "tick" /\ x.pc = "tick" /\ x.job = i /\ x.batch = {}
  BY DEF Idle
<1>2. Start(s, x) /\ rows' = rows /\ rows[i] # Fresh
  BY DEF Fire, AddedInv
<1>3. \A j \in Jobs \ {i} : timers'[j] = timers[j]
  BY DEF Fire, TypeInv, TypeOK
<1> HIDE DEF x
<1>4. Becomes(s, "tick", "tick", i, x.copy, x.conv, x.field, {})
  BY <1>1, <1>2, StartMoves
<1>5. \A j \in Jobs : Agrees(s, j)'
  BY <1>4 DEF Agrees, MidChange, Becomes
<1>6. Carries(s, i)'
  BY <1>4 DEF Carries, Becomes, Ticking
<1>. QED BY <1>0, <1>1, <1>2, <1>3, <1>5, <1>6, KeptStart

\* A deleted conversation, a run_now and a resume start without a timer changing.
LEMMA KeptRequests ==
    ASSUME TypeInv, SteadyInv, NEW s \in Slots,
           \/ \E c \in Convs : DeleteConversation(s, c)
           \/ \E i \in Jobs : RunNow(s, i)
           \/ SystemResume(s)
    PROVE  Kept(s)
<1>1. ASSUME NEW x, Start(s, x), x.batch = {}, x.job = NoJob \/ rows[x.job] # Fresh,
             x.pc \in {"cascade", "prepare", "list"}, x.op # "tick",
             x.pc = "cascade" => x.op = "cascade", rows' = rows, timers' = timers
      PROVE  Kept(s)
  <2>1. Becomes(s, x.pc, x.op, x.job, x.copy, x.conv, x.field, x.batch)
    BY <1>1, StartMoves
  <2>2. \A j \in Jobs : Agrees(s, j)'
    BY <1>1, <2>1 DEF Agrees, MidChange, Becomes
  <2>. QED BY <1>1, <2>2, KeptStart
<1>2. ASSUME NEW c \in Convs, DeleteConversation(s, c) PROVE Kept(s)
  <2> DEFINE x == [Idle EXCEPT !.op = "cascade", !.pc = "cascade", !.conv = c]
  <2>1. Start(s, x) /\ x.batch = {} /\ x.job = NoJob /\ x.pc = "cascade" /\ x.op = "cascade"
        /\ rows' = rows /\ timers' = timers
    BY <1>2 DEF DeleteConversation, Idle
  <2> HIDE DEF x
  <2>. QED BY <1>1, <2>1
<1>3. ASSUME NEW i \in Jobs, RunNow(s, i) PROVE Kept(s)
  <2> DEFINE x == [Idle EXCEPT !.op = "now", !.pc = "prepare", !.job = i, !.copy = rows[i]]
  <2>1. Start(s, x) /\ x.batch = {} /\ x.job = i /\ rows[i] # Fresh /\ x.pc = "prepare"
        /\ x.op = "now" /\ rows' = rows /\ timers' = timers
    BY <1>3 DEF RunNow, Idle, Exists
  <2> HIDE DEF x
  <2>. QED BY <1>1, <2>1
<1>4. ASSUME SystemResume(s) PROVE Kept(s)
  <2> DEFINE x == [Idle EXCEPT !.op = "resume", !.pc = "list"]
  <2>1. Start(s, x) /\ x.batch = {} /\ x.job = NoJob /\ x.pc = "list" /\ x.op = "resume"
        /\ rows' = rows /\ timers' = timers
    BY <1>4 DEF SystemResume, Idle
  <2> HIDE DEF x
  <2>. QED BY <1>1, <2>1
<1>. QED BY <1>2, <1>3, <1>4

\* A stage that works on a loaded job has one; a tick carries its job.
LEMMA StageFacts ==
    ASSUME TypeInv, SteadyInv, NEW s \in Slots
    PROVE  /\ Steady(s) /\ Known(s) /\ task[s].batch \subseteq Jobs \X Job
           /\ task[s].pc \in Loaded \cup {"tick", "delete"} => task[s].job \in Jobs
           /\ task[s].pc \in Loaded => task[s].copy \in Job
           /\ task[s].field \in Fields /\ task[s].conv \in Convs \cup {NoConv}
           /\ task[s].op \in Ops
<1>1. task[s] \in Task /\ TaskOK(task[s])
  BY DEF TypeInv, TypeOK, TaskInv
<1>. QED BY <1>1 DEF SteadyInv, TaskOK, Task

\* The end of a task that sets no timer.
LEMMA KeptFinish ==
    ASSUME TypeInv, SteadyInv, CopyInv, NEW s \in Slots, Finish(s), UNCHANGED timers,
           \A j \in Jobs : rows'[j] = Fresh => rows[j] = Fresh,
           \A j \in Jobs : Exists(j)' => /\ Exists(j)
                                        /\ rows'[j].enabled = rows[j].enabled
                                        /\ rows'[j].next = rows[j].next,
           \A j \in Jobs : Exists(j)' =>
              \/ rows'[j].conv = rows[j].conv
              \/ task[s].pc = "saveok" /\ task[s].job = j /\ task[s].conv # NoConv,
           \A j \in Jobs : faults' = faults /\ Exists(j)' /\ Due(rows[j]) => ~Carries(s, j)
    PROVE  Kept(s)
<1>1. Becomes(s, "idle", "none", NoJob, NoRow, NoConv, "name", {})
  BY FinishMoves
<1>2. Steady(s)'
  BY <1>1 DEF Becomes, Steady, TickOnly, Missing
<1>3. Known(s)'
  BY <1>1, KnownMoves DEF Becomes
<1>. QED BY <1>1, <1>2, <1>3, KeptMove DEF Becomes

\* A task moves on and the rows are as they were.
LEMMA KeptGoto ==
    ASSUME TypeInv, SteadyInv, CopyInv, NEW s \in Slots, NEW p, NEW c,
           Becomes(s, p, task[s].op, task[s].job, task[s].copy, c, task[s].field, task[s].batch),
           UNCHANGED timers, Steady(s)',
           p \notin {"write", "timer", "retimer", "missedtimer"},
           \A j \in Jobs : rows'[j] = Fresh => rows[j] = Fresh,
           \A j \in Jobs : Exists(j)' => /\ Exists(j)
                                        /\ rows'[j].enabled = rows[j].enabled
                                        /\ rows'[j].next = rows[j].next,
           \A j \in Jobs : Exists(j)' =>
              \/ rows'[j].conv = rows[j].conv
              \/ task[s].pc = "saveok" /\ task[s].job = j /\ task[s].conv # NoConv,
           \A j \in Jobs : faults' = faults /\ Exists(j)' /\ Due(rows[j]) /\ Carries(s, j)
              => Carries(s, j)'
    PROVE  Kept(s)
<1>1. Known(s)'
  BY KnownMoves DEF Becomes
<1>. QED BY <1>1, KeptMove DEF Becomes

\* What does not touch the table.
LEMMA SameRows ==
    ASSUME rows' = rows
    PROVE  /\ \A j \in Jobs : rows'[j] = Fresh => rows[j] = Fresh
           /\ \A j \in Jobs : Exists(j)' => /\ Exists(j)
                                            /\ rows'[j].enabled = rows[j].enabled
                                            /\ rows'[j].next = rows[j].next
           /\ \A j \in Jobs : Exists(j)' => rows'[j].conv = rows[j].conv
BY DEF Exists

\* remove_job deletes the row it carries.
LEMMA KeptRemoveDelete ==
    ASSUME TypeInv, SteadyInv, CopyInv, NEW s \in Slots, RemoveDelete(s)
    PROVE  Kept(s)
<1>1. task[s].pc = "delete" /\ Finish(s) /\ UNCHANGED timers
  BY DEF RemoveDelete
<1>2. PICK ok \in DbOutcomes : CountFault(ok) /\ UpdateRow(task[s].job, ok, Gone)
  BY DEF RemoveDelete
<1>3. task[s].job \in Jobs /\ ok \in BOOLEAN /\ task[s].batch = {}
  BY <1>1, StageFacts DEF DbOutcomes, Steady, Missing
<1>4. /\ \A j \in Jobs : rows'[j] = Fresh => rows[j] = Fresh
      /\ \A j \in Jobs : Exists(j)' => Exists(j)
      /\ \A j \in Jobs \ {task[s].job} : rows'[j] = rows[j]
      /\ ok /\ Exists(task[s].job) => rows'[task[s].job] = Gone
      /\ ~(ok /\ Exists(task[s].job)) => rows' = rows
  BY <1>2, <1>3, RowUpdates, RowConstants
<1>5. \A j \in Jobs : Exists(j)' => rows'[j] = rows[j]
  BY <1>4 DEF Exists
<1>6. ASSUME NEW j \in Jobs, faults' = faults, Exists(j)' PROVE ~Carries(s, j)
  <2>1. ok = TRUE
    BY <1>2, <1>6, NoFault
  <2>2. j # task[s].job
    BY <1>3, <1>4, <1>6, <2>1 DEF Exists
  <2>. QED BY <1>1, <1>3, <2>2 DEF Carries
<1>. QED BY <1>1, <1>4, <1>5, <1>6, KeptFinish

\* delete_by_conversation deletes what its cancelled timers left to it.
LEMMA KeptCascadeDelete ==
    ASSUME TypeInv, SteadyInv, CopyInv, NEW s \in Slots, CascadeDelete(s)
    PROVE  Kept(s)
<1>1. task[s].pc = "cdel" /\ Finish(s) /\ UNCHANGED timers
  BY DEF CascadeDelete
<1>2. PICK ok \in DbOutcomes :
         /\ CountFault(ok)
         /\ rows' = [j \in Jobs |-> IF ok /\ j \in BoundTo(task[s].conv) THEN Gone ELSE rows[j]]
  BY DEF CascadeDelete
<1>3. task[s].batch = {}
  BY <1>1, StageFacts DEF Steady, Missing
<1>4. \A j \in Jobs : rows'[j] = rows[j] \/ rows'[j] = Gone
  BY <1>2
<1>5. \A j \in Jobs : Exists(j)' => rows'[j] = rows[j] /\ Exists(j)
  BY <1>4 DEF Exists
<1>6. \A j \in Jobs : rows'[j] = Fresh => rows[j] = Fresh
  BY <1>4, RowConstants
<1>7. ASSUME NEW j \in Jobs, faults' = faults, Exists(j)' PROVE ~Carries(s, j)
  <2>1. ok = TRUE
    BY <1>2, <1>7, NoFault
  <2>2. j \notin BoundTo(task[s].conv)
    BY <1>2, <1>7, <2>1 DEF Exists
  <2>3. rows[j].conv # task[s].conv
    BY <1>5, <1>7, <2>2 DEF BoundTo
  <2>. QED BY <1>1, <1>3, <2>3 DEF Carries, Ticking
<1>. QED BY <1>1, <1>5, <1>6, <1>7, KeptFinish

\* delete_jobs_by_conversation cancels the timers of what it will delete.
LEMMA KeptCascadeCancel ==
    ASSUME TypeInv, SteadyInv, CopyInv, NEW s \in Slots, CascadeCancel(s)
    PROVE  Kept(s)
<1>1. task[s].pc = "cascade" /\ rows' = rows
  BY DEF CascadeCancel
<1>2. task[s].batch = {}
  BY <1>1, StageFacts DEF Steady, Missing
<1>3. \A j \in Jobs : ~Carries(s, j)
  BY <1>1, <1>2 DEF Carries, Ticking
<1>4. CASE Finish(s) /\ UNCHANGED timers
  BY <1>1, <1>3, <1>4, SameRows, KeptFinish
<1>5. CASE /\ timers' = [j \in Jobs |-> IF j \in BoundTo(task[s].conv) THEN "none" ELSE timers[j]]
           /\ Goto(s, "cdel")
  <2>1. Becomes(s, "cdel", task[s].op, task[s].job, task[s].copy, task[s].conv, task[s].field,
                task[s].batch)
    BY <1>5, GotoMoves
  <2>2. Steady(s)'
    BY <1>1, <1>2, <2>1, StageFacts DEF Becomes, Steady, Ticking, TickOnly, Missing
  <2>3. Known(s)'
    BY <1>1, <2>1, SameRows, KnownMoves DEF Becomes
  <2>4. \A j \in Jobs : Agrees(s, j)'
    BY <1>2, <2>1 DEF Agrees, MidChange, Becomes
  <2>5. \A j \in BoundTo(task[s].conv) : Carries(s, j)'
    BY <1>1, <2>1 DEF Carries, Becomes, BoundTo
  <2>6. \A j \in Jobs \ BoundTo(task[s].conv) : timers'[j] = timers[j]
    BY <1>5
  <2>7. \A j \in Jobs : timers'[j] \in {timers[j], "none"}
    BY <1>5
  <2>. QED BY <1>1, <1>3, <2>1, <2>2, <2>3, <2>4, <2>5, <2>6, <2>7, SameRows DEF Kept, Becomes
<1>. QED BY <1>4, <1>5 DEF CascadeCancel

\* A tick that loads its job goes on with it; otherwise nothing is due.
LEMMA KeptTick ==
    ASSUME TypeInv, SteadyInv, CopyInv, NEW s \in Slots, Tick(s)
    PROVE  Kept(s)
<1> DEFINE i == task[s].job
<1>1. task[s].pc = "tick" /\ rows' = rows /\ i \in Jobs /\ task[s].batch = {} /\ task[s].op = "tick"
  BY StageFacts DEF Tick, Steady, TickOnly, Missing
<1>2. PICK ok \in DbOutcomes :
         /\ CountFault(ok)
         /\ IF ok /\ ~Exists(i) THEN CancelJob(i) ELSE UNCHANGED timers
         /\ IF ok /\ Exists(i) /\ rows[i].enabled
            THEN task' = [task EXCEPT
                   ![s].copy = rows[i],
                   ![s].pc = IF rows[i].conv \in busy THEN HandleBusy(rows[i]) ELSE "prepare"]
            ELSE Finish(s)
  BY DEF Tick
<1> HIDE DEF i
<1>3. \A j \in Jobs : Carries(s, j) => j = i
  BY <1>1 DEF Carries, i
<1>4. CASE ok /\ Exists(i) /\ rows[i].enabled
  <2> DEFINE p == IF rows[i].conv \in busy THEN HandleBusy(rows[i]) ELSE "prepare"
  <2>1. p \in {"skip", "retry", "prepare"}
    BY DEF HandleBusy
  <2>2. task' = [task EXCEPT ![s].copy = rows[i], ![s].pc = p] /\ timers' = timers
    BY <1>2, <1>4
  <2> HIDE DEF p
  <2>3. Becomes(s, p, task[s].op, task[s].job, rows[i], task[s].conv, task[s].field, task[s].batch)
    <3>1. task[s] \in Task
      BY DEF TypeInv, TypeOK
    <3>. QED BY <2>2, <3>1 DEF Becomes, TypeInv, TypeOK, Task
  <2>4. Steady(s)'
    BY <1>1, <1>4, <2>1, <2>3 DEF Becomes, Steady, Ticking, TickOnly, Missing
  <2>5. Known(s)'
    BY <1>1, <2>3, SameRows, KnownMoves DEF Becomes
  <2>6. \A j \in Jobs : j = i => Carries(s, j)'
    BY <1>1, <2>1, <2>3 DEF Carries, Becomes, Ticking, i
  <2>7. \A j \in Jobs : Carries(s, j) => Carries(s, j)'
    BY <1>3, <2>6
  <2>8. /\ task'[s].batch \subseteq task[s].batch
        /\ task'[s].pc \notin {"write", "timer", "retimer", "missedtimer"}
        /\ \A t \in Slots \ {s} : task'[t] = task[t]
    BY <2>1, <2>3 DEF Becomes
  <2>. QED BY <1>1, <2>2, <2>4, <2>5, <2>7, <2>8, SameRows, KeptMove
<1>5. CASE ~(ok /\ Exists(i) /\ rows[i].enabled)
  <2>1. Finish(s)
    BY <1>2, <1>5
  <2>2. CASE UNCHANGED timers
    <3>1. \A j \in Jobs : faults' = faults /\ Exists(j)' /\ Due(rows[j]) => ~Carries(s, j)
      BY <1>1, <1>2, <1>3, <1>5, NoFault, SameRows DEF Due
    <3>. QED BY <1>1, <2>1, <2>2, <3>1, SameRows, KeptFinish
  <2>3. CASE ok /\ ~Exists(i) /\ CancelJob(i)
    <3>1. Becomes(s, "idle", "none", NoJob, NoRow, NoConv, "name", {})
      BY <2>1, FinishMoves
    <3>2. Steady(s)'
      BY <3>1 DEF Becomes, Steady, TickOnly, Missing
    <3>3. Known(s)'
      BY <1>1, <3>1, SameRows, KnownMoves DEF Becomes
    <3>4. \A j \in Jobs : Agrees(s, j)'
      BY <3>1 DEF Agrees, MidChange, Becomes
    <3>5. /\ \A j \in Jobs \ {i} : timers'[j] = timers[j]
          /\ timers'[i] = "none"
      BY <1>1, <2>3 DEF CancelJob, TypeInv, TypeOK
    <3>6. \A j \in Jobs : Exists(j)' => j # i /\ ~Carries(s, j)
      BY <1>1, <1>3, <2>3, SameRows
    <3>. QED BY <1>1, <3>1, <3>2, <3>3, <3>4, <3>5, <3>6, SameRows DEF Kept, Becomes
  <2>. QED BY <1>2, <2>2, <2>3
<1>. QED BY <1>4, <1>5

\* resolve_conversation and the dispatch: a tick stays a tick.
LEMMA KeptPrepare ==
    ASSUME TypeInv, SteadyInv, CopyInv, NEW s \in Slots, Prepare(s)
    PROVE  Kept(s)
<1>1. task[s].pc = "prepare" /\ rows' = rows /\ timers' = timers /\ task[s].batch = {}
  BY StageFacts DEF Prepare, Steady, Missing
<1>2. PICK c :
         task' = [task EXCEPT ![s].pc = IF task[s].op = "tick" THEN "run" ELSE "spawned",
                              ![s].conv = c]
  BY DEF Prepare
<1> DEFINE p == IF task[s].op = "tick" THEN "run" ELSE "spawned"
<1>3. Becomes(s, p, task[s].op, task[s].job, task[s].copy, c, task[s].field, task[s].batch)
  <2>1. task[s] \in Task
    BY DEF TypeInv, TypeOK
  <2>. QED BY <1>2, <2>1 DEF Becomes, TypeInv, TypeOK, Task
<1>4. p = IF task[s].op = "tick" THEN "run" ELSE "spawned"
  OBVIOUS
<1> HIDE DEF p
<1>5. Steady(s)'
  BY <1>1, <1>3, <1>4, StageFacts DEF Becomes, Steady, Ticking, TickOnly, Missing
<1>6. \A j \in Jobs : Carries(s, j) => Carries(s, j)'
  BY <1>1, <1>3, <1>4 DEF Carries, Becomes, Ticking
<1>7. p \notin {"write", "timer", "retimer", "missedtimer"}
  BY <1>4
<1>. QED BY <1>1, <1>3, <1>5, <1>6, <1>7, SameRows, KeptGoto

\* The stages of a run that touch neither rows nor timers.
LEMMA KeptRun ==
    ASSUME TypeInv, SteadyInv, CopyInv, NEW s \in Slots,
           PrepareFails(s) \/ ExecutePrepared(s) \/ ExecuteInner(s)
    PROVE  Kept(s)
<1>1. /\ rows' = rows /\ timers' = timers /\ task[s].batch = {}
      /\ task[s].pc \in {"prepare", "spawned", "run"} /\ (task[s].pc = "spawned" => task[s].op # "tick")
  BY StageFacts DEF PrepareFails, ExecutePrepared, ExecuteInner, Steady, Missing, Ticking
<1>2. CASE Finish(s) /\ task[s].op # "tick"
  <2>1. \A j \in Jobs : ~Carries(s, j)
    BY <1>1, <1>2 DEF Carries
  <2>. QED BY <1>1, <1>2, <2>1, SameRows, KeptFinish
<1>3. CASE \E p \in {"err", "ok", "run"} : Goto(s, p)
  <2>1. PICK p \in {"err", "ok", "run"} : Goto(s, p)
    BY <1>3
  <2>2. Becomes(s, p, task[s].op, task[s].job, task[s].copy, task[s].conv, task[s].field, task[s].batch)
    BY <2>1, GotoMoves
  <2>3. Steady(s)'
    BY <1>1, <2>1, <2>2, StageFacts DEF Becomes, Steady, Ticking, TickOnly, Missing
  <2>4. \A j \in Jobs : Carries(s, j) => Carries(s, j)'
    BY <1>1, <2>1, <2>2 DEF Carries, Becomes, Ticking
  <2>. QED BY <1>1, <2>1, <2>2, <2>3, <2>4, SameRows, KeptGoto
<1>. QED BY <1>2, <1>3 DEF PrepareFails, ExecutePrepared, ExecuteInner

\* After its bookkeeping a tick reschedules and another run ends.
LEMMA KeptAfterRun ==
    ASSUME TypeInv, SteadyInv, CopyInv, NEW s \in Slots, AfterRun(s), UNCHANGED timers,
           task[s].pc \in {"ok", "err", "saveok", "saveerr"},
           \A j \in Jobs : rows'[j] = Fresh => rows[j] = Fresh,
           \A j \in Jobs : Exists(j)' => /\ Exists(j)
                                        /\ rows'[j].enabled = rows[j].enabled
                                        /\ rows'[j].next = rows[j].next,
           \A j \in Jobs : Exists(j)' =>
              \/ rows'[j].conv = rows[j].conv
              \/ task[s].pc = "saveok" /\ task[s].job = j /\ task[s].conv # NoConv
    PROVE  Kept(s)
<1>1. task[s].batch = {}
  BY StageFacts DEF Steady, Missing
<1>2. CASE task[s].op = "tick"
  <2>1. Goto(s, "resched")
    BY <1>2 DEF AfterRun
  <2>2. Becomes(s, "resched", task[s].op, task[s].job, task[s].copy, task[s].conv, task[s].field, task[s].batch)
    BY <2>1, GotoMoves
  <2>3. Steady(s)'
    BY <1>1, <1>2, <2>2, StageFacts DEF Becomes, Steady, Ticking, TickOnly, Missing
  <2>4. \A j \in Jobs : Carries(s, j) => Carries(s, j)'
    BY <1>1, <1>2, <2>2 DEF Carries, Becomes, Ticking
  <2>5. "resched" \notin {"write", "timer", "retimer", "missedtimer"}
    OBVIOUS
  <2>. QED BY <2>2, <2>3, <2>4, <2>5, KeptGoto
<1>3. CASE task[s].op # "tick"
  <2>1. Finish(s)
    BY <1>3 DEF AfterRun
  <2>2. \A j \in Jobs : ~Carries(s, j)
    BY <1>1, <1>3 DEF Carries
  <2>. QED BY <2>1, <2>2, KeptFinish
<1>. QED BY <1>2, <1>3

\* update_job_after_success and _error read the row.
LEMMA KeptReadResult ==
    ASSUME TypeInv, SteadyInv, CopyInv, NEW s \in Slots, ReadResult(s)
    PROVE  Kept(s)
<1>1. /\ rows' = rows /\ timers' = timers /\ task[s].batch = {} /\ task[s].pc \in {"ok", "err"}
  BY StageFacts DEF ReadResult, Steady, Missing
<1>2. CASE AfterRun(s)
  BY <1>1, <1>2, SameRows, KeptAfterRun
<1>3. CASE ~AfterRun(s)
  <2> DEFINE p == IF task[s].pc = "ok" THEN "saveok" ELSE "saveerr"
             c == IF task[s].pc = "ok" /\ rows[task[s].job].conv = NoConv THEN task[s].conv ELSE NoConv
  <2>1. task' = [task EXCEPT
               ![s].pc = IF @ = "ok" THEN "saveok" ELSE "saveerr",
               ![s].conv = IF task[s].pc = "ok" /\ rows[task[s].job].conv = NoConv
                           THEN @ ELSE NoConv]
    BY <1>3 DEF ReadResult
  <2>2. Becomes(s, p, task[s].op, task[s].job, task[s].copy, c, task[s].field, task[s].batch)
    <3>1. task[s] \in Task
      BY DEF TypeInv, TypeOK
    <3>. QED BY <2>1, <3>1 DEF Becomes, TypeInv, TypeOK, Task
  <2>3. p \in {"saveok", "saveerr"} /\ (p = "saveerr" => c = NoConv)
    BY <1>1
  <2> HIDE DEF p, c
  <2>4. Steady(s)'
    BY <1>1, <2>2, <2>3, StageFacts DEF Becomes, Steady, Ticking, TickOnly, Missing
  <2>5. \A j \in Jobs : Carries(s, j) => Carries(s, j)'
    BY <1>1, <2>2, <2>3 DEF Carries, Becomes, Ticking
  <2>. QED BY <1>1, <2>2, <2>3, <2>4, <2>5, SameRows, KeptGoto
<1>. QED BY <1>2, <1>3

\* A bookkeeping write of the row of job i.
LEMMA BookRows ==
    ASSUME TypeInv, NEW i \in Jobs, NEW ok \in BOOLEAN, NEW new, UpdateRow(i, ok, new),
           Exists(i) => /\ new \in Job /\ new.enabled = rows[i].enabled
                        /\ new.next = rows[i].next
    PROVE  /\ \A j \in Jobs : rows'[j] = Fresh => rows[j] = Fresh
           /\ \A j \in Jobs : Exists(j)' => /\ Exists(j)
                                            /\ rows'[j].enabled = rows[j].enabled
                                            /\ rows'[j].next = rows[j].next
           /\ \A j \in Jobs : rows'[j] = rows[j] \/ (j = i /\ Exists(i) /\ rows'[i] = new)
<1>1. Exists(i) => new # Fresh
  BY RowConstants
<1>2. /\ \A j \in Jobs : rows'[j] = Fresh => rows[j] = Fresh
      /\ \A j \in Jobs : Exists(j)' => Exists(j)
      /\ \A j \in Jobs \ {i} : rows'[j] = rows[j]
      /\ ok /\ Exists(i) => rows'[i] = new
      /\ ~(ok /\ Exists(i)) => rows' = rows
  BY <1>1, RowUpdates
<1>. QED BY <1>2

\* ... and write it.
LEMMA KeptSaveResult ==
    ASSUME TypeInv, SteadyInv, CopyInv, NEW s \in Slots, SaveResult(s)
    PROVE  Kept(s)
<1> DEFINE i == task[s].job
           new == [rows[i] EXCEPT !.retry = 0, !.conv = IF task[s].conv = NoConv THEN @ ELSE task[s].conv]
<1>1. /\ timers' = timers /\ AfterRun(s) /\ task[s].pc \in {"saveok", "saveerr"} /\ i \in Jobs
      /\ task[s].pc = "saveerr" => task[s].conv = NoConv
  BY StageFacts DEF SaveResult, Steady, Loaded, Pcs
<1>2. PICK ok \in DbOutcomes : UpdateRow(i, ok, new)
  BY DEF SaveResult
<1>3. ok \in BOOLEAN
  BY DEF DbOutcomes
<1>4. Exists(i) => /\ new \in Job /\ new.enabled = rows[i].enabled /\ new.next = rows[i].next
                   /\ task[s].conv = NoConv => new.conv = rows[i].conv
  <2> SUFFICES ASSUME Exists(i)
               PROVE  /\ new \in Job /\ new.enabled = rows[i].enabled /\ new.next = rows[i].next
                      /\ task[s].conv = NoConv => new.conv = rows[i].conv
    OBVIOUS
  <2>1. rows[i] \in Job /\ task[s].conv \in Convs \cup {NoConv}
    BY <1>1, ExistingRow, StageFacts DEF TypeInv
  <2>. QED BY <2>1 DEF Job
<1> HIDE DEF i, new
<1>5. /\ \A j \in Jobs : rows'[j] = Fresh => rows[j] = Fresh
      /\ \A j \in Jobs : Exists(j)' => /\ Exists(j)
                                       /\ rows'[j].enabled = rows[j].enabled
                                       /\ rows'[j].next = rows[j].next
      /\ \A j \in Jobs : rows'[j] = rows[j] \/ (j = i /\ Exists(i) /\ rows'[i] = new)
  BY <1>1, <1>2, <1>3, <1>4, BookRows
<1>6. \A j \in Jobs : Exists(j)' =>
         \/ rows'[j].conv = rows[j].conv
         \/ task[s].pc = "saveok" /\ task[s].job = j /\ task[s].conv # NoConv
  BY <1>1, <1>4, <1>5 DEF i
<1>. QED BY <1>1, <1>5, <1>6, KeptAfterRun

\* The attempts and the missed runs that are stored.
LEMMA KeptBook ==
    ASSUME TypeInv, SteadyInv, CopyInv, NEW s \in Slots,
           SaveRetry(s) \/ SaveSkipped(s) \/ RecordMissed(s)
    PROVE  Kept(s)
<1> DEFINE i == task[s].job
           p == CASE task[s].pc = "retry" -> "retrytimer"
                  [] task[s].pc = "skip" -> "resched"
                  [] OTHER -> "advance"
<1>1. timers' = timers /\ task[s].pc \in {"retry", "skip", "missed"} /\ i \in Jobs
  BY StageFacts DEF SaveRetry, SaveSkipped, RecordMissed, Loaded, Pcs
<1>2. Goto(s, p)
  BY DEF SaveRetry, SaveSkipped, RecordMissed
<1>3. task[s].copy \in Job /\ task[s].copy.retry + 1 \in Nat
  <2>1. task[s].copy \in Job
    BY <1>1, StageFacts DEF Loaded, Pcs
  <2>2. task[s].copy.retry \in Nat
    BY <2>1, JobFields
  <2>. QED BY <2>1, <2>2
<1>4. PICK ok \in DbOutcomes, n \in Nat : UpdateRow(i, ok, [rows[i] EXCEPT !.retry = n])
  BY <1>3 DEF SaveRetry, SaveSkipped, RecordMissed
<1> DEFINE new == [rows[i] EXCEPT !.retry = n]
<1>5. ok \in BOOLEAN
  BY DEF DbOutcomes
<1>6. Exists(i) => /\ new \in Job /\ new.enabled = rows[i].enabled /\ new.next = rows[i].next
                   /\ new.conv = rows[i].conv
  BY <1>1, ExistingRow, BookDue, JobFields DEF TypeInv
<1>7. /\ p \in {"retrytimer", "resched", "advance"}
      /\ p = "advance" <=> task[s].pc = "missed"
  BY <1>1
<1>8. UpdateRow(i, ok, new)
  BY <1>4
<1> HIDE DEF i, new, p
<1>9. /\ \A j \in Jobs : rows'[j] = Fresh => rows[j] = Fresh
      /\ \A j \in Jobs : Exists(j)' => /\ Exists(j)
                                       /\ rows'[j].enabled = rows[j].enabled
                                       /\ rows'[j].next = rows[j].next
      /\ \A j \in Jobs : rows'[j] = rows[j] \/ (j = i /\ Exists(i) /\ rows'[i] = new)
  BY <1>1, <1>5, <1>6, <1>8, BookRows
<1>10. \A j \in Jobs : Exists(j)' => rows'[j].conv = rows[j].conv
  BY <1>6, <1>9
<1>11. Becomes(s, p, task[s].op, task[s].job, task[s].copy, task[s].conv, task[s].field, task[s].batch)
  BY <1>2, GotoMoves
<1>12. Steady(s)'
  BY <1>1, <1>7, <1>11, StageFacts DEF Becomes, Steady, Ticking, TickOnly, Missing
<1>13. \A j \in Jobs : Carries(s, j) => Carries(s, j)'
  BY <1>1, <1>7, <1>11, StageFacts DEF Carries, Becomes, Ticking, Steady
<1>14. p \notin {"write", "timer", "retimer", "missedtimer"}
  BY <1>7
<1>. QED BY <1>1, <1>9, <1>10, <1>11, <1>12, <1>13, <1>14, KeptGoto

\* schedule_retry, and the timers that follow a row's change.
LEMMA KeptTimers ==
    ASSUME TypeInv, SteadyInv, CopyInv, NEW s \in Slots,
           ScheduleRetry(s) \/ UpdateTimer(s) \/ RescheduleTimer(s) \/ MissedTimer(s)
    PROVE  Kept(s)
<1> DEFINE i == task[s].job
<1>1. /\ rows' = rows /\ i \in Jobs
      /\ task[s].pc \in {"retrytimer", "timer", "retimer", "missedtimer"}
  BY StageFacts DEF ScheduleRetry, UpdateTimer, RescheduleTimer, MissedTimer, Loaded, Pcs
<1>2. Finish(s) \/ BackToLoop(s, task)
  BY DEF ScheduleRetry, UpdateTimer, RescheduleTimer, MissedTimer
<1>3. \/ task[s].pc = "retrytimer" /\ timers' = [timers EXCEPT ![i] = "at"]
      \/ /\ task[s].pc \in {"timer", "retimer", "missedtimer"}
         /\ timers' = [timers EXCEPT ![i] = TimerOf(task[s].copy)]
  BY DEF ScheduleRetry, UpdateTimer, RescheduleTimer, MissedTimer, ScheduleJob
<1>4. task[s].batch # {} => BackToLoop(s, task)
  BY StageFacts DEF ScheduleRetry, UpdateTimer, RescheduleTimer, MissedTimer, Steady, Missing
<1> HIDE DEF i
<1>5. /\ \A t \in Slots \ {s} : task'[t] = task[t]
      /\ task'[s].pc \in {"idle", "loop"} /\ task'[s].job = NoJob
      /\ task'[s].batch = task[s].batch /\ (task'[s].batch # {} => task'[s].pc = "loop")
      /\ task'[s].op = task[s].op \/ (task'[s].op = "none" /\ task[s].batch = {})
      /\ task'[s].op = "tick" => task[s].op = "tick" /\ task[s].pc = "missedtimer"
  <2>1. CASE Finish(s) /\ task[s].batch = {}
    <3>1. Becomes(s, "idle", "none", NoJob, NoRow, NoConv, "name", {})
      BY <2>1, FinishMoves
    <3>. QED BY <2>1, <3>1 DEF Becomes
  <2>2. CASE BackToLoop(s, task)
    <3>1. Becomes(s, "loop", task[s].op, NoJob, NoRow, task[s].conv, task[s].field, task[s].batch)
      BY <2>2, BackMoves
    <3>2. task[s].pc = "missedtimer"
      <4>1. ~Finish(s)
        <5>1. Finish(s) => task'[s].pc = "idle"
          BY FinishMoves DEF Becomes
        <5>. QED BY <3>1, <5>1 DEF Becomes
      <4>. QED BY <4>1 DEF ScheduleRetry, UpdateTimer, RescheduleTimer, MissedTimer
    <3>. QED BY <3>1, <3>2 DEF Becomes
  <2>. QED BY <1>2, <1>4, <2>1, <2>2
<1>6. Steady(s)
  BY StageFacts
<1>7. Steady(s)'
  BY <1>5, <1>6 DEF Steady, Ticking, TickOnly, Missing
<1>8. Known(s)'
  BY <1>1, <1>5, SameRows, KnownMoves
<1>9. /\ \A j \in Jobs \ {i} : timers'[j] = timers[j]
      /\ timers'[i] = "none" => /\ task[s].pc \in {"timer", "retimer", "missedtimer"}
                                /\ TimerOf(task[s].copy) = "none"
  BY <1>1, <1>3 DEF TypeInv, TypeOK
<1>10. ASSUME NEW j \in Jobs \ unsure, Exists(j), j = i, timers'[j] = "none" PROVE ~Due(rows[j])
  <2>1. Agrees(s, j) /\ MidChange(s, j) /\ Leaves(s, rows[j]) = rows[j]
    BY <1>9, <1>10 DEF CopyInv, MidChange, Leaves, i
  <2>. QED BY <1>9, <1>10, <2>1 DEF Agrees
<1>11. \A j \in Jobs \ {i} : Carries(s, j) => Carries(s, j)'
  BY <1>1, <1>5 DEF Carries, i
<1>12. \A j \in Jobs \ unsure : Exists(j) => Agrees(s, j)'
  BY <1>1, <1>5 DEF CopyInv, Agrees, MidChange
<1>13. rows[i] # Fresh
  BY <1>1, StageFacts DEF Known, i
<1>. QED BY <1>1, <1>5, <1>7, <1>8, <1>9, <1>10, <1>11, <1>12, <1>13, SameRows DEF Kept

\* A task writes the row of its job i and goes on to the timer: the row asks for
\* no timer unless the copy does.
LEMMA KeptWrite ==
    ASSUME TypeInv, SteadyInv, CopyInv, NEW s \in Slots, NEW i \in Jobs, NEW new, NEW ok \in BOOLEAN,
           i = task[s].job, UpdateRow(i, ok, new),
           Exists(i) => new \in Job /\ new.conv = rows[i].conv,
           faults' = faults => ok, UNCHANGED timers,
           \A t \in Slots \ {s} : task'[t] = task[t], Steady(s)',
           task'[s].op = task[s].op, task'[s].job = i, task'[s].batch = task[s].batch,
           task[s].pc \in {"write", "resched", "advance"},
           task'[s].pc \in {"timer", "retimer", "missedtimer"},
           Exists(i) /\ i \notin unsure /\ TimerOf(task'[s].copy) = "none" => ~Due(new),
           \A e \in task[s].batch : e[1] # i
    PROVE  Kept(s)
<1>1. Exists(i) => new # Fresh
  BY RowConstants
<1>2. /\ \A j \in Jobs : rows'[j] = Fresh => rows[j] = Fresh
      /\ \A j \in Jobs : Exists(j)' => Exists(j)
      /\ \A j \in Jobs \ {i} : rows'[j] = rows[j]
      /\ ok /\ Exists(i) => rows'[i] = new
      /\ ~(ok /\ Exists(i)) => rows' = rows
  BY <1>1, RowUpdates
<1>3. Known(s)'
  BY <1>2, KnownMoves
<1>4. ASSUME faults' = faults, NEW j \in Jobs \ unsure, Exists(j)'
      PROVE  /\ Exists(j) /\ Agrees(s, j)'
             /\ \/ rows'[j].enabled = rows[j].enabled /\ rows'[j].next = rows[j].next
                \/ MidChange(s, j)'
             /\ rows'[j].conv = rows[j].conv
             /\ Due(rows'[j]) /\ timers'[j] = "none" =>
                   Carries(s, j)' \/ (Due(rows[j]) /\ timers[j] = "none" /\ ~Carries(s, j))
  <2>1. Exists(j) /\ ok
    BY <1>2, <1>4
  <2>2. CASE j = i
    <3>1. rows'[j] = new /\ new.conv = rows[j].conv
      BY <1>2, <2>1, <2>2
    <3>2. TimerOf(task'[s].copy) = "none" => ~Due(new)
      BY <1>4, <2>1, <2>2
    <3>3. MidChange(s, j)'
      BY <2>2 DEF MidChange
    <3>4. Agrees(s, j)'
      BY <2>2, <3>1, <3>2 DEF Agrees, Leaves
    <3>5. Due(rows'[j]) => Carries(s, j)'
      BY <2>2, <3>1, <3>2 DEF Carries
    <3>. QED BY <2>1, <3>1, <3>3, <3>4, <3>5
  <2>3. CASE j # i
    <3>1. rows'[j] = rows[j]
      BY <1>2, <2>3
    <3>2. Agrees(s, j)'
      BY <1>4, <2>1, <2>3, <3>1 DEF CopyInv, Agrees, MidChange
    <3>3. Carries(s, j) => Carries(s, j)'
      BY <2>3 DEF Carries
    <3>. QED BY <2>1, <3>1, <3>2, <3>3
  <2>. QED BY <2>2, <2>3
<1>. QED BY <1>2, <1>3, <1>4 DEF Kept

\* update_job writes what its copy says.
LEMMA KeptUpdateWrite ==
    ASSUME TypeInv, SteadyInv, CopyInv, NEW s \in Slots, UpdateWrite(s)
    PROVE  Kept(s)
<1> DEFINE i == task[s].job
           new == Saved(rows[i], task[s].copy, task[s].field)
<1>1. /\ task[s].pc = "write" /\ i \in Jobs /\ timers' = timers /\ task[s].batch = {}
      /\ task[s].copy \in Job /\ task[s].field \in Fields /\ task[s].op # "tick"
  BY StageFacts DEF UpdateWrite, Loaded, Pcs, Steady, Missing, Ticking
<1>2. PICK ok \in DbOutcomes :
         /\ CountFault(ok) /\ UpdateRow(i, ok, new)
         /\ IF ok /\ Exists(i) THEN Goto(s, "timer") ELSE Finish(s)
  BY DEF UpdateWrite
<1>3. ok \in BOOLEAN /\ (faults' = faults => ok)
  BY <1>2, NoFault DEF DbOutcomes
<1>4. ASSUME Exists(i) PROVE new \in Job /\ new.conv = rows[i].conv
  <2>1. rows[i] \in Job
    BY <1>1, <1>4, ExistingRow DEF TypeInv
  <2>2. new \in Job
    BY <1>1, <2>1, EditedJobs
  <2>3. new.conv = rows[i].conv
    BY <1>1, <2>1, BookDue
  <2>. QED BY <2>2, <2>3
<1>5. CASE ok /\ Exists(i)
  <2>1. Becomes(s, "timer", task[s].op, task[s].job, task[s].copy, task[s].conv, task[s].field,
                task[s].batch)
    BY <1>2, <1>5, GotoMoves
  <2>2. Steady(s)'
    BY <1>1, <2>1, StageFacts DEF Becomes, Steady, Ticking, TickOnly, Missing
  <2>3. i \notin unsure /\ TimerOf(task[s].copy) = "none" => ~Due(new)
    BY <1>1, <1>5 DEF CopyInv, Agrees, MidChange, Leaves
  <2>4. i = task[s].job
    OBVIOUS
  <2>5. /\ \A t \in Slots \ {s} : task'[t] = task[t]
        /\ task'[s].op = task[s].op /\ task'[s].job = i /\ task'[s].batch = task[s].batch
        /\ task'[s].pc = "timer" /\ task'[s].copy = task[s].copy
    BY <2>1 DEF Becomes
  <2> HIDE DEF i, new
  <2>. QED BY <1>1, <1>2, <1>3, <1>4, <2>2, <2>3, <2>4, <2>5, KeptWrite
<1>6. CASE ~(ok /\ Exists(i))
  <2>1. rows' = rows /\ Finish(s)
    BY <1>2, <1>6 DEF UpdateRow
  <2>2. \A j \in Jobs : ~Carries(s, j)
    BY <1>1 DEF Carries
  <2>. QED BY <1>1, <2>1, <2>2, SameRows, KeptFinish
<1>. QED BY <1>5, <1>6

\* reschedule_after_execution writes the row from the job the tick loaded.
LEMMA KeptReschedule ==
    ASSUME TypeInv, SteadyInv, CopyInv, NEW s \in Slots, Reschedule(s)
    PROVE  Kept(s)
<1> DEFINE i == task[s].job
           y == task[s].copy
           new == AdvancedRow(rows[i], y)
<1>1. /\ task[s].pc = "resched" /\ i \in Jobs /\ timers' = timers /\ task[s].batch = {}
      /\ y \in Job /\ task[s].op = "tick" /\ y.enabled
  BY StageFacts DEF Reschedule, Loaded, Pcs, Steady, Missing, TickOnly
<1>2. PICK ok \in DbOutcomes : CountFault(ok) /\ UpdateRow(i, ok, new)
  BY DEF Reschedule
<1>3. ok \in BOOLEAN /\ (faults' = faults => ok)
  BY <1>2, NoFault DEF DbOutcomes
<1>4. Exists(i) => rows[i] \in Job /\ new \in Job /\ new.conv = rows[i].conv
  BY <1>1, ExistingRow, JobFields, BookDue DEF TypeInv
<1>5. /\ \A t \in Slots \ {s} : task'[t] = task[t]
      /\ task'[s].op = task[s].op /\ task'[s].job = i /\ task'[s].batch = task[s].batch
      /\ task'[s].pc = "retimer" /\ task'[s].copy = Advanced(y) /\ task'[s].conv = task[s].conv
  <2>1. task[s] \in Task
    BY DEF TypeInv, TypeOK
  <2>. QED BY <2>1 DEF Reschedule, TypeInv, TypeOK, Task
<1>6. Steady(s)'
  BY <1>1, <1>5, StageFacts DEF Steady, Ticking, TickOnly, Missing
<1>7. Exists(i) /\ TimerOf(Advanced(y)) = "none" => ~Due(new)
  BY <1>1, <1>4, AdvanceDue
<1>8. i = task[s].job
  OBVIOUS
<1> HIDE DEF i, new, y
<1>. QED BY <1>1, <1>2, <1>3, <1>4, <1>5, <1>6, <1>7, <1>8, KeptWrite

\* reschedule_after_missed writes the row from the snapshot.
LEMMA KeptAdvance ==
    ASSUME TypeInv, SteadyInv, CopyInv, NEW s \in Slots, AdvanceMissed(s)
    PROVE  Kept(s)
<1> DEFINE i == task[s].job
           y == task[s].copy
           new == AdvancedRow(rows[i], y)
<1>1. /\ task[s].pc = "advance" /\ i \in Jobs /\ timers' = timers
      /\ y \in Job /\ y.enabled /\ task[s].op # "tick"
      /\ \A e \in task[s].batch : e[1] # i
  BY StageFacts DEF AdvanceMissed, Loaded, Pcs, Steady, Missing, Ticking
<1>2. PICK ok \in DbOutcomes :
         /\ CountFault(ok) /\ UpdateRow(i, ok, new)
         /\ IF (ok /\ Exists(i)) \/ y.kind = "at"
            THEN task' = [task EXCEPT ![s].pc = "missedtimer", ![s].copy = Advanced(y)]
            ELSE BackToLoop(s, task)
  BY DEF AdvanceMissed
<1>3. ok \in BOOLEAN /\ (faults' = faults => ok)
  BY <1>2, NoFault DEF DbOutcomes
<1>4. Exists(i) => rows[i] \in Job /\ new \in Job /\ new.conv = rows[i].conv
  BY <1>1, ExistingRow, JobFields, BookDue DEF TypeInv
<1>5. CASE task' = [task EXCEPT ![s].pc = "missedtimer", ![s].copy = Advanced(y)]
  <2>1. /\ \A t \in Slots \ {s} : task'[t] = task[t]
        /\ task'[s].op = task[s].op /\ task'[s].job = i /\ task'[s].batch = task[s].batch
        /\ task'[s].pc = "missedtimer" /\ task'[s].copy = Advanced(y) /\ task'[s].conv = task[s].conv
    <3>1. task[s] \in Task
      BY DEF TypeInv, TypeOK
    <3>. QED BY <1>5, <3>1 DEF TypeInv, TypeOK, Task
  <2>2. Steady(s)'
    BY <1>1, <2>1, StageFacts DEF Steady, Ticking, TickOnly, Missing
  <2>3. Exists(i) /\ TimerOf(Advanced(y)) = "none" => ~Due(new)
    BY <1>1, <1>4, AdvanceDue
  <2>4. i = task[s].job
    OBVIOUS
  <2> HIDE DEF i, new, y
  <2>. QED BY <1>1, <1>2, <1>3, <1>4, <2>1, <2>2, <2>3, <2>4, KeptWrite
<1>6. CASE ~(ok /\ Exists(i)) /\ BackToLoop(s, task)
  <2>1. rows' = rows
    BY <1>2, <1>6 DEF UpdateRow
  <2>2. Becomes(s, "loop", task[s].op, NoJob, NoRow, task[s].conv, task[s].field, task[s].batch)
    BY <1>6, BackMoves
  <2>3. Steady(s)'
    BY <1>1, <2>2, StageFacts DEF Becomes, Steady, Ticking, TickOnly, Missing
  <2>4. Known(s)'
    BY <2>1, <2>2, SameRows, KnownMoves DEF Becomes
  <2>5. \A j \in Jobs : Carries(s, j) => Carries(s, j)'
    BY <1>1, <2>2 DEF Carries, Becomes
  <2>6. /\ task'[s].batch \subseteq task[s].batch
        /\ task'[s].pc \notin {"write", "timer", "retimer", "missedtimer"}
        /\ \A t \in Slots \ {s} : task'[t] = task[t]
    BY <2>2 DEF Becomes
  <2>. QED BY <1>1, <2>1, <2>3, <2>4, <2>5, <2>6, SameRows, KeptMove
<1>. QED BY <1>2, <1>5, <1>6

\* A task takes a job out of its snapshot.
LEMMA TakeMoves ==
    ASSUME TypeInv, NEW s \in Slots, NEW e, task' = [task EXCEPT ![s].batch = @ \ {e}]
    PROVE  Becomes(s, task[s].pc, task[s].op, task[s].job, task[s].copy, task[s].conv, task[s].field,
                   task[s].batch \ {e})
<1>1. task[s] \in Task
  BY DEF TypeInv, TypeOK
<1>2. /\ task'[s] = [task[s] EXCEPT !.batch = task[s].batch \ {e}]
      /\ \A t \in Slots \ {s} : task'[t] = task[t]
  BY DEF TypeInv, TypeOK
<1>. QED BY <1>1, <1>2 DEF Becomes, Task

\* init and handle_system_resume set the timer of one job of their snapshot.
LEMMA KeptSchedule ==
    ASSUME TypeInv, SteadyInv, CopyInv, NEW s \in Slots, task[s].pc = "loop",
           NEW e \in task[s].batch, task' = [task EXCEPT ![s].batch = @ \ {e}],
           ScheduleJob(e[1], e[2]), rows' = rows
    PROVE  Kept(s)
<1>1. Becomes(s, task[s].pc, task[s].op, task[s].job, task[s].copy, task[s].conv, task[s].field,
              task[s].batch \ {e})
  BY TakeMoves
<1>2. Steady(s) /\ Known(s) /\ e[1] \in Jobs /\ e[2] \in Job
  BY StageFacts
<1>3. Steady(s)'
  BY <1>1, <1>2 DEF Steady, Becomes
<1>4. Known(s)'
  BY <1>1, SameRows, KnownMoves DEF Becomes
<1>5. timers'[e[1]] = TimerOf(e[2]) /\ \A j \in Jobs \ {e[1]} : timers'[j] = timers[j]
  BY <1>2 DEF ScheduleJob, TypeInv, TypeOK
<1>6. rows[e[1]] # Fresh
  BY <1>2 DEF Known
<1>7. \A j \in Jobs \ unsure : Exists(j) => Agrees(s, j)'
  BY <1>1 DEF CopyInv, Agrees, MidChange, Becomes
<1>8. ASSUME NEW j \in Jobs \ unsure, Exists(j), Due(rows[j]), timers'[j] = "none"
      PROVE  j # e[1]
  BY <1>5, <1>8 DEF CopyInv, Agrees
<1>9. \A j \in Jobs \ {e[1]} : Carries(s, j) => Carries(s, j)'
  BY <1>1 DEF Carries, Becomes, Ticking
<1>10. \A t \in Slots \ {s} : task'[t] = task[t]
  BY <1>1 DEF Becomes
<1>. QED BY <1>3, <1>4, <1>5, <1>6, <1>7, <1>8, <1>9, <1>10, SameRows DEF Kept

\* init handles one job: an orphan is deleted, another one gets its timer.
LEMMA KeptInitJob ==
    ASSUME TypeInv, SteadyInv, CopyInv, NEW s \in Slots, InitJob(s)
    PROVE  Kept(s)
<1>1. task[s].pc = "loop"
  BY DEF InitJob
<1>2. PICK e \in task[s].batch :
         /\ task' = [task EXCEPT ![s].batch = @ \ {e}]
         /\ \/ /\ IsOrphan(e[2])
               /\ \E ok \in DbOutcomes : CountFault(ok) /\ UpdateRow(e[1], ok, Gone)
               /\ UNCHANGED timers
            \/ /\ \E ok \in DbOutcomes : CountFault(ok) /\ (ok => ~IsOrphan(e[2]))
               /\ ScheduleJob(e[1], e[2])
               /\ UNCHANGED rows
  BY DEF InitJob
<1>3. CASE ScheduleJob(e[1], e[2]) /\ UNCHANGED rows
  BY <1>1, <1>2, <1>3, KeptSchedule
<1>4. CASE UNCHANGED timers /\ \E ok \in DbOutcomes : CountFault(ok) /\ UpdateRow(e[1], ok, Gone)
  <2>1. PICK ok \in DbOutcomes : CountFault(ok) /\ UpdateRow(e[1], ok, Gone)
    BY <1>4
  <2>2. timers' = timers
    BY <1>4
  <2>3. Becomes(s, task[s].pc, task[s].op, task[s].job, task[s].copy, task[s].conv, task[s].field,
                task[s].batch \ {e})
    BY <1>2, TakeMoves
  <2>4. Steady(s) /\ e[1] \in Jobs /\ ok \in BOOLEAN
    BY StageFacts DEF DbOutcomes
  <2>5. /\ \A j \in Jobs : rows'[j] = Fresh => rows[j] = Fresh
        /\ \A j \in Jobs : Exists(j)' => Exists(j)
        /\ \A j \in Jobs \ {e[1]} : rows'[j] = rows[j]
        /\ ok /\ Exists(e[1]) => rows'[e[1]] = Gone
        /\ ~(ok /\ Exists(e[1])) => rows' = rows
    BY <2>1, <2>4, RowUpdates, RowConstants
  <2>6. \A j \in Jobs : Exists(j)' => Exists(j) /\ rows'[j] = rows[j]
    BY <2>5 DEF Exists
  <2>7. Steady(s)'
    BY <2>3, <2>4 DEF Steady, Becomes
  <2>8. Known(s)'
    BY <2>3, <2>5, KnownMoves DEF Becomes
  <2>9. ASSUME NEW j \in Jobs, faults' = faults, Exists(j)', Carries(s, j)
        PROVE  Carries(s, j)'
    <3>1. ok = TRUE
      BY <2>1, <2>9, NoFault
    <3>2. j # e[1]
      BY <2>4, <2>5, <2>9, <3>1 DEF Exists
    <3>. QED BY <1>1, <2>3, <2>9, <3>2 DEF Carries, Becomes, Ticking
  <2>10. /\ \A t \in Slots \ {s} : task'[t] = task[t]
         /\ task'[s].batch \subseteq task[s].batch
         /\ task'[s].pc \notin {"write", "timer", "retimer", "missedtimer"}
    BY <1>1, <2>3 DEF Becomes
  <2>. QED BY <2>2, <2>5, <2>6, <2>7, <2>8, <2>9, <2>10, KeptMove
<1>. QED BY <1>2, <1>3, <1>4

\* handle_system_resume sets a timer again, or finds a run that was missed.
LEMMA KeptResume ==
    ASSUME TypeInv, SteadyInv, CopyInv, NEW s \in Slots, ResumeJob(s) \/ ResumeMissed(s)
    PROVE  Kept(s)
<1>1. task[s].pc = "loop" /\ task[s].op = "resume" /\ rows' = rows
  BY DEF ResumeJob, ResumeMissed
<1>2. CASE ResumeJob(s)
  BY <1>1, <1>2, KeptSchedule DEF ResumeJob
<1>3. CASE ResumeMissed(s)
  <2>1. PICK e \in task[s].batch :
          task' = [task EXCEPT ![s].batch = @ \ {e}, ![s].pc = "missed",
                               ![s].job = e[1], ![s].copy = e[2]]
    BY <1>3 DEF ResumeMissed
  <2>2. Steady(s) /\ e[1] \in Jobs /\ timers' = timers
    BY <1>3, StageFacts DEF ResumeMissed
  <2>3. Becomes(s, "missed", task[s].op, e[1], e[2], task[s].conv, task[s].field,
                task[s].batch \ {e})
    <3>1. task[s] \in Task
      BY DEF TypeInv, TypeOK
    <3>2. /\ task'[s] = [task[s] EXCEPT !.batch = task[s].batch \ {e}, !.pc = "missed",
                                       !.job = e[1], !.copy = e[2]]
          /\ \A t \in Slots \ {s} : task'[t] = task[t]
      BY <2>1 DEF TypeInv, TypeOK
    <3>. QED BY <3>1, <3>2 DEF Becomes, Task
  <2>4. Steady(s)'
    BY <1>1, <2>2, <2>3 DEF Steady, Becomes, Ticking, TickOnly, Missing
  <2>5. Known(s)'
    BY <1>1, <2>3, SameRows, KnownMoves DEF Becomes
  <2>6. \A j \in Jobs : ~Carries(s, j)
    BY <1>1 DEF Carries
  <2>7. /\ \A t \in Slots \ {s} : task'[t] = task[t]
        /\ task'[s].batch \subseteq task[s].batch
        /\ task'[s].pc \notin {"write", "timer", "retimer", "missedtimer"}
    BY <2>3 DEF Becomes
  <2>. QED BY <1>1, <2>2, <2>4, <2>5, <2>6, <2>7, SameRows, KeptMove
<1>. QED BY <1>2, <1>3

\* The end of a snapshot: nothing of it is left to carry.
LEMMA KeptLoopEnd ==
    ASSUME TypeInv, SteadyInv, CopyInv, NEW s \in Slots, LoopEnd(s)
    PROVE  Kept(s)
<1>1. /\ task[s].pc = "loop" /\ task[s].batch = {} /\ Finish(s) /\ UNCHANGED timers
      /\ rows' = rows
  BY DEF LoopEnd
<1>2. \A j \in Jobs : ~Carries(s, j)
  BY <1>1 DEF Carries, Ticking
<1>. QED BY <1>1, <1>2, SameRows, KeptFinish

\* The snapshot holds every enabled job as its row is.
LEMMA KeptListEnabled ==
    ASSUME TypeInv, SteadyInv, CopyInv, NEW s \in Slots, ListEnabled(s)
    PROVE  Kept(s)
<1> DEFINE b == {<<j, rows[j]>> : j \in {i \in Jobs : Exists(i) /\ rows[i].enabled}}
<1>1. task[s].pc = "list" /\ rows' = rows /\ timers' = timers
  BY DEF ListEnabled
<1>2. PICK ok \in DbOutcomes :
         /\ CountFault(ok)
         /\ IF ok THEN task' = [task EXCEPT ![s].pc = "loop", ![s].batch = b] ELSE Finish(s)
  BY DEF ListEnabled
<1>3. Steady(s)
  BY StageFacts
<1>4. CASE ~ok
  <2>1. Finish(s) /\ faults' # faults
    BY <1>2, <1>4, NoFault
  <2>. QED BY <1>1, <2>1, SameRows, KeptFinish
<1>5. CASE ok
  <2>1. Becomes(s, "loop", task[s].op, task[s].job, task[s].copy, task[s].conv, task[s].field, b)
    <3>1. task[s] \in Task
      BY DEF TypeInv, TypeOK
    <3>2. /\ task'[s] = [task[s] EXCEPT !.pc = "loop", !.batch = b]
          /\ \A t \in Slots \ {s} : task'[t] = task[t]
      BY <1>2, <1>5 DEF TypeInv, TypeOK
    <3> HIDE DEF b
    <3>. QED BY <3>1, <3>2 DEF Becomes, Task
  <2>2. \A e \in b : /\ e[1] \in Jobs /\ Exists(e[1]) /\ e[2] = rows[e[1]] /\ e[2].enabled
                     /\ e = <<e[1], e[2]>>
    OBVIOUS
  <2>3. \A j \in Jobs : Exists(j) /\ Due(rows[j]) => <<j, rows[j]>> \in b
    BY DEF Due
  <2> HIDE DEF b
  <2>4. \A e, f \in b : e[1] = f[1] => e = f
    BY <2>2
  <2>5. Steady(s)'
    BY <1>1, <1>3, <2>1, <2>2, <2>4 DEF Steady, Becomes, Ticking, TickOnly, Missing
  <2>6. Known(s)'
    <3>1. \A e \in b : rows[e[1]] # Fresh
      BY <2>2 DEF Exists
    <3>. QED BY <1>1, <2>1, <3>1, SameRows, KnownMoves DEF Becomes
  <2>7. ASSUME NEW j \in Jobs PROVE Agrees(s, j)'
    <3>1. ~MidChange(s, j)'
      BY <2>1 DEF MidChange, Becomes
    <3>2. \A e \in b : e[1] = j /\ TimerOf(e[2]) = "none" => ~Due(rows[j])
      BY <2>2, TimerDue
    <3>. QED BY <1>1, <2>1, <3>1, <3>2 DEF Agrees, Becomes
  <2>8. ASSUME NEW j \in Jobs, Exists(j), Due(rows[j]), Carries(s, j) PROVE Carries(s, j)'
    <3>1. task[s].op = "init"
      BY <1>1, <1>3, <2>8 DEF Carries, Ticking, Steady, Missing
    <3>2. <<j, rows[j]>> \in b
      BY <2>3, <2>8
    <3>3. \E e \in task'[s].batch : e[1] = j
      BY <2>1, <3>2 DEF Becomes
    <3>. QED BY <2>1, <3>1, <3>3 DEF Carries, Becomes
  <2>9. \A t \in Slots \ {s} : task'[t] = task[t]
    BY <2>1 DEF Becomes
  <2>. QED BY <1>1, <2>5, <2>6, <2>7, <2>8, <2>9, SameRows DEF Kept
<1>. QED BY <1>4, <1>5

-----------------------------------------------------------------------------
(* Every step                                                               *)

\* The history, the tasks' copies and the carriers of the timers together.
TimerInv == SteadyInv /\ AddedInv /\ CopyInv /\ MetInv /\ Covered

\* Every await of a task, every request and every timer that fires keeps what
\* the timers hang on.
LEMMA KeptTask ==
    ASSUME TypeInv, SteadyInv, AddedInv, CopyInv, NEW s \in Slots,
           Request(s) \/ Step(s) \/ \E j \in Jobs : Fire(s, j)
    PROVE  Kept(s) /\ Track
<1>1. CASE Request(s)
  <2>1. Kept(s)
    BY <1>1, KeptUpdateJob, KeptRemoveJob, KeptRequests DEF Request
  <2>2. Track
    BY <1>1 DEF Request, RunNow, RemoveJob, UpdateJob, DeleteConversation, SystemResume
  <2>. QED BY <2>1, <2>2
<1>2. CASE \E j \in Jobs : Fire(s, j)
  BY <1>2, KeptFire DEF Fire
<1>3. CASE Step(s)
  <2>1. CASE UpdateWrite(s)
    BY <2>1, KeptUpdateWrite DEF UpdateWrite
  <2>2. CASE ScheduleRetry(s) \/ UpdateTimer(s) \/ RescheduleTimer(s) \/ MissedTimer(s)
    BY <2>2, KeptTimers DEF ScheduleRetry, UpdateTimer, RescheduleTimer, MissedTimer
  <2>3. CASE RemoveDelete(s)
    BY <2>3, KeptRemoveDelete DEF RemoveDelete
  <2>4. CASE CascadeCancel(s)
    BY <2>4, KeptCascadeCancel DEF CascadeCancel
  <2>5. CASE CascadeDelete(s)
    BY <2>5, KeptCascadeDelete DEF CascadeDelete
  <2>6. CASE Tick(s)
    BY <2>6, KeptTick DEF Tick
  <2>7. CASE Prepare(s)
    BY <2>7, KeptPrepare DEF Prepare
  <2>8. CASE PrepareFails(s) \/ ExecutePrepared(s) \/ ExecuteInner(s)
    BY <2>8, KeptRun DEF PrepareFails, ExecutePrepared, ExecuteInner
  <2>9. CASE ReadResult(s)
    BY <2>9, KeptReadResult DEF ReadResult
  <2>10. CASE SaveResult(s)
    BY <2>10, KeptSaveResult DEF SaveResult
  <2>11. CASE SaveRetry(s) \/ SaveSkipped(s) \/ RecordMissed(s)
    BY <2>11, KeptBook DEF SaveRetry, SaveSkipped, RecordMissed
  <2>12. CASE Reschedule(s)
    BY <2>12, KeptReschedule DEF Reschedule
  <2>13. CASE ListEnabled(s)
    BY <2>13, KeptListEnabled DEF ListEnabled
  <2>14. CASE InitJob(s)
    BY <2>14, KeptInitJob DEF InitJob
  <2>15. CASE ResumeJob(s) \/ ResumeMissed(s)
    BY <2>15, KeptResume DEF ResumeJob, ResumeMissed
  <2>16. CASE AdvanceMissed(s)
    BY <2>16, KeptAdvance DEF AdvanceMissed
  <2>17. CASE LoopEnd(s)
    BY <2>17, KeptLoopEnd DEF LoopEnd
  <2>. QED BY <1>3, <2>1, <2>2, <2>3, <2>4, <2>5, <2>6, <2>7, <2>8, <2>9, <2>10, <2>11, <2>12,
              <2>13, <2>14, <2>15, <2>16, <2>17 DEF Step
<1>. QED BY <1>1, <1>2, <1>3

\* The history follows every meeting of two changes.
LEMMA TrackMeets == Track => MetInv'
BY DEF Track, MetInv

\* add_job: nothing refers to the id before, and the task that inserted the row
\* will set the timer.
LEMMA AddTimer ==
    ASSUME TypeInv, TimerInv, NEW s \in Slots, NEW i \in Jobs, NEW k \in Kinds, NEW m \in NewModes,
           NEW c \in Convs \cup {NoConv}, AddJob(s, i, k, m, c)
    PROVE  TimerInv'
<1> DEFINE new == [enabled |-> TRUE, kind |-> k, next |-> NextRun(k), mode |-> m, conv |-> c,
                   retry |-> 0, max |-> DefaultMax]
           x == [Idle EXCEPT !.op = "add", !.pc = "timer", !.job = i, !.copy = new]
<1>1. new \in Job
  BY CronConstants DEF Job, Modes, NextRun
<1> HIDE DEF new
<1>a. x.op = "add" /\ x.pc = "timer" /\ x.job = i /\ x.copy = new /\ x.batch = {}
  BY DEF Idle
<1>b. Start(s, x)
  BY DEF AddJob, new
<1> HIDE DEF x
<1>2. /\ rows[i] = Fresh /\ timers' = timers /\ faults' = faults /\ Track
      /\ rows' = [rows EXCEPT ![i] = new]
  BY DEF AddJob, new
<1>c. /\ Becomes(s, "timer", "add", i, new, x.conv, x.field, {})
      /\ task[s].pc = "idle" /\ task[s].op = "none" /\ task[s].job = NoJob /\ task[s].batch = {}
  BY <1>a, <1>b, StartMoves
<1>d. \A t \in Slots \ {s} : task'[t] = task[t]
  BY <1>c DEF Becomes
<1>3. rows'[i] = new /\ \A j \in Jobs \ {i} : rows'[j] = rows[j]
  BY <1>2 DEF TypeInv, TypeOK
<1>4. new # Fresh /\ unsure \subseteq unsure'
  BY <1>1, <1>2, RowConstants DEF Track
<1>5. \A j \in Jobs \ {i} : Exists(j)' <=> Exists(j)
  BY <1>3 DEF Exists
<1>6. SteadyInv'
  <2> SUFFICES ASSUME NEW t \in Slots PROVE Steady(t)' /\ Known(t)'
    BY DEF SteadyInv
  <2>1. Steady(t) /\ Known(t)
    BY DEF TimerInv, SteadyInv
  <2>2. CASE t = s
    <3>1. Steady(t)'
      BY <1>c, <2>2 DEF Steady, Becomes, TickOnly, Missing, Ticking
    <3>2. Known(t)'
      BY <1>c, <1>3, <1>4, <2>2 DEF Known, Becomes
    <3>. QED BY <3>1, <3>2
  <2>3. CASE t # s
    <3>1. task'[t] = task[t]
      BY <1>d, <2>3
    <3>2. Steady(t)'
      BY <2>1, <3>1 DEF Steady
    <3>3. Known(t)'
      BY <1>3, <1>4, <2>1, <3>1 DEF Known
    <3>. QED BY <3>2, <3>3
  <2>. QED BY <2>2, <2>3
<1>7. AddedInv'
  BY <1>2, <1>3, <1>4 DEF TimerInv, AddedInv
<1>8. CopyInv'
  <2> SUFFICES ASSUME NEW t \in Slots, NEW j \in Jobs \ unsure', Exists(j)' PROVE Agrees(t, j)'
    BY DEF CopyInv
  <2>1. CASE t = s
    <3>1. CASE j = i
      <4>1. TimerOf(new) = "none" => ~Due(rows'[i])
        BY <1>3, TimerDue
      <4>. QED BY <1>c, <2>1, <3>1, <4>1 DEF Agrees, MidChange, Leaves, Becomes
    <3>2. CASE j # i
      BY <1>c, <2>1, <3>2 DEF Agrees, MidChange, Becomes
    <3>. QED BY <3>1, <3>2
  <2>2. CASE t # s
    <3>0. task'[t] = task[t]
      BY <1>d, <2>2
    <3>1. CASE j = i
      <4>1. task[t].job # j /\ \A e \in task[t].batch : e[1] # j
        BY <1>2, <3>1 DEF TimerInv, SteadyInv, Known
      <4>. QED BY <3>0, <4>1 DEF Agrees, MidChange
    <3>2. CASE j # i
      <4>1. Agrees(t, j) /\ rows'[j] = rows[j]
        BY <1>3, <1>4, <1>5, <3>2 DEF TimerInv, CopyInv
      <4>. QED BY <3>0, <4>1 DEF Agrees, MidChange, Leaves
    <3>. QED BY <3>1, <3>2
  <2>. QED BY <2>1, <2>2
<1>9. Covered'
  <2> SUFFICES ASSUME NEW j \in Jobs \ unsure', Exists(j)', Due(rows'[j]), timers'[j] = "none"
               PROVE  \E t \in Slots : Carries(t, j)'
    BY DEF Covered
  <2>1. CASE j = i
    <3>1. TimerOf(new) # "none"
      BY <1>3, <2>1, TimerDue
    <3>2. Carries(s, j)'
      BY <1>c, <2>1, <3>1 DEF Carries, Becomes
    <3>. QED BY <3>2
  <2>2. CASE j # i
    <3>1. PICK t \in Slots : Carries(t, j)
      BY <1>2, <1>3, <1>4, <1>5, <2>2 DEF TimerInv, Covered
    <3>2. t # s
      BY <1>c, <3>1, CronConstants DEF Carries, Ticking
    <3>3. task'[t] = task[t]
      BY <1>d, <3>2
    <3>4. Carries(t, j)'
      BY <1>3, <2>2, <3>1, <3>3 DEF Carries
    <3>. QED BY <3>4
  <2>. QED BY <2>1, <2>2
<1>. QED BY <1>2, <1>6, <1>7, <1>8, <1>9, TrackMeets DEF TimerInv

\* A restart loses the timers and the tasks; init carries every job.
LEMMA RestartTimer ==
    ASSUME TypeInv, TimerInv, NEW i \in Slots, Restart(i)
    PROVE  TimerInv'
<1>1. \A s \in Slots : /\ task'[s].batch = {} /\ task'[s].job = NoJob
                       /\ \/ task'[s].pc = "idle" /\ task'[s].op = "none"
                          \/ task'[s].pc = "list" /\ task'[s].op = "init"
  BY DEF Restart, Idle
<1>2. task'[i].pc = "list" /\ task'[i].op = "init"
  BY DEF Restart, Idle
<1>3. \A j \in Jobs : timers'[j] = "none"
  BY DEF Restart
<1>4. SteadyInv'
  <2> SUFFICES ASSUME NEW s \in Slots PROVE Steady(s)' /\ Known(s)'
    BY DEF SteadyInv
  <2>. QED BY <1>1, CronConstants DEF Steady, Known, TickOnly, Missing
<1>5. AddedInv'
  BY <1>3 DEF AddedInv
<1>6. CopyInv'
  BY <1>1 DEF CopyInv, Agrees, MidChange
<1>7. MetInv'
  BY <1>1 DEF MetInv, Crossing, Rebinding, MidChange
<1>8. Covered'
  BY <1>2 DEF Covered, Carries
<1>. QED BY <1>4, <1>5, <1>6, <1>7, <1>8 DEF TimerInv

\* The invariant is inductive relative to the types.
LEMMA TimerStep == TypeInv /\ TimerInv /\ [Next]_vars => TimerInv'
<1> SUFFICES ASSUME TypeInv, TimerInv, [Next]_vars PROVE TimerInv'
  OBVIOUS
<1>1. TypeInv'
  BY TypeStep
<1>2. ASSUME NEW s \in Slots, Request(s) \/ Step(s) \/ \E j \in Jobs : Fire(s, j) PROVE TimerInv'
  <2>1. Kept(s) /\ Track
    BY <1>2, KeptTask DEF TimerInv
  <2>2. MetInv'
    BY <2>1, TrackMeets
  <2>. QED BY <1>1, <2>1, <2>2, KeptSteps DEF TimerInv
<1>3. CASE UNCHANGED vars
  <2>1. /\ rows' = rows /\ timers' = timers /\ task' = task /\ unsure' = unsure
    BY <1>3 DEF vars
  <2>2. SteadyInv' /\ AddedInv'
    BY <2>1 DEF TimerInv, SteadyInv, AddedInv, Steady, Known
  <2>3. CopyInv'
    BY <2>1 DEF TimerInv, CopyInv, Agrees, MidChange, Leaves, Exists
  <2>4. MetInv'
    BY <2>1 DEF TimerInv, MetInv, Crossing, Rebinding, MidChange, WillCancel, Exists
  <2>5. Covered'
    BY <2>1 DEF TimerInv, Covered, Carries, Exists
  <2>. QED BY <2>2, <2>3, <2>4, <2>5 DEF TimerInv
<1>. QED BY <1>2, <1>3, AddTimer, RestartTimer DEF Next

\* A job that nothing handles is carried by nothing.
LEMMA QuietCarries ==
    ASSUME TypeInv, TimerInv, NEW j \in Jobs, Quiet(j), Exists(j), NEW s \in Slots
    PROVE  ~Carries(s, j)
<1>1. /\ task[s].job # j /\ task[s].op # "init"
      /\ task[s].op = "cascade" => rows[j].conv # task[s].conv
  BY DEF Quiet, BoundTo
<1>2. task[s].pc = "cdel" => task[s].op = "cascade"
  BY DEF TimerInv, SteadyInv, Steady
<1>. QED BY <1>1, <1>2 DEF Carries

-----------------------------------------------------------------------------
(* Result                                                                   *)

\* An enabled job with a next run that no operation handles has a timer, unless
\* the history says that a failed database call or a meeting of two changes of
\* the job lost it: for any number of jobs and of overlapping ticks, updates,
\* removals, cascades, resumes and restarts.
THEOREM EnabledJobsAreScheduled == Spec => []EnabledIsScheduled
<1>1. Init => TimerInv
  <2> SUFFICES ASSUME Init PROVE TimerInv
    OBVIOUS
  <2>1. /\ \A s \in Slots : /\ task[s].batch = {} /\ task[s].job = NoJob
                            /\ task[s].pc = "idle" /\ task[s].op = "none"
        /\ \A j \in Jobs : rows[j] = Fresh /\ timers[j] = "none"
    BY DEF Init, Idle
  <2>2. SteadyInv
    BY <2>1, CronConstants DEF SteadyInv, Steady, Known, TickOnly, Missing
  <2>3. MetInv
    BY <2>1 DEF MetInv, Crossing, Rebinding, MidChange
  <2>. QED BY <2>1, <2>2, <2>3 DEF TimerInv, AddedInv, CopyInv, Covered, Exists
<1>2. TypeInv /\ TimerInv => EnabledIsScheduled
  <2> SUFFICES ASSUME TypeInv, TimerInv, NEW j \in Jobs, j \notin unsure, Quiet(j), Exists(j),
                      rows[j].enabled, rows[j].next
               PROVE  timers[j] # "none"
    BY DEF EnabledIsScheduled
  <2>1. \A s \in Slots : ~Carries(s, j)
    BY QuietCarries
  <2>. QED BY <2>1 DEF TimerInv, Covered, Due
<1>3. CronInv => TypeInv
  BY DEF CronInv
<1>. QED BY <1>1, <1>2, <1>3, TimerStep, CronInvariant, PTL DEF Spec

=============================================================================
