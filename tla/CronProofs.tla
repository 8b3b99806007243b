----------------------------- MODULE CronProofs -----------------------------
(***************************************************************************)
(* Proofs about the cron engine, for any number of jobs, conversations,    *)
(* overlapping tasks, edits and faults.                                    *)
(***************************************************************************)
EXTENDS Cron, TLAPS

-----------------------------------------------------------------------------
(* Types                                                                    *)

\* The stages in which a task works on a job it has loaded.
Loaded == Pcs \ {"idle", "tick", "delete", "cascade", "cdel", "list", "loop"}

\* What a task has at hand at each of its stages.
TaskOK(x) ==
    /\ x.pc \in Loaded => x.copy \in Job
    /\ x.pc \in Loaded \cup {"tick", "delete"} => x.job \in Jobs
    /\ x.pc \in {"spawned", "run", "cascade", "cdel"} => x.conv \in Convs

TaskInv == \A s \in Slots : TaskOK(task[s])

\* The jobs the code makes of a job are jobs.
LEMMA JobFields ==
    /\ \A x \in Job : /\ x.enabled \in BOOLEAN /\ x.kind \in Kinds /\ x.next \in BOOLEAN
                      /\ x.mode \in Modes /\ x.conv \in Convs \cup {NoConv}
                      /\ x.retry \in Nat /\ x.max \in Nat
                      /\ TimerOf(x) \in {"none", "at", "every"}
                      /\ [x EXCEPT !.retry = 0] \in Job
                      /\ \A n \in Nat : [x EXCEPT !.retry = n] \in Job
                      /\ \A c \in Convs \cup {NoConv} :
                            [x EXCEPT !.retry = 0, !.conv = c] \in Job
    /\ \A x \in Job, y \in Job : AdvancedRow(x, y) \in Job
    /\ \A x \in Job : Advanced(x) \in Job
<1>1. \A k \in Kinds : NextRun(k) \in BOOLEAN
  BY DEF NextRun
<1>. QED
  BY <1>1 DEF Job, TimerOf, Advanced, AdvancedRow

\* What ScheduleJob gives a timer.
LEMMA TimerTypes == \A x \in Job : TimerOf(x) \in {"none", "at", "every"}
  BY DEF TimerOf

\* What a request makes of a job, and what it saves of that in the row.
LEMMA EditedJobs ==
    ASSUME NEW x \in Job, NEW f \in Fields
    PROVE  /\ Edited(x, f) \subseteq Job
           /\ \A y \in Job : Saved(x, y, f) \in Job
<1>1. \A k \in Kinds : NextRun(k) \in BOOLEAN
  BY DEF NextRun
<1>2. Limits \subseteq Nat
  BY CronConstants
<1>3. Edited(x, f) \subseteq Job
  <2>1. CASE f = "name"
    BY <2>1 DEF Edited
  <2>2. CASE f = "enabled"
    <3>1. NextRun(x.kind) \in BOOLEAN
      BY <1>1 DEF Job
    <3>2. Edited(x, f) = {[x EXCEPT !.enabled = b, !.next = NextRun(x.kind)] : b \in BOOLEAN}
      BY <2>2 DEF Edited
    <3>3. \A b \in BOOLEAN : [x EXCEPT !.enabled = b, !.next = NextRun(x.kind)] \in Job
      BY <3>1 DEF Job
    <3>. QED BY <3>2, <3>3
  <2>3. CASE f = "kind"
    <3>1. Edited(x, f) = {[x EXCEPT !.kind = k, !.next = NextRun(k)] : k \in Kinds}
      BY <2>3 DEF Edited
    <3>2. ASSUME NEW k \in Kinds PROVE [x EXCEPT !.kind = k, !.next = NextRun(k)] \in Job
      <4>1. NextRun(k) \in BOOLEAN
        BY <1>1
      <4>. QED BY <4>1 DEF Job
    <3>. QED BY <3>1, <3>2
  <2>4. CASE f = "mode"
    BY <2>4 DEF Edited, Job
  <2>5. CASE f = "max"
    BY <1>2, <2>5 DEF Edited, Job
  <2>. QED BY <2>1, <2>2, <2>3, <2>4, <2>5 DEF Fields
<1>4. ASSUME NEW y \in Job PROVE Saved(x, y, f) \in Job
  BY <1>4 DEF Saved, Fields, Job
<1>. QED BY <1>3, <1>4

\* repo.update keeps the table's type.
LEMMA UpdateRowType ==
    ASSUME TypeOK, NEW j, NEW ok, NEW new, UpdateRow(j, ok, new),
           j \in Jobs /\ Exists(j) => new \in Job \cup {Fresh, Gone}
    PROVE  rows' \in [Jobs -> Job \cup {Fresh, Gone}]
  BY DEF UpdateRow, TypeOK

\* A row that exists is a job.
LEMMA ExistingRow ==
    ASSUME TypeOK, NEW j \in Jobs, Exists(j)
    PROVE  rows[j] \in Job
  BY DEF TypeOK, Exists

\* Moving a task to another stage keeps its type.
LEMMA TaskTypes ==
    /\ Idle \in Task /\ TaskOK(Idle)
    /\ \A x \in Task : /\ x.pc \in Pcs /\ x.op \in Ops /\ x.job \in Jobs \cup {NoJob}
                       /\ x.copy \in Job \cup {NoRow} /\ x.conv \in Convs \cup {NoConv}
                       /\ x.field \in Fields /\ x.batch \in SUBSET (Jobs \X Job)
                       /\ \A p \in Pcs : [x EXCEPT !.pc = p] \in Task
    /\ \A x \in Task, p \in Pcs : TaskOK(x) /\ (p \in Loaded => x.pc \in Loaded)
          /\ p \notin {"tick", "delete", "spawned", "run", "cascade"}
          /\ (p = "cdel" => x.pc = "cascade")
          => TaskOK([x EXCEPT !.pc = p])
<1>1. Idle \in Task
  BY DEF Idle, Task, Pcs, Ops, Fields
<1>2. TaskOK(Idle)
  BY DEF Idle, TaskOK, Loaded
<1>3. \A x \in Task : /\ x.pc \in Pcs /\ x.op \in Ops /\ x.job \in Jobs \cup {NoJob}
                     /\ x.copy \in Job \cup {NoRow} /\ x.conv \in Convs \cup {NoConv}
                     /\ x.field \in Fields /\ x.batch \in SUBSET (Jobs \X Job)
                     /\ \A p \in Pcs : [x EXCEPT !.pc = p] \in Task
  BY DEF Task
<1>4. ASSUME NEW x \in Task, NEW p \in Pcs, TaskOK(x), p \in Loaded => x.pc \in Loaded,
             p \notin {"tick", "delete", "spawned", "run", "cascade"}, p = "cdel" => x.pc = "cascade"
      PROVE  TaskOK([x EXCEPT !.pc = p])
  <2>1. /\ [x EXCEPT !.pc = p].pc = p /\ [x EXCEPT !.pc = p].copy = x.copy
        /\ [x EXCEPT !.pc = p].job = x.job /\ [x EXCEPT !.pc = p].conv = x.conv
    BY DEF Task
  <2>. QED BY <1>4, <2>1 DEF TaskOK
<1>. QED BY <1>1, <1>2, <1>3, <1>4

\* The types, with what the tasks have at hand.
TypeInv == TypeOK /\ TaskInv

\* A task in good order is put into a slot.
LEMMA PutTask ==
    ASSUME TypeInv, NEW s \in Slots, NEW x \in Task, TaskOK(x), task' = [task EXCEPT ![s] = x]
    PROVE  task' \in [Slots -> Task] /\ TaskInv'
  BY DEF TypeInv, TypeOK, TaskInv

\* A task goes on to a stage that needs nothing it does not have.
LEMMA GotoTask ==
    ASSUME TypeInv, NEW s \in Slots, NEW p \in Pcs, Goto(s, p),
           p \in Loaded => task[s].pc \in Loaded,
           p \notin {"tick", "delete", "spawned", "run", "cascade"},
           p = "cdel" => task[s].pc = "cascade"
    PROVE  task' \in [Slots -> Task] /\ TaskInv'
<1>1. task[s] \in Task /\ TaskOK(task[s])
  BY DEF TypeInv, TypeOK, TaskInv
<1>2. [task[s] EXCEPT !.pc = p] \in Task /\ TaskOK([task[s] EXCEPT !.pc = p])
  BY <1>1, TaskTypes
<1>3. task' = [task EXCEPT ![s] = [task[s] EXCEPT !.pc = p]]
  BY DEF Goto
<1>. QED BY <1>2, <1>3, PutTask

\* A task ends.
LEMMA FinishTask ==
    ASSUME TypeInv, NEW s \in Slots, Finish(s)
    PROVE  task' \in [Slots -> Task] /\ TaskInv'
  BY PutTask, TaskTypes DEF Finish

\* A task starts.
LEMMA StartTask ==
    ASSUME TypeInv, NEW s \in Slots, NEW x \in Task, TaskOK(x), Start(s, x)
    PROVE  task' \in [Slots -> Task] /\ TaskInv'
  BY PutTask DEF Start

\* A task returns to its snapshot.
LEMMA BackTask ==
    ASSUME TypeInv, NEW s \in Slots, BackToLoop(s, task)
    PROVE  task' \in [Slots -> Task] /\ TaskInv'
<1> DEFINE x == [task[s] EXCEPT !.pc = "loop", !.job = NoJob, !.copy = NoRow]
<1>1. task[s] \in Task
  BY DEF TypeInv, TypeOK
<1>2. x \in Task /\ x.pc = "loop"
  BY <1>1 DEF Task, Pcs
<1>3. TaskOK(x)
  BY <1>2 DEF TaskOK, Loaded
<1>4. task' = [task EXCEPT ![s] = x]
  BY DEF BackToLoop
<1> HIDE DEF x
<1>. QED BY <1>2, <1>3, <1>4, PutTask

\* A task takes a job out of its snapshot.
LEMMA TakeEntry ==
    ASSUME TypeInv, NEW s \in Slots, NEW e, task' = [task EXCEPT ![s].batch = @ \ {e}]
    PROVE  task' \in [Slots -> Task] /\ TaskInv'
<1> DEFINE x == [task[s] EXCEPT !.batch = @ \ {e}]
<1>1. task[s] \in Task /\ TaskOK(task[s])
  BY DEF TypeInv, TypeOK, TaskInv
<1>2. /\ x \in Task /\ x.pc = task[s].pc /\ x.job = task[s].job
      /\ x.copy = task[s].copy /\ x.conv = task[s].conv
  BY <1>1 DEF Task
<1>3. TaskOK(x)
  BY <1>1, <1>2 DEF TaskOK
<1>4. task' = [task EXCEPT ![s] = x]
  OBVIOUS
<1> HIDE DEF x
<1>. QED BY <1>2, <1>3, <1>4, PutTask

\* The history and the counters keep their types.
LEMMA CountTypes ==
    ASSUME TypeOK
    PROVE  /\ \A ok : CountFault(ok) => faults' \in Nat
           /\ Track => unsure' \subseteq Jobs
           /\ ClientStep => edits' \in Nat
  BY DEF TypeOK, CountFault, Track, ClientStep

\* Every step of every task keeps the types.
LEMMA TypeStep == TypeInv /\ [Next]_vars => TypeInv'
<1> SUFFICES ASSUME TypeInv, [Next]_vars PROVE TypeInv'
  OBVIOUS
<1> USE CountTypes DEF TypeInv
<1>1. ASSUME NEW s \in Slots, NEW j \in Jobs, NEW k \in Kinds, NEW m \in NewModes,
             NEW c \in Convs \cup {NoConv}, AddJob(s, j, k, m, c)
      PROVE  TypeInv'
  <2> DEFINE job == [enabled |-> TRUE, kind |-> k, next |-> NextRun(k), mode |-> m, conv |-> c,
                     retry |-> 0, max |-> DefaultMax]
             x == [Idle EXCEPT !.op = "add", !.pc = "timer", !.job = j, !.copy = job]
  <2>1. job \in Job
    BY CronConstants DEF Job, Modes, NextRun
  <2> HIDE DEF job
  <2>2. x \in Task /\ TaskOK(x)
    BY <2>1 DEF Idle, Task, TaskOK, Loaded, Pcs, Ops, Fields
  <2>3. Start(s, x) /\ rows' = [rows EXCEPT ![j] = job] /\ UNCHANGED <<timers, busy, convs, edits, faults>>
        /\ Track
    BY <1>1 DEF AddJob, job
  <2> HIDE DEF x
  <2>4. task' \in [Slots -> Task] /\ TaskInv'
    BY <2>2, <2>3 DEF Start, TypeOK, TaskInv
  <2>. QED BY <2>1, <2>3, <2>4 DEF TypeOK
<1>2. ASSUME NEW s \in Slots, NEW j \in Jobs, NEW f \in Fields, UpdateJob(s, j, f)
      PROVE  TypeInv'
  <2>1. PICK job \in Edited(rows[j], f) :
            Start(s, [Idle EXCEPT !.op = "update", !.pc = "write", !.job = j,
                                  !.copy = job, !.field = f])
    BY <1>2 DEF UpdateJob
  <2>2. job \in Job
    BY <1>2, <2>1, ExistingRow, EditedJobs DEF UpdateJob
  <2> DEFINE x == [Idle EXCEPT !.op = "update", !.pc = "write", !.job = j, !.copy = job, !.field = f]
  <2>3. x \in Task /\ TaskOK(x)
    BY <2>2 DEF Idle, Task, TaskOK, Loaded, Pcs, Ops, Fields
  <2>4. task' \in [Slots -> Task] /\ TaskInv'
    BY <2>1, <2>3, StartTask
  <2>. QED BY <1>2, <2>4 DEF UpdateJob, TypeOK
<1>3. ASSUME NEW s \in Slots, UpdateWrite(s) PROVE TypeInv'
  <2>0. task[s] \in Task /\ TaskOK(task[s])
    BY DEF TypeOK, TaskInv
  <2>1. task[s].job \in Jobs /\ task[s].copy \in Job /\ task[s].field \in Fields
    BY <1>3, <2>0, TaskTypes DEF UpdateWrite, TaskOK, Loaded, Pcs
  <2>2. PICK ok \in DbOutcomes :
            /\ CountFault(ok)
            /\ UpdateRow(task[s].job, ok, Saved(rows[task[s].job], task[s].copy, task[s].field))
            /\ IF ok /\ Exists(task[s].job) THEN Goto(s, "timer") ELSE Finish(s)
    BY <1>3 DEF UpdateWrite
  <2>3. task' \in [Slots -> Task] /\ TaskInv'
    BY <1>3, <2>2, GotoTask, FinishTask DEF UpdateWrite, Loaded, Pcs
  <2>4. rows' \in [Jobs -> Job \cup {Fresh, Gone}]
    BY <2>1, <2>2, UpdateRowType, ExistingRow, EditedJobs
  <2>. QED BY <1>3, <2>2, <2>3, <2>4 DEF UpdateWrite, TypeOK
<1>4. ASSUME NEW s \in Slots, UpdateTimer(s) PROVE TypeInv'
  <2>0. task[s] \in Task /\ TaskOK(task[s])
    BY DEF TypeOK, TaskInv
  <2>1. task[s].job \in Jobs /\ task[s].copy \in Job
    BY <1>4, <2>0 DEF UpdateTimer, TaskOK, Loaded, Pcs
  <2>2. task' \in [Slots -> Task] /\ TaskInv'
    BY <1>4, FinishTask DEF UpdateTimer
  <2>. QED BY <1>4, <2>1, <2>2, JobFields DEF UpdateTimer, ScheduleJob, TypeOK
<1>5. ASSUME NEW s \in Slots, NEW j \in Jobs, RemoveJob(s, j) PROVE TypeInv'
  <2>1. [Idle EXCEPT !.op = "remove", !.pc = "delete", !.job = j] \in Task /\ TaskOK([Idle EXCEPT !.op = "remove", !.pc = "delete", !.job = j])
    BY <1>5 DEF Idle, Task, TaskOK, Loaded, Pcs, Ops, Fields
  <2>2. task' \in [Slots -> Task] /\ TaskInv'
    BY <1>5, <2>1, StartTask DEF RemoveJob
  <2>. QED BY <1>5, <2>2 DEF RemoveJob, TypeOK, CancelJob
<1>6. ASSUME NEW s \in Slots, RemoveDelete(s) PROVE TypeInv'
  <2>1. task' \in [Slots -> Task] /\ TaskInv'
    BY <1>6, FinishTask DEF RemoveDelete
  <2>. QED BY <1>6, <2>1, UpdateRowType DEF RemoveDelete, TypeOK
<1>7. ASSUME NEW s \in Slots, NEW c \in Convs, DeleteConversation(s, c) PROVE TypeInv'
  <2>1. [Idle EXCEPT !.op = "cascade", !.pc = "cascade", !.conv = c] \in Task /\ TaskOK([Idle EXCEPT !.op = "cascade", !.pc = "cascade", !.conv = c])
    BY <1>7 DEF Idle, Task, TaskOK, Loaded, Pcs, Ops, Fields
  <2>2. task' \in [Slots -> Task] /\ TaskInv'
    BY <1>7, <2>1, StartTask DEF DeleteConversation
  <2>. QED BY <1>7, <2>2 DEF DeleteConversation, TypeOK
<1>8. ASSUME NEW s \in Slots, CascadeCancel(s) PROVE TypeInv'
  <2>1. task' \in [Slots -> Task] /\ TaskInv'
    BY <1>8, FinishTask, GotoTask DEF CascadeCancel, Loaded, Pcs
  <2>2. timers' \in [Jobs -> {"none", "at", "every"}]
    BY <1>8 DEF CascadeCancel, TypeOK
  <2>. QED BY <1>8, <2>1, <2>2 DEF CascadeCancel, TypeOK
<1>9. ASSUME NEW s \in Slots, CascadeDelete(s) PROVE TypeInv'
  <2>1. task' \in [Slots -> Task] /\ TaskInv'
    BY <1>9, FinishTask DEF CascadeDelete
  <2>. QED BY <1>9, <2>1 DEF CascadeDelete, TypeOK
<1>10. ASSUME NEW s \in Slots, NEW j \in Jobs, Fire(s, j) PROVE TypeInv'
  <2>1. [Idle EXCEPT !.op = "tick", !.pc = "tick", !.job = j] \in Task /\ TaskOK([Idle EXCEPT !.op = "tick", !.pc = "tick", !.job = j])
    BY <1>10 DEF Idle, Task, TaskOK, Loaded, Pcs, Ops, Fields
  <2>2. task' \in [Slots -> Task] /\ TaskInv'
    BY <1>10, <2>1, StartTask DEF Fire
  <2>. QED BY <1>10, <2>2 DEF Fire, TypeOK
<1>11. ASSUME NEW s \in Slots, Tick(s) PROVE TypeInv'
  <2>0. task[s] \in Task /\ TaskOK(task[s])
    BY DEF TypeOK, TaskInv
  <2>1. task[s].job \in Jobs
    BY <1>11, <2>0 DEF Tick, TaskOK
  <2>2. task' \in [Slots -> Task] /\ TaskInv'
    <3>1. CASE Finish(s)
      BY <3>1, FinishTask
    <3>2. ASSUME Exists(task[s].job), NEW p \in {"prepare", "retry", "skip"},
                 task' = [task EXCEPT ![s].copy = rows[task[s].job], ![s].pc = p]
          PROVE  task' \in [Slots -> Task] /\ TaskInv'
      <4> DEFINE x == [task[s] EXCEPT !.copy = rows[task[s].job], !.pc = p]
      <4>1. rows[task[s].job] \in Job
        BY <2>1, <3>2, ExistingRow
      <4>2. x \in Task
        BY <2>0, <3>2, <4>1 DEF Task, Pcs
      <4>3. x.copy = rows[task[s].job] /\ x.job = task[s].job /\ x.pc = p
        BY <2>0 DEF Task
      <4>4. TaskOK(x)
        BY <2>1, <3>2, <4>1, <4>3 DEF TaskOK
      <4>5. task' = [task EXCEPT ![s] = x]
        BY <3>2
      <4> HIDE DEF x
      <4>. QED BY <4>2, <4>4, <4>5, PutTask
    <3>. QED BY <1>11, <3>1, <3>2 DEF Tick, HandleBusy
  <2>3. timers' \in [Jobs -> {"none", "at", "every"}]
    BY <1>11 DEF Tick, CancelJob, TypeOK
  <2>. QED BY <1>11, <2>2, <2>3 DEF Tick, TypeOK
<1>12. ASSUME NEW s \in Slots, NEW j \in Jobs, RunNow(s, j) PROVE TypeInv'
  <2>1. [Idle EXCEPT !.op = "now", !.pc = "prepare", !.job = j, !.copy = rows[j]] \in Task /\ TaskOK([Idle EXCEPT !.op = "now", !.pc = "prepare", !.job = j, !.copy = rows[j]])
    BY <1>12, ExistingRow DEF RunNow, Idle, Task, TaskOK, Loaded, Pcs, Ops, Fields
  <2>2. task' \in [Slots -> Task] /\ TaskInv'
    BY <1>12, <2>1, StartTask DEF RunNow
  <2>. QED BY <1>12, <2>2 DEF RunNow, TypeOK
<1>13. ASSUME NEW s \in Slots, Prepare(s) PROVE TypeInv'
  <2>0. task[s] \in Task /\ TaskOK(task[s])
    BY DEF TypeOK, TaskInv
  <2>1. task[s].copy \in Job /\ task[s].job \in Jobs
    BY <1>13, <2>0 DEF Prepare, TaskOK, Loaded, Pcs
  <2>2. PICK c \in Targets(task[s].copy), p \in {"run", "spawned"} :
            /\ convs' = [convs EXCEPT ![c] = "live"]
            /\ busy' = busy \cup {c} \/ UNCHANGED busy
            /\ task' = [task EXCEPT ![s].pc = p, ![s].conv = c]
    BY <1>13 DEF Prepare
  <2>3. c \in Convs
    BY <2>1, <2>2, JobFields DEF Targets
  <2> DEFINE x == [task[s] EXCEPT !.pc = p, !.conv = c]
  <2>4. x \in Task /\ x.pc = p /\ x.conv = c /\ x.job = task[s].job /\ x.copy = task[s].copy
    BY <2>0, <2>2, <2>3 DEF Task, Pcs
  <2>5. TaskOK(x)
    BY <2>1, <2>3, <2>4 DEF TaskOK
  <2>6. task' = [task EXCEPT ![s] = x]
    BY <2>2
  <2>7. task' \in [Slots -> Task] /\ TaskInv'
    <3> HIDE DEF x
    <3>. QED BY <2>4, <2>5, <2>6, PutTask
  <2>. QED BY <1>13, <2>2, <2>3, <2>7 DEF Prepare, TypeOK
<1>14. ASSUME NEW s \in Slots, PrepareFails(s) PROVE TypeInv'
  <2>1. task' \in [Slots -> Task] /\ TaskInv'
    BY <1>14, GotoTask, FinishTask DEF PrepareFails, Loaded, Pcs
  <2>. QED BY <1>14, <2>1 DEF PrepareFails, TypeOK
<1>15. ASSUME NEW s \in Slots, ExecutePrepared(s) PROVE TypeInv'
  <2>0. task[s] \in Task /\ TaskOK(task[s])
    BY DEF TypeOK, TaskInv
  <2> DEFINE x == [task[s] EXCEPT !.pc = "run"]
  <2>1. x \in Task /\ x.pc = "run" /\ x.conv = task[s].conv /\ x.job = task[s].job /\ x.copy = task[s].copy
    BY <2>0 DEF Task, Pcs
  <2>2. TaskOK(x) /\ task[s].conv \in Convs
    BY <1>15, <2>0, <2>1 DEF TaskOK, Loaded, Pcs, ExecutePrepared
  <2>3. task' = [task EXCEPT ![s] = x]
    BY <1>15 DEF ExecutePrepared, Goto
  <2>4. task' \in [Slots -> Task] /\ TaskInv'
    <3> HIDE DEF x
    <3>. QED BY <2>1, <2>2, <2>3, PutTask
  <2>. QED BY <1>15, <2>2, <2>4 DEF ExecutePrepared, TypeOK
<1>16. ASSUME NEW s \in Slots, ExecuteInner(s) PROVE TypeInv'
  <2>1. task' \in [Slots -> Task] /\ TaskInv'
    BY <1>16, GotoTask DEF ExecuteInner, Loaded, Pcs
  <2>. QED BY <1>16, <2>1 DEF ExecuteInner, TypeOK
<1>17. ASSUME NEW s \in Slots, ReadResult(s) PROVE TypeInv'
  <2>0. task[s] \in Task /\ TaskOK(task[s])
    BY DEF TypeOK, TaskInv
  <2>1. task[s].copy \in Job /\ task[s].job \in Jobs
    BY <1>17, <2>0 DEF ReadResult, TaskOK, Loaded, Pcs
  <2>2. task' \in [Slots -> Task] /\ TaskInv'
    <3>1. CASE AfterRun(s)
      BY <1>17, <3>1, GotoTask, FinishTask DEF ReadResult, AfterRun, Loaded, Pcs
    <3>2. ASSUME NEW p \in {"saveok", "saveerr"}, NEW c \in Convs \cup {NoConv},
                 task' = [task EXCEPT ![s].pc = p, ![s].conv = c]
          PROVE  task' \in [Slots -> Task] /\ TaskInv'
      <4> DEFINE x == [task[s] EXCEPT !.pc = p, !.conv = c]
      <4>1. x \in Task /\ x.pc = p /\ x.job = task[s].job /\ x.copy = task[s].copy
        BY <2>0, <3>2 DEF Task, Pcs
      <4>2. TaskOK(x)
        BY <2>1, <4>1 DEF TaskOK
      <4>3. task' = [task EXCEPT ![s] = x]
        BY <3>2
      <4> HIDE DEF x
      <4>. QED BY <4>1, <4>2, <4>3, PutTask
    <3>3. task[s].conv \in Convs \cup {NoConv}
      BY <2>0, TaskTypes
    <3>4. ASSUME task' = [task EXCEPT
                      ![s].pc = IF @ = "ok" THEN "saveok" ELSE "saveerr",
                      ![s].conv = IF task[s].pc = "ok" /\ rows[task[s].job].conv = NoConv
                                  THEN @ ELSE NoConv]
          PROVE  task' \in [Slots -> Task] /\ TaskInv'
      BY <3>2, <3>3, <3>4
    <3>. QED BY <1>17, <3>1, <3>4 DEF ReadResult
  <2>. QED BY <1>17, <2>2 DEF ReadResult, TypeOK
<1>18. ASSUME NEW s \in Slots, SaveResult(s) PROVE TypeInv'
  <2>0. task[s] \in Task /\ TaskOK(task[s])
    BY DEF TypeOK, TaskInv
  <2>1. task[s].job \in Jobs /\ task[s].copy \in Job /\ task[s].conv \in Convs \cup {NoConv}
    BY <1>18, <2>0, TaskTypes DEF SaveResult, TaskOK, Loaded, Pcs
  <2>2. PICK ok \in DbOutcomes :
            /\ CountFault(ok)
            /\ UpdateRow(task[s].job, ok,
                  [rows[task[s].job] EXCEPT !.retry = 0,
                         !.conv = IF task[s].conv = NoConv THEN @ ELSE task[s].conv])
    BY <1>18 DEF SaveResult
  <2>3. task' \in [Slots -> Task] /\ TaskInv'
    BY <1>18, GotoTask, FinishTask DEF SaveResult, AfterRun, Loaded, Pcs
  <2>4. Exists(task[s].job) =>
          [rows[task[s].job] EXCEPT !.retry = 0,
                         !.conv = IF task[s].conv = NoConv THEN @ ELSE task[s].conv] \in Job
    BY <2>1, ExistingRow, JobFields
  <2>5. rows' \in [Jobs -> Job \cup {Fresh, Gone}]
    BY <2>1, <2>2, <2>4, UpdateRowType
  <2>. QED BY <1>18, <2>2, <2>3, <2>5 DEF SaveResult, TypeOK
<1>19. ASSUME NEW s \in Slots, SaveRetry(s) PROVE TypeInv'
  <2>0. task[s] \in Task /\ TaskOK(task[s])
    BY DEF TypeOK, TaskInv
  <2>1. task[s].job \in Jobs /\ task[s].copy \in Job /\ task[s].conv \in Convs \cup {NoConv}
    BY <1>19, <2>0, TaskTypes DEF SaveRetry, TaskOK, Loaded, Pcs
  <2>2. PICK ok \in DbOutcomes :
            /\ CountFault(ok)
            /\ UpdateRow(task[s].job, ok,
                  [rows[task[s].job] EXCEPT !.retry = task[s].copy.retry + 1])
    BY <1>19 DEF SaveRetry
  <2>3. task' \in [Slots -> Task] /\ TaskInv'
    BY <1>19, GotoTask, FinishTask DEF SaveRetry, AfterRun, Loaded, Pcs
  <2>4. Exists(task[s].job) =>
          [rows[task[s].job] EXCEPT !.retry = task[s].copy.retry + 1] \in Job
    <3>1. task[s].copy.retry + 1 \in Nat
      BY <2>1 DEF Job
    <3>. QED BY <2>1, <3>1, ExistingRow, JobFields
  <2>5. rows' \in [Jobs -> Job \cup {Fresh, Gone}]
    BY <2>1, <2>2, <2>4, UpdateRowType
  <2>. QED BY <1>19, <2>2, <2>3, <2>5 DEF SaveRetry, TypeOK
<1>20. ASSUME NEW s \in Slots, ScheduleRetry(s) PROVE TypeInv'
  <2>1. task' \in [Slots -> Task] /\ TaskInv'
    BY <1>20, FinishTask DEF ScheduleRetry
  <2>. QED BY <1>20, <2>1 DEF ScheduleRetry, TypeOK
<1>21. ASSUME NEW s \in Slots, SaveSkipped(s) PROVE TypeInv'
  <2>0. task[s] \in Task /\ TaskOK(task[s])
    BY DEF TypeOK, TaskInv
  <2>1. task[s].job \in Jobs /\ task[s].copy \in Job /\ task[s].conv \in Convs \cup {NoConv}
    BY <1>21, <2>0, TaskTypes DEF SaveSkipped, TaskOK, Loaded, Pcs
  <2>2. PICK ok \in DbOutcomes :
            /\ CountFault(ok)
            /\ UpdateRow(task[s].job, ok,
                  [rows[task[s].job] EXCEPT !.retry = 0])
    BY <1>21 DEF SaveSkipped
  <2>3. task' \in [Slots -> Task] /\ TaskInv'
    BY <1>21, GotoTask, FinishTask DEF SaveSkipped, AfterRun, Loaded, Pcs
  <2>4. Exists(task[s].job) =>
          [rows[task[s].job] EXCEPT !.retry = 0] \in Job
    BY <2>1, ExistingRow, JobFields
  <2>5. rows' \in [Jobs -> Job \cup {Fresh, Gone}]
    BY <2>1, <2>2, <2>4, UpdateRowType
  <2>. QED BY <1>21, <2>2, <2>3, <2>5 DEF SaveSkipped, TypeOK
<1>22. ASSUME NEW s \in Slots, Reschedule(s) PROVE TypeInv'
  <2>0. task[s] \in Task /\ TaskOK(task[s])
    BY DEF TypeOK, TaskInv
  <2>1. task[s].job \in Jobs /\ task[s].copy \in Job
    BY <1>22, <2>0 DEF Reschedule, TaskOK, Loaded, Pcs
  <2>2. PICK ok \in DbOutcomes :
            /\ CountFault(ok)
            /\ UpdateRow(task[s].job, ok, AdvancedRow(rows[task[s].job], task[s].copy))
    BY <1>22 DEF Reschedule
  <2>3. rows' \in [Jobs -> Job \cup {Fresh, Gone}]
    BY <2>1, <2>2, UpdateRowType, ExistingRow, JobFields
  <2>4. ASSUME NEW p \in {"retimer", "missedtimer"},
               task' = [task EXCEPT ![s].pc = p, ![s].copy = Advanced(task[s].copy)]
        PROVE  task' \in [Slots -> Task] /\ TaskInv'
    <3> DEFINE x == [task[s] EXCEPT !.pc = p, !.copy = Advanced(task[s].copy)]
    <3>1. Advanced(task[s].copy) \in Job
      BY <2>1, JobFields
    <3>2. x \in Task /\ x.pc = p /\ x.job = task[s].job /\ x.copy = Advanced(task[s].copy)
      BY <2>0, <2>4, <3>1 DEF Task, Pcs
    <3>3. TaskOK(x)
      BY <2>1, <3>1, <3>2 DEF TaskOK
    <3>4. task' = [task EXCEPT ![s] = x]
      BY <2>4
    <3> HIDE DEF x
    <3>. QED BY <3>2, <3>3, <3>4, PutTask
  <2>5. task' \in [Slots -> Task] /\ TaskInv'
    BY <1>22, <2>4 DEF Reschedule
  <2>. QED BY <1>22, <2>2, <2>3, <2>5 DEF Reschedule, TypeOK
<1>23. ASSUME NEW s \in Slots, RescheduleTimer(s) PROVE TypeInv'
  <2>0. task[s] \in Task /\ TaskOK(task[s])
    BY DEF TypeOK, TaskInv
  <2>1. task[s].job \in Jobs /\ task[s].copy \in Job
    BY <1>23, <2>0 DEF RescheduleTimer, TaskOK, Loaded, Pcs
  <2>2. task' \in [Slots -> Task] /\ TaskInv'
    BY <1>23, FinishTask DEF RescheduleTimer
  <2>. QED BY <1>23, <2>1, <2>2, JobFields DEF RescheduleTimer, ScheduleJob, TypeOK
<1>24. ASSUME NEW s \in Slots, SystemResume(s) PROVE TypeInv'
  <2>1. [Idle EXCEPT !.op = "resume", !.pc = "list"] \in Task /\ TaskOK([Idle EXCEPT !.op = "resume", !.pc = "list"])
    BY <1>24 DEF Idle, Task, TaskOK, Loaded, Pcs, Ops, Fields
  <2>2. task' \in [Slots -> Task] /\ TaskInv'
    BY <1>24, <2>1, StartTask DEF SystemResume
  <2>. QED BY <1>24, <2>2 DEF SystemResume, TypeOK
<1>25. ASSUME NEW s \in Slots, Restart(s) PROVE TypeInv'
  <2>1. [Idle EXCEPT !.op = "init", !.pc = "list"] \in Task
        /\ TaskOK([Idle EXCEPT !.op = "init", !.pc = "list"])
    BY DEF Idle, Task, TaskOK, Loaded, Pcs, Ops, Fields
  <2>2. task' \in [Slots -> Task] /\ TaskInv'
    BY <1>25, <2>1, TaskTypes DEF Restart, TaskInv
  <2>. QED BY <1>25, <2>2 DEF Restart, TypeOK
<1>26. ASSUME NEW s \in Slots, ListEnabled(s) PROVE TypeInv'
  <2>0. task[s] \in Task /\ TaskOK(task[s])
    BY DEF TypeOK, TaskInv
  <2> DEFINE b == {<<j, rows[j]>> : j \in {i \in Jobs : Exists(i) /\ rows[i].enabled}}
             x == [task[s] EXCEPT !.pc = "loop", !.batch = b]
  <2>1. b \in SUBSET (Jobs \X Job)
    BY ExistingRow
  <2>2. x \in Task /\ x.pc = "loop"
    BY <2>0, <2>1 DEF Task, Pcs
  <2>3. TaskOK(x)
    BY <2>2 DEF TaskOK, Loaded
  <2>4. Finish(s) \/ task' = [task EXCEPT ![s] = x]
    BY <1>26 DEF ListEnabled
  <2>5. task' \in [Slots -> Task] /\ TaskInv'
    <3> HIDE DEF x
    <3>. QED BY <2>2, <2>3, <2>4, FinishTask, PutTask
  <2>. QED BY <1>26, <2>5 DEF ListEnabled, TypeOK
<1>27. ASSUME NEW s \in Slots, InitJob(s) PROVE TypeInv'
  <2>0. task[s] \in Task /\ TaskOK(task[s])
    BY DEF TypeOK, TaskInv
  <2>1. \A e \in task[s].batch : e[1] \in Jobs /\ e[2] \in Job
    BY <2>0, TaskTypes
  <2>2. task' \in [Slots -> Task] /\ TaskInv'
    BY <1>27, TakeEntry DEF InitJob
  <2>3. rows' \in [Jobs -> Job \cup {Fresh, Gone}] /\ faults' \in Nat
    BY <1>27, UpdateRowType DEF InitJob, TypeOK
  <2>4. timers' \in [Jobs -> {"none", "at", "every"}]
    BY <1>27, <2>1, TimerTypes DEF InitJob, ScheduleJob, TypeOK
  <2>. QED BY <1>27, <2>2, <2>3, <2>4 DEF InitJob, TypeOK
<1>28. ASSUME NEW s \in Slots, ResumeJob(s) PROVE TypeInv'
  <2>0. task[s] \in Task /\ TaskOK(task[s])
    BY DEF TypeOK, TaskInv
  <2>1. \A e \in task[s].batch : e[1] \in Jobs /\ e[2] \in Job
    BY <2>0, TaskTypes
  <2>2. task' \in [Slots -> Task] /\ TaskInv'
    BY <1>28, TakeEntry DEF ResumeJob
  <2>4. timers' \in [Jobs -> {"none", "at", "every"}]
    BY <1>28, <2>1, TimerTypes DEF ResumeJob, ScheduleJob, TypeOK
  <2>. QED BY <1>28, <2>2, <2>4 DEF ResumeJob, TypeOK
<1>29. ASSUME NEW s \in Slots, ResumeMissed(s) PROVE TypeInv'
  <2>0. task[s] \in Task /\ TaskOK(task[s])
    BY DEF TypeOK, TaskInv
  <2>1. PICK e \in task[s].batch :
            task' = [task EXCEPT ![s].batch = @ \ {e}, ![s].pc = "missed",
                                 ![s].job = e[1], ![s].copy = e[2]]
    BY <1>29 DEF ResumeMissed
  <2>2. e[1] \in Jobs /\ e[2] \in Job
    BY <2>0, <2>1, TaskTypes
  <2> DEFINE x == [task[s] EXCEPT !.batch = @ \ {e}, !.pc = "missed", !.job = e[1], !.copy = e[2]]
  <2>3. x \in Task /\ x.pc = "missed" /\ x.job = e[1] /\ x.copy = e[2]
    BY <2>0, <2>2 DEF Task, Pcs
  <2>4. TaskOK(x)
    BY <2>2, <2>3 DEF TaskOK
  <2>5. task' = [task EXCEPT ![s] = x]
    BY <2>1
  <2>6. task' \in [Slots -> Task] /\ TaskInv'
    <3> HIDE DEF x
    <3>. QED BY <2>3, <2>4, <2>5, PutTask
  <2>. QED BY <1>29, <2>6 DEF ResumeMissed, TypeOK
<1>30. ASSUME NEW s \in Slots, RecordMissed(s) PROVE TypeInv'
  <2>0. task[s] \in Task /\ TaskOK(task[s])
    BY DEF TypeOK, TaskInv
  <2>1. task[s].job \in Jobs /\ task[s].copy \in Job /\ task[s].conv \in Convs \cup {NoConv}
    BY <1>30, <2>0, TaskTypes DEF RecordMissed, TaskOK, Loaded, Pcs
  <2>2. PICK ok \in DbOutcomes :
            /\ CountFault(ok)
            /\ UpdateRow(task[s].job, ok,
                  [rows[task[s].job] EXCEPT !.retry = 0])
    BY <1>30 DEF RecordMissed
  <2>3. task' \in [Slots -> Task] /\ TaskInv'
    BY <1>30, GotoTask, FinishTask DEF RecordMissed, AfterRun, Loaded, Pcs
  <2>4. Exists(task[s].job) =>
          [rows[task[s].job] EXCEPT !.retry = 0] \in Job
    BY <2>1, ExistingRow, JobFields
  <2>5. rows' \in [Jobs -> Job \cup {Fresh, Gone}]
    BY <2>1, <2>2, <2>4, UpdateRowType
  <2>. QED BY <1>30, <2>2, <2>3, <2>5 DEF RecordMissed, TypeOK
<1>31. ASSUME NEW s \in Slots, AdvanceMissed(s) PROVE TypeInv'
  <2>0. task[s] \in Task /\ TaskOK(task[s])
    BY DEF TypeOK, TaskInv
  <2>1. task[s].job \in Jobs /\ task[s].copy \in Job
    BY <1>31, <2>0 DEF AdvanceMissed, TaskOK, Loaded, Pcs
  <2>2. PICK ok \in DbOutcomes :
            /\ CountFault(ok)
            /\ UpdateRow(task[s].job, ok, AdvancedRow(rows[task[s].job], task[s].copy))
    BY <1>31 DEF AdvanceMissed
  <2>3. rows' \in [Jobs -> Job \cup {Fresh, Gone}]
    BY <2>1, <2>2, UpdateRowType, ExistingRow, JobFields
  <2>4. ASSUME NEW p \in {"retimer", "missedtimer"},
               task' = [task EXCEPT ![s].pc = p, ![s].copy = Advanced(task[s].copy)]
        PROVE  task' \in [Slots -> Task] /\ TaskInv'
    <3> DEFINE x == [task[s] EXCEPT !.pc = p, !.copy = Advanced(task[s].copy)]
    <3>1. Advanced(task[s].copy) \in Job
      BY <2>1, JobFields
    <3>2. x \in Task /\ x.pc = p /\ x.job = task[s].job /\ x.copy = Advanced(task[s].copy)
      BY <2>0, <2>4, <3>1 DEF Task, Pcs
    <3>3. TaskOK(x)
      BY <2>1, <3>1, <3>2 DEF TaskOK
    <3>4. task' = [task EXCEPT ![s] = x]
      BY <2>4
    <3> HIDE DEF x
    <3>. QED BY <3>2, <3>3, <3>4, PutTask
  <2>5. task' \in [Slots -> Task] /\ TaskInv'
    BY <1>31, <2>4, BackTask DEF AdvanceMissed
  <2>. QED BY <1>31, <2>2, <2>3, <2>5 DEF AdvanceMissed, TypeOK
<1>32. ASSUME NEW s \in Slots, MissedTimer(s) PROVE TypeInv'
  <2>0. task[s] \in Task /\ TaskOK(task[s])
    BY DEF TypeOK, TaskInv
  <2>1. task[s].job \in Jobs /\ task[s].copy \in Job
    BY <1>32, <2>0 DEF MissedTimer, TaskOK, Loaded, Pcs
  <2>2. task' \in [Slots -> Task] /\ TaskInv'
    BY <1>32, BackTask DEF MissedTimer
  <2>. QED BY <1>32, <2>1, <2>2, JobFields DEF MissedTimer, ScheduleJob, TypeOK
<1>33. ASSUME NEW s \in Slots, LoopEnd(s) PROVE TypeInv'
  <2>1. task' \in [Slots -> Task] /\ TaskInv'
    BY <1>33, FinishTask DEF LoopEnd
  <2>. QED BY <1>33, <2>1 DEF LoopEnd, TypeOK
<1>34. CASE UNCHANGED vars
  BY <1>34 DEF vars, TypeOK, TaskInv
<1>. QED
  BY <1>1, <1>2, <1>3, <1>4, <1>5, <1>6, <1>7, <1>8, <1>9, <1>10, <1>11,
     <1>12, <1>13, <1>14, <1>15, <1>16, <1>17, <1>18, <1>19, <1>20,
     <1>21, <1>22, <1>23, <1>24, <1>25, <1>26, <1>27, <1>28, <1>29,
     <1>30, <1>31, <1>32, <1>33, <1>34 DEF Next, Request, Step

\* The initial state has the types.
LEMMA InitTypes == Init => TypeInv
  BY TaskTypes, CronConstants DEF Init, TypeInv, TypeOK, TaskInv

-----------------------------------------------------------------------------
(* Marks                                                                    *)

\* Every step keeps a mark with the run that will clear it: only the task that
\* runs leaves the stage, and it takes the mark with it.
LEMMA BusyStep == TypeInv /\ BusyHasRun /\ [Next]_vars => BusyHasRun'
<1> SUFFICES ASSUME TypeInv, BusyHasRun, [Next]_vars PROVE BusyHasRun'
  OBVIOUS
<1> USE DEF TypeInv, TypeOK, BusyHasRun
<1>1. ASSUME NEW s \in Slots, NEW j \in Jobs, NEW k \in Kinds, NEW m \in NewModes,
             NEW c \in Convs \cup {NoConv}, AddJob(s, j, k, m, c)
      PROVE  BusyHasRun'
  <2>1. \A t \in Slots \ {s} : task'[t] = task[t]
    BY <1>1 DEF AddJob, Start
  <2>2. task[s].pc # "run"
    BY <1>1 DEF AddJob, Start, Idle
  <2>. QED BY <1>1, <2>1, <2>2 DEF AddJob
<1>2. ASSUME NEW s \in Slots, NEW j \in Jobs, NEW f \in Fields, UpdateJob(s, j, f)
      PROVE  BusyHasRun'
  <2>1. \A t \in Slots \ {s} : task'[t] = task[t]
    BY <1>2 DEF UpdateJob, Start
  <2>2. task[s].pc # "run"
    BY <1>2 DEF UpdateJob, Start, Idle
  <2>. QED BY <1>2, <2>1, <2>2 DEF UpdateJob
<1>3. ASSUME NEW s \in Slots, UpdateWrite(s) PROVE BusyHasRun'
  <2>1. \A t \in Slots \ {s} : task'[t] = task[t]
    BY <1>3 DEF UpdateWrite, Goto, Finish
  <2>2. task[s].pc # "run"
    BY <1>3 DEF UpdateWrite
  <2>. QED BY <1>3, <2>1, <2>2 DEF UpdateWrite
<1>4. ASSUME NEW s \in Slots, UpdateTimer(s) PROVE BusyHasRun'
  <2>1. \A t \in Slots \ {s} : task'[t] = task[t]
    BY <1>4 DEF UpdateTimer, Finish
  <2>2. task[s].pc # "run"
    BY <1>4 DEF UpdateTimer
  <2>. QED BY <1>4, <2>1, <2>2 DEF UpdateTimer
<1>5. ASSUME NEW s \in Slots, NEW j \in Jobs, RemoveJob(s, j) PROVE BusyHasRun'
  <2>1. \A t \in Slots \ {s} : task'[t] = task[t]
    BY <1>5 DEF RemoveJob, Start
  <2>2. task[s].pc # "run"
    BY <1>5 DEF RemoveJob, Start, Idle
  <2>. QED BY <1>5, <2>1, <2>2 DEF RemoveJob
<1>6. ASSUME NEW s \in Slots, RemoveDelete(s) PROVE BusyHasRun'
  <2>1. \A t \in Slots \ {s} : task'[t] = task[t]
    BY <1>6 DEF RemoveDelete, Finish
  <2>2. task[s].pc # "run"
    BY <1>6 DEF RemoveDelete
  <2>. QED BY <1>6, <2>1, <2>2 DEF RemoveDelete
<1>7. ASSUME NEW s \in Slots, NEW c \in Convs, DeleteConversation(s, c)
      PROVE  BusyHasRun'
  <2>1. \A t \in Slots \ {s} : task'[t] = task[t]
    BY <1>7 DEF DeleteConversation, Start
  <2>2. task[s].pc # "run"
    BY <1>7 DEF DeleteConversation, Start, Idle
  <2>. QED BY <1>7, <2>1, <2>2 DEF DeleteConversation
<1>8. ASSUME NEW s \in Slots, CascadeCancel(s) PROVE BusyHasRun'
  <2>1. \A t \in Slots \ {s} : task'[t] = task[t]
    BY <1>8 DEF CascadeCancel, Goto, Finish
  <2>2. task[s].pc # "run"
    BY <1>8 DEF CascadeCancel
  <2>. QED BY <1>8, <2>1, <2>2 DEF CascadeCancel
<1>9. ASSUME NEW s \in Slots, CascadeDelete(s) PROVE BusyHasRun'
  <2>1. \A t \in Slots \ {s} : task'[t] = task[t]
    BY <1>9 DEF CascadeDelete, Finish
  <2>2. task[s].pc # "run"
    BY <1>9 DEF CascadeDelete
  <2>. QED BY <1>9, <2>1, <2>2 DEF CascadeDelete
<1>10. ASSUME NEW s \in Slots, NEW j \in Jobs, Fire(s, j) PROVE BusyHasRun'
  <2>1. \A t \in Slots \ {s} : task'[t] = task[t]
    BY <1>10 DEF Fire, Start
  <2>2. task[s].pc # "run"
    BY <1>10 DEF Fire, Start, Idle
  <2>. QED BY <1>10, <2>1, <2>2 DEF Fire
<1>11. ASSUME NEW s \in Slots, Tick(s) PROVE BusyHasRun'
  <2>1. \A t \in Slots \ {s} : task'[t] = task[t]
    BY <1>11 DEF Tick, Finish
  <2>2. task[s].pc # "run"
    BY <1>11 DEF Tick
  <2>. QED BY <1>11, <2>1, <2>2 DEF Tick
<1>12. ASSUME NEW s \in Slots, NEW j \in Jobs, RunNow(s, j) PROVE BusyHasRun'
  <2>1. \A t \in Slots \ {s} : task'[t] = task[t]
    BY <1>12 DEF RunNow, Start
  <2>2. task[s].pc # "run"
    BY <1>12 DEF RunNow, Start, Idle
  <2>. QED BY <1>12, <2>1, <2>2 DEF RunNow
<1>13. ASSUME NEW s \in Slots, Prepare(s) PROVE BusyHasRun'
  <2>1. \A t \in Slots \ {s} : task'[t] = task[t]
    BY <1>13 DEF Prepare
  <2>2. PICK c \in Targets(task[s].copy) :
            \/ busy' = busy \cup {c} /\ task'[s].pc = "run" /\ task'[s].conv = c
            \/ UNCHANGED busy
    BY <1>13 DEF Prepare, Task
  <2>. QED BY <1>13, <2>1, <2>2 DEF Prepare
<1>14. ASSUME NEW s \in Slots, PrepareFails(s) PROVE BusyHasRun'
  <2>1. \A t \in Slots \ {s} : task'[t] = task[t]
    BY <1>14 DEF PrepareFails, Goto, Finish
  <2>2. task[s].pc # "run"
    BY <1>14 DEF PrepareFails
  <2>. QED BY <1>14, <2>1, <2>2 DEF PrepareFails
<1>15. ASSUME NEW s \in Slots, ExecutePrepared(s) PROVE BusyHasRun'
  <2>1. \A t \in Slots \ {s} : task'[t] = task[t]
    BY <1>15 DEF ExecutePrepared, Goto
  <2>2. task'[s].pc = "run" /\ task'[s].conv = task[s].conv
    BY <1>15 DEF ExecutePrepared, Goto, Task
  <2>. QED BY <1>15, <2>1, <2>2 DEF ExecutePrepared
<1>16. ASSUME NEW s \in Slots, ExecuteInner(s) PROVE BusyHasRun'
  <2>1. \A t \in Slots \ {s} : task'[t] = task[t]
    BY <1>16 DEF ExecuteInner, Goto
  <2>. QED BY <1>16, <2>1 DEF ExecuteInner
<1>17. ASSUME NEW s \in Slots, ReadResult(s) PROVE BusyHasRun'
  <2>1. \A t \in Slots \ {s} : task'[t] = task[t]
    BY <1>17 DEF ReadResult, AfterRun, Goto, Finish
  <2>2. task[s].pc # "run"
    BY <1>17 DEF ReadResult
  <2>. QED BY <1>17, <2>1, <2>2 DEF ReadResult
<1>18. ASSUME NEW s \in Slots, SaveResult(s) PROVE BusyHasRun'
  <2>1. \A t \in Slots \ {s} : task'[t] = task[t]
    BY <1>18 DEF SaveResult, AfterRun, Goto, Finish
  <2>2. task[s].pc # "run"
    BY <1>18 DEF SaveResult
  <2>. QED BY <1>18, <2>1, <2>2 DEF SaveResult
<1>19. ASSUME NEW s \in Slots, SaveRetry(s) PROVE BusyHasRun'
  <2>1. \A t \in Slots \ {s} : task'[t] = task[t]
    BY <1>19 DEF SaveRetry, Goto
  <2>2. task[s].pc # "run"
    BY <1>19 DEF SaveRetry
  <2>. QED BY <1>19, <2>1, <2>2 DEF SaveRetry
<1>20. ASSUME NEW s \in Slots, ScheduleRetry(s) PROVE BusyHasRun'
  <2>1. \A t \in Slots \ {s} : task'[t] = task[t]
    BY <1>20 DEF ScheduleRetry, Finish
  <2>2. task[s].pc # "run"
    BY <1>20 DEF ScheduleRetry
  <2>. QED BY <1>20, <2>1, <2>2 DEF ScheduleRetry
<1>21. ASSUME NEW s \in Slots, SaveSkipped(s) PROVE BusyHasRun'
  <2>1. \A t \in Slots \ {s} : task'[t] = task[t]
    BY <1>21 DEF SaveSkipped, Goto
  <2>2. task[s].pc # "run"
    BY <1>21 DEF SaveSkipped
  <2>. QED BY <1>21, <2>1, <2>2 DEF SaveSkipped
<1>22. ASSUME NEW s \in Slots, Reschedule(s) PROVE BusyHasRun'
  <2>1. \A t \in Slots \ {s} : task'[t] = task[t]
    BY <1>22 DEF Reschedule
  <2>2. task[s].pc # "run"
    BY <1>22 DEF Reschedule
  <2>. QED BY <1>22, <2>1, <2>2 DEF Reschedule
<1>23. ASSUME NEW s \in Slots, RescheduleTimer(s) PROVE BusyHasRun'
  <2>1. \A t \in Slots \ {s} : task'[t] = task[t]
    BY <1>23 DEF RescheduleTimer, Finish
  <2>2. task[s].pc # "run"
    BY <1>23 DEF RescheduleTimer
  <2>. QED BY <1>23, <2>1, <2>2 DEF RescheduleTimer
<1>24. ASSUME NEW s \in Slots, SystemResume(s) PROVE BusyHasRun'
  <2>1. \A t \in Slots \ {s} : task'[t] = task[t]
    BY <1>24 DEF SystemResume, Start
  <2>2. task[s].pc # "run"
    BY <1>24 DEF SystemResume, Start, Idle
  <2>. QED BY <1>24, <2>1, <2>2 DEF SystemResume
<1>25. ASSUME NEW s \in Slots, Restart(s) PROVE BusyHasRun'
  BY <1>25 DEF Restart
<1>26. ASSUME NEW s \in Slots, ListEnabled(s) PROVE BusyHasRun'
  <2>1. \A t \in Slots \ {s} : task'[t] = task[t]
    BY <1>26 DEF ListEnabled, Finish
  <2>2. task[s].pc # "run"
    BY <1>26 DEF ListEnabled
  <2>. QED BY <1>26, <2>1, <2>2 DEF ListEnabled
<1>27. ASSUME NEW s \in Slots, InitJob(s) PROVE BusyHasRun'
  <2>1. \A t \in Slots \ {s} : task'[t] = task[t]
    BY <1>27 DEF InitJob
  <2>2. task[s].pc # "run"
    BY <1>27 DEF InitJob
  <2>. QED BY <1>27, <2>1, <2>2 DEF InitJob
<1>28. ASSUME NEW s \in Slots, ResumeJob(s) PROVE BusyHasRun'
  <2>1. \A t \in Slots \ {s} : task'[t] = task[t]
    BY <1>28 DEF ResumeJob
  <2>2. task[s].pc # "run"
    BY <1>28 DEF ResumeJob
  <2>. QED BY <1>28, <2>1, <2>2 DEF ResumeJob
<1>29. ASSUME NEW s \in Slots, ResumeMissed(s) PROVE BusyHasRun'
  <2>1. \A t \in Slots \ {s} : task'[t] = task[t]
    BY <1>29 DEF ResumeMissed
  <2>2. task[s].pc # "run"
    BY <1>29 DEF ResumeMissed
  <2>. QED BY <1>29, <2>1, <2>2 DEF ResumeMissed
<1>30. ASSUME NEW s \in Slots, RecordMissed(s) PROVE BusyHasRun'
  <2>1. \A t \in Slots \ {s} : task'[t] = task[t]
    BY <1>30 DEF RecordMissed, Goto
  <2>2. task[s].pc # "run"
    BY <1>30 DEF RecordMissed
  <2>. QED BY <1>30, <2>1, <2>2 DEF RecordMissed
<1>31. ASSUME NEW s \in Slots, AdvanceMissed(s) PROVE BusyHasRun'
  <2>1. \A t \in Slots \ {s} : task'[t] = task[t]
    BY <1>31 DEF AdvanceMissed, BackToLoop
  <2>2. task[s].pc # "run"
    BY <1>31 DEF AdvanceMissed
  <2>. QED BY <1>31, <2>1, <2>2 DEF AdvanceMissed
<1>32. ASSUME NEW s \in Slots, MissedTimer(s) PROVE BusyHasRun'
  <2>1. \A t \in Slots \ {s} : task'[t] = task[t]
    BY <1>32 DEF MissedTimer, BackToLoop
  <2>2. task[s].pc # "run"
    BY <1>32 DEF MissedTimer
  <2>. QED BY <1>32, <2>1, <2>2 DEF MissedTimer
<1>33. ASSUME NEW s \in Slots, LoopEnd(s) PROVE BusyHasRun'
  <2>1. \A t \in Slots \ {s} : task'[t] = task[t]
    BY <1>33 DEF LoopEnd, Finish
  <2>2. task[s].pc # "run"
    BY <1>33 DEF LoopEnd
  <2>. QED BY <1>33, <2>1, <2>2 DEF LoopEnd
<1>34. CASE UNCHANGED vars
  BY <1>34 DEF vars
<1>. QED
  BY <1>1, <1>2, <1>3, <1>4, <1>5, <1>6, <1>7, <1>8, <1>9, <1>10, <1>11,
     <1>12, <1>13, <1>14, <1>15, <1>16, <1>17, <1>18, <1>19, <1>20,
     <1>21, <1>22, <1>23, <1>24, <1>25, <1>26, <1>27, <1>28, <1>29,
     <1>30, <1>31, <1>32, <1>33, <1>34 DEF Next, Request, Step

-----------------------------------------------------------------------------
(* Retries                                                                  *)

\* No operation writes the limit of a row, and a task that is about to store
\* another attempt has loaded a count below it.
RetryInv ==
    /\ \A j \in Jobs : Exists(j) => rows[j].max = DefaultMax /\ rows[j].retry <= DefaultMax
    /\ \A s \in Slots : task[s].pc = "retry" => task[s].copy.retry < DefaultMax

\* Rows keep their limit, and their count is reset or stays.
LEMMA RowsKeepLimit ==
    /\ \A x, y \in Job, f \in Fields : /\ Saved(x, y, f).max = x.max
                                       /\ Saved(x, y, f).retry = x.retry
    /\ \A x, y \in Job : /\ AdvancedRow(x, y).max = x.max
                         /\ AdvancedRow(x, y).retry = x.retry
    /\ \A x \in Job : \A n \in Nat : /\ [x EXCEPT !.retry = n].max = x.max
                                     /\ [x EXCEPT !.retry = n].retry = n
    /\ \A x \in Job : \A c : /\ [x EXCEPT !.retry = 0, !.conv = c].max = x.max
                            /\ [x EXCEPT !.retry = 0, !.conv = c].retry = 0
<1>1. \A x, y \in Job, f \in Fields : Saved(x, y, f).max = x.max /\ Saved(x, y, f).retry = x.retry
  BY DEF Saved, Fields, Job
<1>2. \A x, y \in Job : /\ AdvancedRow(x, y).max = x.max
                       /\ AdvancedRow(x, y).retry = x.retry
  BY DEF AdvancedRow, Job
<1>3. /\ \A x \in Job : \A n \in Nat : /\ [x EXCEPT !.retry = n].max = x.max
                                      /\ [x EXCEPT !.retry = n].retry = n
      /\ \A x \in Job : \A c : /\ [x EXCEPT !.retry = 0, !.conv = c].max = x.max
                              /\ [x EXCEPT !.retry = 0, !.conv = c].retry = 0
  BY DEF Job
<1>. QED BY <1>1, <1>2, <1>3

\* A step that stores a row within the limit keeps every row within it.
LEMMA RowStep ==
    ASSUME TypeInv, RetryInv, NEW j, NEW ok, NEW new, UpdateRow(j, ok, new),
           j \in Jobs /\ Exists(j) =>
               new \in {Fresh, Gone} \/ (new.max = DefaultMax /\ new.retry <= DefaultMax)
    PROVE  \A i \in Jobs : Exists(i)' => rows'[i].max = DefaultMax /\ rows'[i].retry <= DefaultMax
  BY DEF UpdateRow, TypeInv, TypeOK, RetryInv, Exists

\* Every step keeps the attempts within the limit (handle_busy and the writes
\* of handle_execution_result).
LEMMA RetryStep == TypeInv /\ RetryInv /\ [Next]_vars => RetryInv'
<1> SUFFICES ASSUME TypeInv, RetryInv, [Next]_vars PROVE RetryInv'
  OBVIOUS
<1> DEFINE RowsOK == \A i \in Jobs : Exists(i) => rows[i].max = DefaultMax /\ rows[i].retry <= DefaultMax
           TasksOK == \A t \in Slots : task[t].pc = "retry" => task[t].copy.retry < DefaultMax
<1>0. RowsOK /\ TasksOK /\ TypeOK /\ DefaultMax \in Nat
  BY CronConstants DEF RetryInv, TypeInv
<1>r. UNCHANGED rows => RowsOK'
  BY <1>0 DEF Exists
<1>q. RowsOK' /\ TasksOK' => RetryInv'
  BY DEF RetryInv
<1>1. ASSUME NEW s \in Slots, NEW j \in Jobs, NEW k \in Kinds, NEW m \in NewModes,
             NEW c \in Convs \cup {NoConv}, AddJob(s, j, k, m, c)
      PROVE  RetryInv'
  <2>1. RowsOK'
    BY <1>1, <1>0 DEF AddJob, TypeOK, Exists
  <2>2. TasksOK'
    <3>1. \A t \in Slots \ {s} : task'[t] = task[t]
      BY <1>1, <1>0 DEF TypeOK, AddJob, Start
    <3>2. task'[s].pc = "timer"
      BY <1>1, <1>0 DEF TypeOK, AddJob, Start, Idle
    <3>. QED BY <1>0, <3>1, <3>2
  <2>. QED BY <2>1, <2>2, <1>q
<1>2. ASSUME NEW s \in Slots, NEW j \in Jobs, NEW f \in Fields, UpdateJob(s, j, f)
      PROVE  RetryInv'
  <2>1. \A t \in Slots \ {s} : task'[t] = task[t]
    BY <1>2, <1>0 DEF TypeOK, UpdateJob, Start, Idle
  <2>2. task'[s].pc # "retry"
    BY <1>2, <1>0 DEF TypeOK, UpdateJob, Start, Idle, Idle, Task
  <2>9. TasksOK'
    BY <1>0, <2>1, <2>2
  <2>. QED BY <1>2, <2>9, <1>q, <1>r DEF UpdateJob
<1>3. ASSUME NEW s \in Slots, UpdateWrite(s) PROVE RetryInv'
  <2>1. \A t \in Slots \ {s} : task'[t] = task[t]
    BY <1>3, <1>0 DEF TypeOK, UpdateWrite, Goto, Finish
  <2>2. task'[s].pc # "retry"
    BY <1>3, <1>0 DEF TypeOK, UpdateWrite, Goto, Finish, Idle, Task
  <2>9. TasksOK'
    BY <1>0, <2>1, <2>2
  <2>4. PICK ok \in DbOutcomes :
            UpdateRow(task[s].job, ok,
                  Saved(rows[task[s].job], task[s].copy, task[s].field))
    BY <1>3 DEF UpdateWrite
  <2>5. task[s] \in Task /\ task[s].job \in Jobs /\ task[s].copy \in Job /\ task[s].field \in Fields
    BY <1>3, TaskTypes DEF TypeInv, TypeOK, TaskInv, TaskOK, Loaded, Pcs, UpdateWrite
  <2> DEFINE new == Saved(rows[task[s].job], task[s].copy, task[s].field)
  <2>3. Exists(task[s].job) => /\ rows[task[s].job] \in Job
                               /\ rows[task[s].job].max = DefaultMax
                               /\ rows[task[s].job].retry <= DefaultMax
    BY <1>0, <2>5, ExistingRow
  <2>6. Exists(task[s].job) => new.max = DefaultMax /\ new.retry <= DefaultMax
    BY <1>0, <2>3, <2>5, RowsKeepLimit
  <2>7. RowsOK'
    BY <2>4, <2>5, <2>6, RowStep
  <2>. QED BY <2>7, <2>9, <1>q
<1>4. ASSUME NEW s \in Slots, UpdateTimer(s) PROVE RetryInv'
  <2>1. \A t \in Slots \ {s} : task'[t] = task[t]
    BY <1>4, <1>0 DEF TypeOK, UpdateTimer, Finish
  <2>2. task'[s].pc # "retry"
    BY <1>4, <1>0 DEF TypeOK, UpdateTimer, Finish, Idle, Task
  <2>9. TasksOK'
    BY <1>0, <2>1, <2>2
  <2>. QED BY <1>4, <2>9, <1>q, <1>r DEF UpdateTimer
<1>5. ASSUME NEW s \in Slots, NEW j \in Jobs, RemoveJob(s, j) PROVE RetryInv'
  <2>1. \A t \in Slots \ {s} : task'[t] = task[t]
    BY <1>5, <1>0 DEF TypeOK, RemoveJob, Start, Idle
  <2>2. task'[s].pc # "retry"
    BY <1>5, <1>0 DEF TypeOK, RemoveJob, Start, Idle, Idle, Task
  <2>9. TasksOK'
    BY <1>0, <2>1, <2>2
  <2>. QED BY <1>5, <2>9, <1>q, <1>r DEF RemoveJob
<1>6. ASSUME NEW s \in Slots, RemoveDelete(s) PROVE RetryInv'
  <2>1. \A t \in Slots \ {s} : task'[t] = task[t]
    BY <1>6, <1>0 DEF TypeOK, RemoveDelete, Finish
  <2>2. task'[s].pc # "retry"
    BY <1>6, <1>0 DEF TypeOK, RemoveDelete, Finish, Idle, Task
  <2>9. TasksOK'
    BY <1>0, <2>1, <2>2
  <2>4. PICK ok \in DbOutcomes :
            UpdateRow(task[s].job, ok,
                  Gone)
    BY <1>6 DEF RemoveDelete
  <2>7. RowsOK'
    BY <2>4, RowStep
  <2>. QED BY <2>7, <2>9, <1>q
<1>7. ASSUME NEW s \in Slots, NEW c \in Convs, DeleteConversation(s, c)
      PROVE  RetryInv'
  <2>1. \A t \in Slots \ {s} : task'[t] = task[t]
    BY <1>7, <1>0 DEF TypeOK, DeleteConversation, Start, Idle
  <2>2. task'[s].pc # "retry"
    BY <1>7, <1>0 DEF TypeOK, DeleteConversation, Start, Idle, Idle, Task
  <2>9. TasksOK'
    BY <1>0, <2>1, <2>2
  <2>. QED BY <1>7, <2>9, <1>q, <1>r DEF DeleteConversation
<1>8. ASSUME NEW s \in Slots, CascadeCancel(s) PROVE RetryInv'
  <2>1. \A t \in Slots \ {s} : task'[t] = task[t]
    BY <1>8, <1>0 DEF TypeOK, CascadeCancel, Goto, Finish
  <2>2. task'[s].pc # "retry"
    BY <1>8, <1>0 DEF TypeOK, CascadeCancel, Goto, Finish, Idle, Task
  <2>9. TasksOK'
    BY <1>0, <2>1, <2>2
  <2>. QED BY <1>8, <2>9, <1>q, <1>r DEF CascadeCancel
<1>9. ASSUME NEW s \in Slots, CascadeDelete(s) PROVE RetryInv'
  <2>1. \A t \in Slots \ {s} : task'[t] = task[t]
    BY <1>9, <1>0 DEF TypeOK, CascadeDelete, Finish
  <2>2. task'[s].pc # "retry"
    BY <1>9, <1>0 DEF TypeOK, CascadeDelete, Finish, Idle, Task
  <2>9. TasksOK'
    BY <1>0, <2>1, <2>2
  <2>3. RowsOK'
    BY <1>9, <1>0 DEF CascadeDelete, TypeOK, Exists
  <2>. QED BY <2>3, <2>9, <1>q
<1>10. ASSUME NEW s \in Slots, NEW j \in Jobs, Fire(s, j) PROVE RetryInv'
  <2>1. \A t \in Slots \ {s} : task'[t] = task[t]
    BY <1>10, <1>0 DEF TypeOK, Fire, Start, Idle
  <2>2. task'[s].pc # "retry"
    BY <1>10, <1>0 DEF TypeOK, Fire, Start, Idle, Idle, Task
  <2>9. TasksOK'
    BY <1>0, <2>1, <2>2
  <2>. QED BY <1>10, <2>9, <1>q, <1>r DEF Fire
<1>11. ASSUME NEW s \in Slots, Tick(s) PROVE RetryInv'
  <2>0. task[s] \in Task /\ task[s].job \in Jobs
    BY <1>11 DEF TypeInv, TypeOK, TaskInv, TaskOK, Tick
  <2>1. \A t \in Slots \ {s} : task'[t] = task[t]
    BY <1>11, <1>0 DEF TypeOK, Tick, Finish
  <2>2. task'[s].pc = "retry" => task'[s].copy = rows[task[s].job] /\ Exists(task[s].job)
                               /\ HandleBusy(rows[task[s].job]) = "retry"
    BY <1>11, <1>0 DEF TypeOK, Tick, Finish, Idle, Task
  <2>3. task'[s].pc = "retry" => task'[s].copy.retry < DefaultMax
    <3>1. SUFFICES ASSUME task'[s].pc = "retry" PROVE task'[s].copy.retry < DefaultMax
      OBVIOUS
    <3>2. rows[task[s].job] \in Job /\ rows[task[s].job].max = DefaultMax
      BY <1>0, <2>0, <2>2, <3>1, ExistingRow
    <3>3. rows[task[s].job].retry \in Nat
      BY <3>2 DEF Job
    <3>4. ~(rows[task[s].job].retry >= DefaultMax)
      BY <2>2, <3>1, <3>2 DEF HandleBusy
    <3>. QED BY <1>0, <2>2, <3>1, <3>3, <3>4
  <2>9. TasksOK'
    BY <1>0, <2>1, <2>3
  <2>. QED BY <1>11, <2>9, <1>q, <1>r DEF Tick
<1>12. ASSUME NEW s \in Slots, NEW j \in Jobs, RunNow(s, j) PROVE RetryInv'
  <2>1. \A t \in Slots \ {s} : task'[t] = task[t]
    BY <1>12, <1>0 DEF TypeOK, RunNow, Start, Idle
  <2>2. task'[s].pc # "retry"
    BY <1>12, <1>0 DEF TypeOK, RunNow, Start, Idle, Idle, Task
  <2>9. TasksOK'
    BY <1>0, <2>1, <2>2
  <2>. QED BY <1>12, <2>9, <1>q, <1>r DEF RunNow
<1>13. ASSUME NEW s \in Slots, Prepare(s) PROVE RetryInv'
  <2>1. \A t \in Slots \ {s} : task'[t] = task[t]
    BY <1>13, <1>0 DEF TypeOK, Prepare, Targets
  <2>2. task'[s].pc # "retry"
    BY <1>13, <1>0 DEF TypeOK, Prepare, Targets, Idle, Task
  <2>9. TasksOK'
    BY <1>0, <2>1, <2>2
  <2>. QED BY <1>13, <2>9, <1>q, <1>r DEF Prepare
<1>14. ASSUME NEW s \in Slots, PrepareFails(s) PROVE RetryInv'
  <2>1. \A t \in Slots \ {s} : task'[t] = task[t]
    BY <1>14, <1>0 DEF TypeOK, PrepareFails, Goto, Finish
  <2>2. task'[s].pc # "retry"
    BY <1>14, <1>0 DEF TypeOK, PrepareFails, Goto, Finish, Idle, Task
  <2>9. TasksOK'
    BY <1>0, <2>1, <2>2
  <2>. QED BY <1>14, <2>9, <1>q, <1>r DEF PrepareFails
<1>15. ASSUME NEW s \in Slots, ExecutePrepared(s) PROVE RetryInv'
  <2>1. \A t \in Slots \ {s} : task'[t] = task[t]
    BY <1>15, <1>0 DEF TypeOK, ExecutePrepared, Goto
  <2>2. task'[s].pc # "retry"
    BY <1>15, <1>0 DEF TypeOK, ExecutePrepared, Goto, Idle, Task
  <2>9. TasksOK'
    BY <1>0, <2>1, <2>2
  <2>. QED BY <1>15, <2>9, <1>q, <1>r DEF ExecutePrepared
<1>16. ASSUME NEW s \in Slots, ExecuteInner(s) PROVE RetryInv'
  <2>1. \A t \in Slots \ {s} : task'[t] = task[t]
    BY <1>16, <1>0 DEF TypeOK, ExecuteInner, Goto
  <2>2. task'[s].pc # "retry"
    BY <1>16, <1>0 DEF TypeOK, ExecuteInner, Goto, Idle, Task
  <2>9. TasksOK'
    BY <1>0, <2>1, <2>2
  <2>. QED BY <1>16, <2>9, <1>q, <1>r DEF ExecuteInner
<1>17. ASSUME NEW s \in Slots, ReadResult(s) PROVE RetryInv'
  <2>1. \A t \in Slots \ {s} : task'[t] = task[t]
    BY <1>17, <1>0 DEF TypeOK, ReadResult, AfterRun, Goto, Finish
  <2>2. task'[s].pc # "retry"
    BY <1>17, <1>0 DEF TypeOK, ReadResult, AfterRun, Goto, Finish, Idle, Task
  <2>9. TasksOK'
    BY <1>0, <2>1, <2>2
  <2>. QED BY <1>17, <2>9, <1>q, <1>r DEF ReadResult
<1>18. ASSUME NEW s \in Slots, SaveResult(s) PROVE RetryInv'
  <2>1. \A t \in Slots \ {s} : task'[t] = task[t]
    BY <1>18, <1>0 DEF TypeOK, SaveResult, AfterRun, Goto, Finish
  <2>2. task'[s].pc # "retry"
    BY <1>18, <1>0 DEF TypeOK, SaveResult, AfterRun, Goto, Finish, Idle, Task
  <2>9. TasksOK'
    BY <1>0, <2>1, <2>2
  <2>4. PICK ok \in DbOutcomes :
            UpdateRow(task[s].job, ok,
                  [rows[task[s].job] EXCEPT !.retry = 0,
                         !.conv = IF task[s].conv = NoConv THEN @ ELSE task[s].conv])
    BY <1>18 DEF SaveResult
  <2>5. task[s] \in Task /\ task[s].job \in Jobs /\ task[s].copy \in Job /\ task[s].field \in Fields
    BY <1>18, TaskTypes DEF TypeInv, TypeOK, TaskInv, TaskOK, Loaded, Pcs, SaveResult
  <2> DEFINE new == [rows[task[s].job] EXCEPT !.retry = 0,
                         !.conv = IF task[s].conv = NoConv THEN @ ELSE task[s].conv]
  <2>3. Exists(task[s].job) => /\ rows[task[s].job] \in Job
                               /\ rows[task[s].job].max = DefaultMax
                               /\ rows[task[s].job].retry <= DefaultMax
    BY <1>0, <2>5, ExistingRow
  <2>6. Exists(task[s].job) => new.max = DefaultMax /\ new.retry <= DefaultMax
    BY <1>0, <2>3, <2>5, RowsKeepLimit
  <2>7. RowsOK'
    BY <2>4, <2>5, <2>6, RowStep
  <2>. QED BY <2>7, <2>9, <1>q
<1>19. ASSUME NEW s \in Slots, SaveRetry(s) PROVE RetryInv'
  <2>1. \A t \in Slots \ {s} : task'[t] = task[t]
    BY <1>19, <1>0 DEF TypeOK, SaveRetry, Goto
  <2>2. task'[s].pc # "retry"
    BY <1>19, <1>0 DEF TypeOK, SaveRetry, Goto, Idle, Task
  <2>9. TasksOK'
    BY <1>0, <2>1, <2>2
  <2>4. PICK ok \in DbOutcomes :
            UpdateRow(task[s].job, ok,
                  [rows[task[s].job] EXCEPT !.retry = task[s].copy.retry + 1])
    BY <1>19 DEF SaveRetry
  <2>5. task[s] \in Task /\ task[s].job \in Jobs /\ task[s].copy \in Job /\ task[s].field \in Fields
    BY <1>19, TaskTypes DEF TypeInv, TypeOK, TaskInv, TaskOK, Loaded, Pcs, SaveRetry
  <2> DEFINE new == [rows[task[s].job] EXCEPT !.retry = task[s].copy.retry + 1]
  <2>3. Exists(task[s].job) => /\ rows[task[s].job] \in Job
                               /\ rows[task[s].job].max = DefaultMax
                               /\ rows[task[s].job].retry <= DefaultMax
    BY <1>0, <2>5, ExistingRow
  <2>8. task[s].copy.retry + 1 \in Nat /\ task[s].copy.retry + 1 <= DefaultMax
    <3>1. task[s].copy.retry \in Nat
      BY <2>5 DEF Job
    <3>2. task[s].copy.retry < DefaultMax
      BY <1>19, <1>0 DEF SaveRetry
    <3>. QED BY <1>0, <3>1, <3>2
  <2>6. Exists(task[s].job) => new.max = DefaultMax /\ new.retry <= DefaultMax
    BY <1>0, <2>3, <2>5, RowsKeepLimit, <2>8
  <2>7. RowsOK'
    BY <2>4, <2>5, <2>6, RowStep
  <2>. QED BY <2>7, <2>9, <1>q
<1>20. ASSUME NEW s \in Slots, ScheduleRetry(s) PROVE RetryInv'
  <2>1. \A t \in Slots \ {s} : task'[t] = task[t]
    BY <1>20, <1>0 DEF TypeOK, ScheduleRetry, Finish
  <2>2. task'[s].pc # "retry"
    BY <1>20, <1>0 DEF TypeOK, ScheduleRetry, Finish, Idle, Task
  <2>9. TasksOK'
    BY <1>0, <2>1, <2>2
  <2>. QED BY <1>20, <2>9, <1>q, <1>r DEF ScheduleRetry
<1>21. ASSUME NEW s \in Slots, SaveSkipped(s) PROVE RetryInv'
  <2>1. \A t \in Slots \ {s} : task'[t] = task[t]
    BY <1>21, <1>0 DEF TypeOK, SaveSkipped, Goto
  <2>2. task'[s].pc # "retry"
    BY <1>21, <1>0 DEF TypeOK, SaveSkipped, Goto, Idle, Task
  <2>9. TasksOK'
    BY <1>0, <2>1, <2>2
  <2>4. PICK ok \in DbOutcomes :
            UpdateRow(task[s].job, ok,
                  [rows[task[s].job] EXCEPT !.retry = 0])
    BY <1>21 DEF SaveSkipped
  <2>5. task[s] \in Task /\ task[s].job \in Jobs /\ task[s].copy \in Job /\ task[s].field \in Fields
    BY <1>21, TaskTypes DEF TypeInv, TypeOK, TaskInv, TaskOK, Loaded, Pcs, SaveSkipped
  <2> DEFINE new == [rows[task[s].job] EXCEPT !.retry = 0]
  <2>3. Exists(task[s].job) => /\ rows[task[s].job] \in Job
                               /\ rows[task[s].job].max = DefaultMax
                               /\ rows[task[s].job].retry <= DefaultMax
    BY <1>0, <2>5, ExistingRow
  <2>6. Exists(task[s].job) => new.max = DefaultMax /\ new.retry <= DefaultMax
    BY <1>0, <2>3, <2>5, RowsKeepLimit
  <2>7. RowsOK'
    BY <2>4, <2>5, <2>6, RowStep
  <2>. QED BY <2>7, <2>9, <1>q
<1>22. ASSUME NEW s \in Slots, Reschedule(s) PROVE RetryInv'
  <2>1. \A t \in Slots \ {s} : task'[t] = task[t]
    BY <1>22, <1>0 DEF TypeOK, Reschedule
  <2>2. task'[s].pc # "retry"
    BY <1>22, <1>0 DEF TypeOK, Reschedule, Idle, Task
  <2>9. TasksOK'
    BY <1>0, <2>1, <2>2
  <2>4. PICK ok \in DbOutcomes :
            UpdateRow(task[s].job, ok,
                  AdvancedRow(rows[task[s].job], task[s].copy))
    BY <1>22 DEF Reschedule
  <2>5. task[s] \in Task /\ task[s].job \in Jobs /\ task[s].copy \in Job /\ task[s].field \in Fields
    BY <1>22, TaskTypes DEF TypeInv, TypeOK, TaskInv, TaskOK, Loaded, Pcs, Reschedule
  <2> DEFINE new == AdvancedRow(rows[task[s].job], task[s].copy)
  <2>3. Exists(task[s].job) => /\ rows[task[s].job] \in Job
                               /\ rows[task[s].job].max = DefaultMax
                               /\ rows[task[s].job].retry <= DefaultMax
    BY <1>0, <2>5, ExistingRow
  <2>6. Exists(task[s].job) => new.max = DefaultMax /\ new.retry <= DefaultMax
    BY <1>0, <2>3, <2>5, RowsKeepLimit
  <2>7. RowsOK'
    BY <2>4, <2>5, <2>6, RowStep
  <2>. QED BY <2>7, <2>9, <1>q
<1>23. ASSUME NEW s \in Slots, RescheduleTimer(s) PROVE RetryInv'
  <2>1. \A t \in Slots \ {s} : task'[t] = task[t]
    BY <1>23, <1>0 DEF TypeOK, RescheduleTimer, Finish
  <2>2. task'[s].pc # "retry"
    BY <1>23, <1>0 DEF TypeOK, RescheduleTimer, Finish, Idle, Task
  <2>9. TasksOK'
    BY <1>0, <2>1, <2>2
  <2>. QED BY <1>23, <2>9, <1>q, <1>r DEF RescheduleTimer
<1>24. ASSUME NEW s \in Slots, SystemResume(s) PROVE RetryInv'
  <2>1. \A t \in Slots \ {s} : task'[t] = task[t]
    BY <1>24, <1>0 DEF TypeOK, SystemResume, Start, Idle
  <2>2. task'[s].pc # "retry"
    BY <1>24, <1>0 DEF TypeOK, SystemResume, Start, Idle, Idle, Task
  <2>9. TasksOK'
    BY <1>0, <2>1, <2>2
  <2>. QED BY <1>24, <2>9, <1>q, <1>r DEF SystemResume
<1>25. ASSUME NEW s \in Slots, Restart(s) PROVE RetryInv'
  <2>1. TasksOK'
    BY <1>25 DEF Restart, Idle
  <2>. QED BY <1>25, <1>q, <1>r, <2>1 DEF Restart
<1>26. ASSUME NEW s \in Slots, ListEnabled(s) PROVE RetryInv'
  <2>1. \A t \in Slots \ {s} : task'[t] = task[t]
    BY <1>26, <1>0 DEF TypeOK, ListEnabled, Finish
  <2>2. task'[s].pc # "retry"
    BY <1>26, <1>0 DEF TypeOK, ListEnabled, Finish, Idle, Task
  <2>9. TasksOK'
    BY <1>0, <2>1, <2>2
  <2>. QED BY <1>26, <2>9, <1>q, <1>r DEF ListEnabled
<1>27. ASSUME NEW s \in Slots, InitJob(s) PROVE RetryInv'
  <2>1. \A t \in Slots \ {s} : task'[t] = task[t]
    BY <1>27, <1>0 DEF TypeOK, InitJob
  <2>2. task'[s].pc = "loop"
    BY <1>27, <1>0 DEF TypeOK, InitJob, Task
  <2>9. TasksOK'
    BY <1>0, <2>1, <2>2
  <2>3. RowsOK'
    BY <1>27, <1>r, RowStep DEF InitJob
  <2>. QED BY <2>3, <2>9, <1>q
<1>28. ASSUME NEW s \in Slots, ResumeJob(s) PROVE RetryInv'
  <2>1. \A t \in Slots \ {s} : task'[t] = task[t]
    BY <1>28, <1>0 DEF TypeOK, ResumeJob
  <2>2. task'[s].pc = "loop"
    BY <1>28, <1>0 DEF TypeOK, ResumeJob, Task
  <2>9. TasksOK'
    BY <1>0, <2>1, <2>2
  <2>. QED BY <1>28, <2>9, <1>q, <1>r DEF ResumeJob
<1>29. ASSUME NEW s \in Slots, ResumeMissed(s) PROVE RetryInv'
  <2>1. \A t \in Slots \ {s} : task'[t] = task[t]
    BY <1>29, <1>0 DEF TypeOK, ResumeMissed
  <2>2. task'[s].pc # "retry"
    BY <1>29, <1>0 DEF TypeOK, ResumeMissed, Idle, Task
  <2>9. TasksOK'
    BY <1>0, <2>1, <2>2
  <2>. QED BY <1>29, <2>9, <1>q, <1>r DEF ResumeMissed
<1>30. ASSUME NEW s \in Slots, RecordMissed(s) PROVE RetryInv'
  <2>1. \A t \in Slots \ {s} : task'[t] = task[t]
    BY <1>30, <1>0 DEF TypeOK, RecordMissed, Goto
  <2>2. task'[s].pc # "retry"
    BY <1>30, <1>0 DEF TypeOK, RecordMissed, Goto, Idle, Task
  <2>9. TasksOK'
    BY <1>0, <2>1, <2>2
  <2>4. PICK ok \in DbOutcomes :
            UpdateRow(task[s].job, ok,
                  [rows[task[s].job] EXCEPT !.retry = 0])
    BY <1>30 DEF RecordMissed
  <2>5. task[s] \in Task /\ task[s].job \in Jobs /\ task[s].copy \in Job /\ task[s].field \in Fields
    BY <1>30, TaskTypes DEF TypeInv, TypeOK, TaskInv, TaskOK, Loaded, Pcs, RecordMissed
  <2> DEFINE new == [rows[task[s].job] EXCEPT !.retry = 0]
  <2>3. Exists(task[s].job) => /\ rows[task[s].job] \in Job
                               /\ rows[task[s].job].max = DefaultMax
                               /\ rows[task[s].job].retry <= DefaultMax
    BY <1>0, <2>5, ExistingRow
  <2>6. Exists(task[s].job) => new.max = DefaultMax /\ new.retry <= DefaultMax
    BY <1>0, <2>3, <2>5, RowsKeepLimit
  <2>7. RowsOK'
    BY <2>4, <2>5, <2>6, RowStep
  <2>. QED BY <2>7, <2>9, <1>q
<1>31. ASSUME NEW s \in Slots, AdvanceMissed(s) PROVE RetryInv'
  <2>1. \A t \in Slots \ {s} : task'[t] = task[t]
    BY <1>31, <1>0 DEF TypeOK, AdvanceMissed, BackToLoop
  <2>2. task'[s].pc # "retry"
    BY <1>31, <1>0 DEF TypeOK, AdvanceMissed, BackToLoop, Idle, Task
  <2>9. TasksOK'
    BY <1>0, <2>1, <2>2
  <2>4. PICK ok \in DbOutcomes :
            UpdateRow(task[s].job, ok,
                  AdvancedRow(rows[task[s].job], task[s].copy))
    BY <1>31 DEF AdvanceMissed
  <2>5. task[s] \in Task /\ task[s].job \in Jobs /\ task[s].copy \in Job /\ task[s].field \in Fields
    BY <1>31, TaskTypes DEF TypeInv, TypeOK, TaskInv, TaskOK, Loaded, Pcs, AdvanceMissed
  <2> DEFINE new == AdvancedRow(rows[task[s].job], task[s].copy)
  <2>3. Exists(task[s].job) => /\ rows[task[s].job] \in Job
                               /\ rows[task[s].job].max = DefaultMax
                               /\ rows[task[s].job].retry <= DefaultMax
    BY <1>0, <2>5, ExistingRow
  <2>6. Exists(task[s].job) => new.max = DefaultMax /\ new.retry <= DefaultMax
    BY <1>0, <2>3, <2>5, RowsKeepLimit
  <2>7. RowsOK'
    BY <2>4, <2>5, <2>6, RowStep
  <2>. QED BY <2>7, <2>9, <1>q
<1>32. ASSUME NEW s \in Slots, MissedTimer(s) PROVE RetryInv'
  <2>1. \A t \in Slots \ {s} : task'[t] = task[t]
    BY <1>32, <1>0 DEF TypeOK, MissedTimer, BackToLoop
  <2>2. task'[s].pc # "retry"
    BY <1>32, <1>0 DEF TypeOK, MissedTimer, BackToLoop, Idle, Task
  <2>9. TasksOK'
    BY <1>0, <2>1, <2>2
  <2>. QED BY <1>32, <2>9, <1>q, <1>r DEF MissedTimer
<1>33. ASSUME NEW s \in Slots, LoopEnd(s) PROVE RetryInv'
  <2>1. \A t \in Slots \ {s} : task'[t] = task[t]
    BY <1>33, <1>0 DEF TypeOK, LoopEnd, Finish
  <2>2. task'[s].pc # "retry"
    BY <1>33, <1>0 DEF TypeOK, LoopEnd, Finish, Idle, Task
  <2>9. TasksOK'
    BY <1>0, <2>1, <2>2
  <2>. QED BY <1>33, <2>9, <1>q, <1>r DEF LoopEnd
<1>34. CASE UNCHANGED vars
  BY <1>34 DEF vars, RetryInv, Exists
<1>. QED
  BY <1>1, <1>2, <1>3, <1>4, <1>5, <1>6, <1>7, <1>8, <1>9, <1>10, <1>11,
     <1>12, <1>13, <1>14, <1>15, <1>16, <1>17, <1>18, <1>19, <1>20,
     <1>21, <1>22, <1>23, <1>24, <1>25, <1>26, <1>27, <1>28, <1>29,
     <1>30, <1>31, <1>32, <1>33, <1>34 DEF Next, Request, Step


-----------------------------------------------------------------------------
(* Results                                                                  *)

\* The marks and the retries are safe together with the types.
CronInv == TypeInv /\ BusyHasRun /\ RetryInv

\* The inductive invariant holds of every state of the engine.
THEOREM CronInvariant == Spec => []CronInv
<1>1. Init => CronInv
  BY InitTypes DEF Init, CronInv, BusyHasRun, RetryInv, Exists, Idle
<1>2. CronInv /\ [Next]_vars => CronInv'
  BY TypeStep, BusyStep, RetryStep DEF CronInv
<1>. QED BY <1>1, <1>2, PTL DEF Spec

\* Rows, timers, marks and tasks have their types, and a task that works on a
\* job has loaded it.
THEOREM CronTypes == Spec => []TypeOK
<1>1. CronInv => TypeOK
  BY DEF CronInv, TypeInv
<1>. QED BY <1>1, CronInvariant, PTL

\* CronBusyGuard: no mark outlives the execution that clears it.
THEOREM MarksAreCleared == Spec => []BusyHasRun
<1>1. CronInv => BusyHasRun
  BY DEF CronInv
<1>. QED BY <1>1, CronInvariant, PTL

\* handle_busy: no interleaving of ticks, updates and resumes stores more
\* attempts than the job's limit.
THEOREM RetriesAreBounded == Spec => []RetriesBounded
<1>1. CronInv => RetriesBounded
  <2>1. SUFFICES ASSUME CronInv, NEW j \in Jobs, Exists(j)
                 PROVE  rows[j].retry <= rows[j].max
    BY DEF RetriesBounded
  <2>. QED BY <2>1 DEF CronInv, RetryInv
<1>. QED BY <1>1, CronInvariant, PTL

=============================================================================
