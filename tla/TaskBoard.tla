----------------------------- MODULE TaskBoard -----------------------------
(***************************************************************************)
(* The team's task board: rows of the team_tasks table with dependencies   *)
(* stored in both directions (blocked_by and blocks), changed by MCP calls *)
(* of several agents.  Each call is a sequence of separate statements on   *)
(* the SQLite pool; only append_to_blocks and remove_from_blocked_by are   *)
(* transactions.                                                           *)
(* Source: crates/chisl-team/src/task_board.rs and                         *)
(* crates/chisl-db/src/repository/sqlite_team.rs.                          *)
(***************************************************************************)
EXTENDS Naturals

CONSTANTS
    Tasks,       \* task ids generate_id can return
    Callers,     \* agents calling the board, one call at a time each
    NoTask,      \* the task of an agent that is in no call
    MaxUpdates,  \* bound: update_task calls
    MaxFaults    \* bound: calls cut off by a database error or a crash

ASSUME BoardAssumption ==
    /\ NoTask \notin Tasks
    /\ {MaxUpdates, MaxFaults} \subseteq Nat

VARIABLES
    status,      \* team_tasks.status; "none" before the row is inserted
    blockedBy,   \* team_tasks.blocked_by
    blocks,      \* team_tasks.blocks
    call,        \* the call each agent is in
    used,        \* ids handed out by generate_id
    updates, faults,
    \* history
    inserts,     \* rows inserted so far
    born,        \* inserts when the row was inserted
    done,        \* tasks whose row was ever set to completed
    rewritten,   \* tasks whose blocked_by was replaced by an update
    late         \* <<t, d>>: linked when d was already being completed

rows == <<status, blockedBy, blocks>>
vars == <<rows, call, used, updates, faults, inserts, born, done, rewritten, late>>

(* What a call still has to do: "insert" and "link" belong to create_task,  *)
(* "write" and "unblock" to update_task.  todo holds the ids that are still *)
(* to be linked, or the blocks column the update read first; st is the new  *)
(* status or "keep", deps the new blocked_by if replaces is TRUE.           *)
Idle == [pc |-> "idle", task |-> NoTask, todo |-> {}, st |-> "keep",
         replaces |-> FALSE, deps |-> {}]
Call == [pc : {"insert", "link", "write", "unblock"}, task : Tasks,
         todo : SUBSET Tasks, st : {"pending", "completed", "keep"},
         replaces : BOOLEAN, deps : SUBSET Tasks]

Exists(t) == status[t] # "none"

\* Every column and every call holds a value of its type.
TypeOK ==
    /\ status \in [Tasks -> {"none", "pending", "completed"}]
    /\ blockedBy \in [Tasks -> SUBSET Tasks]
    /\ blocks \in [Tasks -> SUBSET Tasks]
    /\ call \in [Callers -> Call \cup {Idle}]
    /\ used \subseteq Tasks
    /\ updates \in Nat /\ faults \in Nat
    /\ inserts \in Nat /\ born \in [Tasks -> Nat]
    /\ done \subseteq Tasks /\ rewritten \subseteq Tasks
    /\ late \subseteq Tasks \X Tasks

Init ==
    /\ status = [t \in Tasks |-> "none"]
    /\ blockedBy = [t \in Tasks |-> {}]
    /\ blocks = [t \in Tasks |-> {}]
    /\ call = [c \in Callers |-> Idle]
    /\ used = {}
    /\ updates = 0 /\ faults = 0
    /\ inserts = 0 /\ born = [t \in Tasks |-> 0]
    /\ done = {} /\ rewritten = {} /\ late = {}

-----------------------------------------------------------------------------
(* create_task                                                              *)

\* A call goes on with r while it has ids left, and otherwise returns.
Goes(c, r) == call' = [call EXCEPT ![c] = IF r.todo = {} THEN Idle ELSE r]

\* Mutant of CreateBegin: dependencies are not looked up.
CreateUnchecked(c, t, deps) ==
    /\ call[c].pc = "idle"
    /\ t \in Tasks \ used
    /\ used' = used \cup {t}
    /\ call' = [call EXCEPT ![c] = [pc |-> "insert", task |-> t, todo |-> deps,
                                    st |-> "keep", replaces |-> FALSE,
                                    deps |-> {}]]
    /\ UNCHANGED <<rows, updates, faults, inserts, born, done, rewritten, late>>

\* Every dependency is looked up, and the id is generated.
CreateBegin(c, t, deps) ==
    /\ call[c].pc = "idle"
    /\ t \in Tasks \ used
    /\ deps \subseteq {d \in Tasks : Exists(d)}
    /\ used' = used \cup {t}
    /\ call' = [call EXCEPT ![c] = [pc |-> "insert", task |-> t, todo |-> deps,
                                    st |-> "keep", replaces |-> FALSE,
                                    deps |-> {}]]
    /\ UNCHANGED <<rows, updates, faults, inserts, born, done, rewritten, late>>

\* INSERT INTO team_tasks.
Insert(c) ==
    LET t == call[c].task IN
    /\ call[c].pc = "insert"
    /\ status' = [status EXCEPT ![t] = "pending"]
    /\ blockedBy' = [blockedBy EXCEPT ![t] = call[c].todo]
    /\ born' = [born EXCEPT ![t] = inserts]
    /\ inserts' = inserts + 1
    /\ Goes(c, [call[c] EXCEPT !.pc = "link"])
    /\ UNCHANGED <<blocks, used, updates, faults, done, rewritten, late>>

\* A call has read d in order to complete it.
Completing(d) ==
    \E c \in Callers : /\ call[c].pc \in {"write", "unblock"}
                       /\ call[c].task = d /\ call[c].st = "completed"

\* Mutant of Link: append_to_blocks writes back what an earlier read returned.
LinkOverwrites(c, d) ==
    LET t == call[c].task IN
    /\ call[c].pc = "link" /\ d \in call[c].todo
    /\ blocks' = [blocks EXCEPT ![d] = {t}]
    /\ Goes(c, [call[c] EXCEPT !.todo = @ \ {d}])
    /\ UNCHANGED <<status, blockedBy, used, updates, faults, inserts, born, done,
                   rewritten, late>>

\* append_to_blocks for one dependency.
Link(c, d) ==
    LET t == call[c].task IN
    /\ call[c].pc = "link" /\ d \in call[c].todo
    /\ blocks' = [blocks EXCEPT ![d] = @ \cup {t}]
    /\ late' = IF status[d] = "completed" \/ Completing(d)
               THEN late \cup {<<t, d>>} ELSE late
    /\ Goes(c, [call[c] EXCEPT !.todo = @ \ {d}])
    /\ UNCHANGED <<status, blockedBy, used, updates, faults, inserts, born, done,
                   rewritten>>

-----------------------------------------------------------------------------
(* update_task                                                              *)

\* The row is read; a completing update will unblock what its blocks column
\* says now.  The new blocked_by is not looked up.
UpdateBegin(c, t, st, replaces, deps) ==
    /\ call[c].pc = "idle"
    /\ Exists(t)
    /\ replaces \/ deps = {}
    /\ updates < MaxUpdates
    /\ updates' = updates + 1
    /\ call' = [call EXCEPT ![c] = [pc |-> "write", task |-> t, todo |-> blocks[t],
                                    st |-> st, replaces |-> replaces, deps |-> deps]]
    /\ UNCHANGED <<rows, used, faults, inserts, born, done, rewritten, late>>

\* Mutant of UpdateWrite: every status change unblocks the dependents.
UpdateWriteAnyStatus(c) ==
    LET u == call[c]
        t == u.task
    IN
    /\ u.pc = "write"
    /\ status' = [status EXCEPT ![t] = IF u.st = "keep" THEN @ ELSE u.st]
    /\ blockedBy' = [blockedBy EXCEPT ![t] = IF u.replaces THEN u.deps ELSE @]
    /\ rewritten' = IF u.replaces THEN rewritten \cup {t} ELSE rewritten
    /\ done' = IF u.st = "completed" THEN done \cup {t} ELSE done
    /\ Goes(c, [u EXCEPT !.pc = "unblock"])
    /\ UNCHANGED <<blocks, used, updates, faults, inserts, born, late>>

\* UPDATE team_tasks with the fields that are Some.
UpdateWrite(c) ==
    LET u == call[c]
        t == u.task
    IN
    /\ u.pc = "write"
    /\ status' = [status EXCEPT ![t] = IF u.st = "keep" THEN @ ELSE u.st]
    /\ blockedBy' = [blockedBy EXCEPT ![t] = IF u.replaces THEN u.deps ELSE @]
    /\ rewritten' = IF u.replaces THEN rewritten \cup {t} ELSE rewritten
    /\ done' = IF u.st = "completed" THEN done \cup {t} ELSE done
    /\ IF u.st = "completed"
       THEN Goes(c, [u EXCEPT !.pc = "unblock"])
       ELSE call' = [call EXCEPT ![c] = Idle]
    /\ UNCHANGED <<blocks, used, updates, faults, inserts, born, late>>

\* Mutants of Unblock: the call lingers after its last dependent; the loop
\* returns after the first one.
UnblockKeepsPc(c, t) ==
    /\ call[c].pc = "unblock" /\ t \in call[c].todo
    /\ blockedBy' = [blockedBy EXCEPT ![t] = @ \ {call[c].task}]
    /\ call' = [call EXCEPT ![c].pc = "idle"]
    /\ UNCHANGED <<status, blocks, used, updates, faults, inserts, born, done,
                   rewritten, late>>
UnblockFirst(c, t) ==
    /\ call[c].pc = "unblock" /\ t \in call[c].todo
    /\ blockedBy' = [blockedBy EXCEPT ![t] = @ \ {call[c].task}]
    /\ call' = [call EXCEPT ![c] = Idle]
    /\ UNCHANGED <<status, blocks, used, updates, faults, inserts, born, done,
                   rewritten, late>>

\* check_unblocks: remove_from_blocked_by for one dependent.
Unblock(c, t) ==
    /\ call[c].pc = "unblock" /\ t \in call[c].todo
    /\ blockedBy' = [blockedBy EXCEPT ![t] = @ \ {call[c].task}]
    /\ Goes(c, [call[c] EXCEPT !.todo = @ \ {t}])
    /\ UNCHANGED <<status, blocks, used, updates, faults, inserts, born, done,
                   rewritten, late>>

\* A statement fails, or the backend dies: the rest of the call never runs.
CutOff(c) ==
    /\ call[c].pc # "idle"
    /\ faults < MaxFaults
    /\ faults' = faults + 1
    /\ call' = [call EXCEPT ![c] = Idle]
    /\ UNCHANGED <<rows, used, updates, inserts, born, done, rewritten, late>>

Next ==
    \E c \in Callers :
        \/ \E t \in Tasks, deps \in SUBSET Tasks : CreateBegin(c, t, deps)
        \/ Insert(c)
        \/ \E d \in Tasks : Link(c, d)
        \/ \E t \in Tasks, st \in {"keep", "pending", "completed"},
              replaces \in BOOLEAN, deps \in SUBSET Tasks :
                  UpdateBegin(c, t, st, replaces, deps)
        \/ UpdateWrite(c)
        \/ \E t \in Tasks : Unblock(c, t)
        \/ CutOff(c)

Spec == Init /\ [][Next]_vars

-----------------------------------------------------------------------------
(* Properties                                                               *)

\* A dependency stored in one direction is stored in the other, once the call
\* that creates it is through: concurrent creates that name the same task do
\* not lose each other's link.  Exceptions: a failed call, and an update that
\* replaced blocked_by, which never touches blocks.
LinksBothWays ==
    \A t, d \in Tasks :
        (d \in blockedBy[t] /\ t \notin rewritten /\ faults = 0)
        => \/ t \in blocks[d]
           \/ \E c \in Callers : call[c].pc = "link" /\ call[c].task = t
                                 /\ d \in call[c].todo

\* A dependent that was linked before its dependency began to complete is
\* released by it, whatever other calls run meanwhile.
LinkedDependentsReleased ==
    \A t, d \in Tasks :
        (/\ d \in blockedBy[t] /\ status[d] = "completed"
         /\ t \notin rewritten /\ faults = 0)
        => \/ <<t, d>> \in late
           \/ \E c \in Callers : call[c].pc = "link" /\ call[c].task = t
                                 /\ d \in call[c].todo
           \/ \E c \in Callers : call[c].pc = "unblock" /\ call[c].task = d
                                 /\ t \in call[c].todo

\* create_task makes no dependency cycle: what a task was created with is
\* older than the task, also after failures and updates of other tasks.
DependsOnOlder ==
    \A t \in Tasks \ rewritten : \A d \in blockedBy[t] :
        Exists(d) /\ born[d] < born[t]

\* A dependency disappears only because the task depended on was completed at
\* some time, or because an update replaced the whole list.
OnlyCompletionReleases ==
    [][\A t \in Tasks : \A d \in blockedBy[t] \ blockedBy'[t] :
           d \in done \/ t \in rewritten']_vars
=============================================================================
