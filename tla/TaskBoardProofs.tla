-------------------------- MODULE TaskBoardProofs --------------------------
(* Proofs that TaskBoard keeps its safety properties for every set of tasks *)
(* and callers and every bound.                                             *)
EXTENDS TaskBoard, TLAPS

USE DEF Exists

\* Every step keeps the types.
LEMMA TypeStep == TypeOK /\ [Next]_vars => TypeOK'
<1> SUFFICES ASSUME TypeOK, [Next]_vars PROVE TypeOK'
  OBVIOUS
<1>. USE BoardAssumption
<1>1. ASSUME NEW c \in Callers, NEW t \in Tasks, NEW deps \in SUBSET Tasks,
             CreateBegin(c, t, deps)
      PROVE  TypeOK'
  BY <1>1 DEF CreateBegin, rows, Call, TypeOK
<1>2. ASSUME NEW c \in Callers, Insert(c)
      PROVE  TypeOK'
  <2>1. call[c] \in Call
    BY <1>2 DEF Insert, Idle, TypeOK
  <2>2. [call[c] EXCEPT !.pc = "link"] \in Call
    BY <2>1 DEF Call, TypeOK
  <2>3. call' \in [Callers -> Call \cup {Idle}]
    BY <1>2, <2>2 DEF Insert, Goes, TypeOK
  <2>4. call[c].task \in Tasks /\ call[c].todo \subseteq Tasks
    BY <2>1 DEF Call, TypeOK
  <2>. QED BY <1>2, <2>3, <2>4 DEF Insert, TypeOK
<1>3. ASSUME NEW c \in Callers, NEW d \in Tasks, Link(c, d)
      PROVE  TypeOK'
  <2>1. call[c] \in Call
    BY <1>3 DEF Link, Idle, TypeOK
  <2>2. [call[c] EXCEPT !.todo = @ \ {d}] \in Call
    BY <2>1 DEF Call, TypeOK
  <2>3. call' \in [Callers -> Call \cup {Idle}]
    BY <1>3, <2>2 DEF Link, Goes, TypeOK
  <2>4. call[c].task \in Tasks
    BY <2>1 DEF Call, TypeOK
  <2>. QED BY <1>3, <2>3, <2>4 DEF Link, TypeOK
<1>4. ASSUME NEW c \in Callers, NEW t \in Tasks,
             NEW st \in {"keep", "pending", "completed"},
             NEW replaces \in BOOLEAN, NEW deps \in SUBSET Tasks,
             UpdateBegin(c, t, st, replaces, deps)
      PROVE  TypeOK'
  <2>1. [pc |-> "write", task |-> t, todo |-> blocks[t], st |-> st,
         replaces |-> replaces, deps |-> deps] \in Call
    BY DEF Call, TypeOK
  <2>2. call' \in [Callers -> Call \cup {Idle}]
    BY <1>4, <2>1 DEF UpdateBegin, TypeOK
  <2>. QED BY <1>4, <2>2 DEF UpdateBegin, rows, TypeOK
<1>5. ASSUME NEW c \in Callers, UpdateWrite(c)
      PROVE  TypeOK'
  <2>1. call[c] \in Call
    BY <1>5 DEF UpdateWrite, Idle, TypeOK
  <2>2. [call[c] EXCEPT !.pc = "unblock"] \in Call
    BY <2>1 DEF Call, TypeOK
  <2>3. call' \in [Callers -> Call \cup {Idle}]
    BY <1>5, <2>2 DEF UpdateWrite, Goes, TypeOK
  <2>4. /\ call[c].task \in Tasks /\ call[c].deps \subseteq Tasks
        /\ call[c].st \in {"pending", "completed", "keep"}
    BY <2>1 DEF Call, TypeOK
  <2>. QED BY <1>5, <2>3, <2>4 DEF UpdateWrite, TypeOK
<1>6. ASSUME NEW c \in Callers, NEW t \in Tasks, Unblock(c, t)
      PROVE  TypeOK'
  <2>1. call[c] \in Call
    BY <1>6 DEF Unblock, Idle, TypeOK
  <2>2. [call[c] EXCEPT !.todo = @ \ {t}] \in Call
    BY <2>1 DEF Call, TypeOK
  <2>3. call' \in [Callers -> Call \cup {Idle}]
    BY <1>6, <2>2 DEF Unblock, Goes, TypeOK
  <2>. QED BY <1>6, <2>3 DEF Unblock, TypeOK
<1>7. ASSUME NEW c \in Callers, CutOff(c)
      PROVE  TypeOK'
  BY <1>7 DEF CutOff, rows, TypeOK
<1>8. CASE UNCHANGED vars
  BY <1>8 DEF vars, rows, TypeOK
<1>. QED
  BY <1>1, <1>2, <1>3, <1>4, <1>5, <1>6, <1>7, <1>8 DEF Next

\* The columns and the calls of the task board always hold values of their
\* types.
THEOREM TypeCorrect == Spec => []TypeOK
<1>1. Init => TypeOK
  BY DEF Init, TypeOK
<1>. QED
  BY <1>1, TypeStep, PTL DEF Spec

-----------------------------------------------------------------------------
(* The inductive invariant                                                  *)

\* A create that is still to link t to its dependency d.
Linking(t, d) ==
    \E c \in Callers : call[c].pc = "link" /\ call[c].task = t /\ d \in call[c].todo

\* A completing update that is still to release t from d.
Releasing(t, d) ==
    \E c \in Callers : call[c].pc = "unblock" /\ call[c].task = d /\ t \in call[c].todo

\* What a call knows stays true until it acts on it: the id of a create is
\* its own and unused, its dependencies exist, an updated task exists, and
\* only completed tasks release others.
CallsSound ==
    /\ \A t \in Tasks : Exists(t) => t \in used /\ born[t] < inserts
    /\ \A t \in Tasks : ~Exists(t) => blockedBy[t] = {}
    /\ \A c \in Callers : call[c].pc = "insert" =>
          /\ call[c].task \in used /\ ~Exists(call[c].task)
          /\ \A d \in call[c].todo : Exists(d)
    /\ \A c, e \in Callers :
          (c # e /\ call[c].pc = "insert" /\ call[e].pc = "insert")
          => call[c].task # call[e].task
    /\ \A c \in Callers : call[c].pc = "write" => Exists(call[c].task)
    /\ \A c \in Callers : call[c].pc = "unblock" => call[c].task \in done

\* The blocks column a completing update has read names every dependent that
\* is not recorded as late or still being linked.
SnapshotComplete ==
    \A c \in Callers : \A t \in Tasks :
        (/\ faults = 0 /\ t \notin rewritten
         /\ call[c].pc = "write" /\ call[c].st = "completed"
         /\ call[c].task \in blockedBy[t])
        => t \in call[c].todo \/ <<t, call[c].task>> \in late \/ Linking(t, call[c].task)

BoardInv ==
    /\ TypeOK /\ CallsSound /\ SnapshotComplete
    /\ LinksBothWays /\ LinkedDependentsReleased /\ DependsOnOlder

\* What is known of a call from its type.
LEMMA CallFields ==
    ASSUME TypeOK, NEW c \in Callers
    PROVE  /\ call[c].pc = "idle" => call[c] = Idle
           /\ call[c].pc # "idle" =>
                 /\ call[c] \in Call
                 /\ call[c].task \in Tasks
                 /\ call[c].todo \subseteq Tasks
                 /\ call[c].deps \subseteq Tasks
                 /\ call[c].st \in {"pending", "completed", "keep"}
BY DEF TypeOK, Call, Idle

\* Opening a call in which nothing is written keeps the invariant.
LEMMA CreateBeginStep ==
    ASSUME BoardInv, TypeOK', NEW c \in Callers, NEW t \in Tasks,
           NEW deps \in SUBSET Tasks, CreateBegin(c, t, deps)
    PROVE  BoardInv'
<1>1. /\ call[c].pc = "idle" /\ t \notin used /\ used' = used \cup {t}
      /\ call'[c].pc = "insert" /\ call'[c].task = t /\ call'[c].todo = deps
      /\ \A e \in Callers \ {c} : call'[e] = call[e]
      /\ \A d \in deps : Exists(d)
      /\ UNCHANGED <<status, blockedBy, blocks, updates, faults, inserts, born,
                     done, rewritten, late>>
  BY DEF CreateBegin, BoardInv, TypeOK, rows
<1>2. CallsSound'
  BY <1>1 DEF BoardInv, CallsSound
<1>3. \A u, d \in Tasks : Linking(u, d) => Linking(u, d)'
  BY <1>1 DEF Linking
<1>4. SnapshotComplete'
  BY <1>1, <1>3 DEF BoardInv, SnapshotComplete, TypeOK, CallsSound
<1>5. LinksBothWays' /\ LinkedDependentsReleased' /\ DependsOnOlder'
  BY <1>1 DEF BoardInv, LinksBothWays, LinkedDependentsReleased, DependsOnOlder
<1>. QED
  BY <1>2, <1>4, <1>5 DEF BoardInv

\* The new row names only older tasks, and all its links are still to come.
LEMMA InsertStep ==
    ASSUME BoardInv, TypeOK', NEW c \in Callers, Insert(c)
    PROVE  BoardInv'
<1>0. PICK t \in Tasks, deps \in SUBSET Tasks :
          call[c].pc = "insert" /\ t = call[c].task /\ deps = call[c].todo
  BY CallFields DEF Insert, BoardInv
<1>1. /\ call[c].pc = "insert"
      /\ t \in used /\ ~Exists(t) /\ \A d \in deps : Exists(d)
      /\ status' = [status EXCEPT ![t] = "pending"]
      /\ blockedBy' = [blockedBy EXCEPT ![t] = deps]
      /\ born' = [born EXCEPT ![t] = inserts] /\ inserts' = inserts + 1
      /\ UNCHANGED <<blocks, used, updates, faults, done, rewritten, late>>
  BY <1>0 DEF Insert, BoardInv, CallsSound
<1>2. \A e \in Callers \ {c} : call'[e] = call[e]
  BY DEF Insert, Goes, BoardInv, TypeOK
<1>3. /\ call'[c].pc \in {"idle", "link"}
      /\ deps # {} => call'[c].pc = "link" /\ call'[c].task = t
                      /\ call'[c].todo = deps
  BY <1>0, CallFields DEF Insert, Goes, Idle, Call, BoardInv, TypeOK
<1>4. \A u, d \in Tasks : Linking(u, d) => Linking(u, d)'
  BY <1>1, <1>2 DEF Linking
<1>5. \A d \in deps : Linking(t, d)'
  BY <1>3 DEF Linking
<1>6. CallsSound'
  <2>1. \A u \in Tasks : Exists(u)' <=> Exists(u) \/ u = t
    BY <1>1 DEF BoardInv, TypeOK
  <2>2. \A u \in Tasks : Exists(u)' => u \in used' /\ born'[u] < inserts'
    BY <1>1, <2>1 DEF BoardInv, CallsSound, TypeOK
  <2>3. \A e \in Callers : call'[e].pc = "insert" =>
           e # c /\ call[e].task # t /\ call[e].pc = "insert"
    BY <1>0, <1>2, <1>3 DEF BoardInv, CallsSound
  <2>4. \A e \in Callers : call'[e].pc = "insert" =>
          /\ call'[e].task \in used' /\ ~Exists(call[e].task)'
          /\ \A d \in call'[e].todo : Exists(d)'
    BY <1>1, <1>2, <2>1, <2>3, CallFields DEF BoardInv, CallsSound, TypeOK
  <2>5. \A e \in Callers : call'[e].pc = "write" => Exists(call[e].task)'
    BY <1>1, <1>2, <1>3, <2>1, CallFields DEF BoardInv, CallsSound
  <2>6. \A u \in Tasks : ~Exists(u)' => blockedBy'[u] = {}
    BY <1>1, <2>1 DEF BoardInv, CallsSound, TypeOK
  <2>. QED
    BY <1>1, <1>2, <1>3, <2>2, <2>3, <2>4, <2>5, <2>6 DEF BoardInv, CallsSound
<1>7. SnapshotComplete'
  <2>1. SUFFICES ASSUME NEW e \in Callers, NEW u \in Tasks, NEW x,
                        x = call'[e].task, faults' = 0, u \notin rewritten',
                        call'[e].pc = "write", call'[e].st = "completed",
                        x \in blockedBy'[u]
                 PROVE  u \in call'[e].todo \/ <<u, x>> \in late' \/ Linking(u, x)'
    BY DEF SnapshotComplete, Linking
  <2>2. e # c /\ call'[e] = call[e] /\ x = call[e].task /\ x \in Tasks
    BY <1>2, <1>3, <2>1, CallFields DEF BoardInv
  <2>3. CASE u = t
    BY <1>1, <1>5, <2>1, <2>2, <2>3 DEF BoardInv, TypeOK
  <2>4. CASE u # t
    <3>1. x \in blockedBy[u]
      BY <1>1, <2>1, <2>2, <2>4 DEF BoardInv, TypeOK
    <3>. QED BY <1>1, <1>4, <2>1, <2>2, <3>1 DEF BoardInv, SnapshotComplete
  <2>. QED BY <2>3, <2>4
<1>8. LinksBothWays'
  BY <1>1, <1>4, <1>5 DEF BoardInv, LinksBothWays, Linking, TypeOK
<1>9. LinkedDependentsReleased'
  <2>1. \A u, x \in Tasks : Releasing(u, x) => Releasing(u, x)'
    BY <1>1, <1>2 DEF Releasing
  <2>2. SUFFICES ASSUME NEW u \in Tasks, NEW x \in Tasks,
                        x \in blockedBy'[u], status'[x] = "completed",
                        u \notin rewritten', faults' = 0
                 PROVE  <<u, x>> \in late' \/ Linking(u, x)' \/ Releasing(u, x)'
    BY DEF LinkedDependentsReleased, Linking, Releasing
  <2>3. CASE u = t
    BY <1>1, <1>5, <2>2, <2>3 DEF BoardInv, TypeOK
  <2>4. CASE u # t
    <3>1. x \in blockedBy[u] /\ status[x] = "completed"
      BY <1>1, <2>2, <2>4 DEF BoardInv, TypeOK
    <3>2. <<u, x>> \in late \/ Linking(u, x) \/ Releasing(u, x)
      BY <1>1, <2>2, <3>1
         DEF BoardInv, LinkedDependentsReleased, Linking, Releasing
    <3>. QED BY <1>1, <1>4, <2>1, <3>2
  <2>. QED BY <2>3, <2>4
<1>10. DependsOnOlder'
  BY <1>1 DEF BoardInv, DependsOnOlder, CallsSound, TypeOK
<1>. QED
  BY <1>6, <1>7, <1>8, <1>9, <1>10 DEF BoardInv

\* A link that comes while its dependency is completed or being completed is
\* recorded as late; every other one is seen by the completing update.
LEMMA LinkStep ==
    ASSUME BoardInv, TypeOK', NEW c \in Callers, NEW d \in Tasks, Link(c, d)
    PROVE  BoardInv'
<1>0. PICK t \in Tasks : call[c].pc = "link" /\ t = call[c].task
  BY CallFields DEF Link, BoardInv
<1>1. /\ d \in call[c].todo
      /\ blocks' = [blocks EXCEPT ![d] = @ \cup {t}]
      /\ status[d] = "completed" \/ Completing(d) => <<t, d>> \in late'
      /\ late \subseteq late'
      /\ UNCHANGED <<status, blockedBy, used, updates, faults, inserts, born,
                     done, rewritten>>
  BY <1>0 DEF Link, BoardInv
<1>2. \A e \in Callers \ {c} : call'[e] = call[e]
  BY DEF Link, Goes, BoardInv, TypeOK
<1>3. /\ call'[c].pc \in {"idle", "link"}
      /\ \A x \in call[c].todo \ {d} :
            call'[c].pc = "link" /\ call'[c].task = t /\ x \in call'[c].todo
  BY CallFields, <1>0, <1>1 DEF Link, Goes, Idle, Call, BoardInv, TypeOK
<1>4. \A u, x \in Tasks : Linking(u, x) => Linking(u, x)' \/ (u = t /\ x = d)
  BY <1>0, <1>1, <1>2, <1>3 DEF Linking
<1>6. CallsSound'
  BY <1>0, <1>1, <1>2, <1>3 DEF BoardInv, CallsSound
<1>7. SnapshotComplete'
  <2>1. SUFFICES ASSUME NEW e \in Callers, NEW u \in Tasks,
                        faults' = 0, u \notin rewritten',
                        call'[e].pc = "write", call'[e].st = "completed",
                        call'[e].task \in blockedBy'[u]
                 PROVE  \/ u \in call'[e].todo
                        \/ <<u, call'[e].task>> \in late'
                        \/ Linking(u, call[e].task)' /\ call'[e] = call[e]
    BY DEF SnapshotComplete, Linking
  <2>2. call'[e] = call[e]
    BY <1>2, <1>3, <2>1
  <2>3. PICK x \in Tasks : x = call[e].task
    BY <2>1, <2>2, CallFields DEF BoardInv
  <2>4. u \in call[e].todo \/ <<u, x>> \in late \/ Linking(u, x)
    BY <1>1, <2>1, <2>2, <2>3 DEF BoardInv, SnapshotComplete
  <2>5. CASE u = t /\ x = d
    BY <1>1, <2>1, <2>2, <2>3, <2>5 DEF Completing
  <2>. QED BY <1>1, <1>4, <2>2, <2>3, <2>4, <2>5 DEF Linking
<1>8. LinksBothWays'
  BY <1>1, <1>4 DEF BoardInv, LinksBothWays, Linking, TypeOK
<1>9. LinkedDependentsReleased'
  <2>1. \A u, x \in Tasks : Releasing(u, x) => Releasing(u, x)'
    BY <1>0, <1>1, <1>2 DEF Releasing
  <2>2. SUFFICES ASSUME NEW u \in Tasks, NEW x \in Tasks,
                        x \in blockedBy'[u], status'[x] = "completed",
                        u \notin rewritten', faults' = 0
                 PROVE  <<u, x>> \in late' \/ Linking(u, x)' \/ Releasing(u, x)'
    BY DEF LinkedDependentsReleased, Linking, Releasing
  <2>3. <<u, x>> \in late \/ Linking(u, x) \/ Releasing(u, x)
    BY <1>1, <2>2 DEF BoardInv, LinkedDependentsReleased, Linking, Releasing
  <2>. QED BY <1>1, <1>4, <2>1, <2>2, <2>3
<1>10. DependsOnOlder'
  BY <1>1 DEF BoardInv, DependsOnOlder
<1>. QED
  BY <1>6, <1>7, <1>8, <1>9, <1>10 DEF BoardInv

\* A completing update reads the blocks column, which LinksBothWays says is
\* complete up to the links still under way.
LEMMA UpdateBeginStep ==
    ASSUME BoardInv, TypeOK', NEW c \in Callers, NEW t \in Tasks,
           NEW st \in {"keep", "pending", "completed"}, NEW replaces \in BOOLEAN,
           NEW deps \in SUBSET Tasks, UpdateBegin(c, t, st, replaces, deps)
    PROVE  BoardInv'
<1>1. /\ call[c].pc = "idle" /\ Exists(t)
      /\ call'[c].pc = "write" /\ call'[c].task = t /\ call'[c].todo = blocks[t]
      /\ \A e \in Callers \ {c} : call'[e] = call[e]
      /\ UNCHANGED <<status, blockedBy, blocks, used, faults, inserts, born,
                     done, rewritten, late>>
  BY DEF UpdateBegin, BoardInv, TypeOK, rows
<1>2. CallsSound'
  BY <1>1 DEF BoardInv, CallsSound
<1>3. \A u, d \in Tasks : Linking(u, d) => Linking(u, d)'
  BY <1>1 DEF Linking
<1>4. SnapshotComplete'
  <2>1. SUFFICES ASSUME NEW e \in Callers, NEW u \in Tasks, NEW x,
                        x = call'[e].task, faults' = 0, u \notin rewritten',
                        call'[e].pc = "write", call'[e].st = "completed",
                        x \in blockedBy'[u]
                 PROVE  u \in call'[e].todo \/ <<u, x>> \in late' \/ Linking(u, x)'
    BY DEF SnapshotComplete, Linking
  <2>2. CASE e = c
    <3>1. u \in blocks[t] \/ Linking(u, t)
      BY <1>1, <2>1, <2>2 DEF BoardInv, LinksBothWays, Linking
    <3>. QED BY <1>1, <1>3, <2>1, <2>2, <3>1
  <2>3. CASE e # c
    BY <1>1, <1>3, <2>1, <2>3, CallFields DEF BoardInv, SnapshotComplete
  <2>. QED BY <2>2, <2>3
<1>5. LinksBothWays' /\ LinkedDependentsReleased' /\ DependsOnOlder'
  BY <1>1 DEF BoardInv, LinksBothWays, LinkedDependentsReleased, DependsOnOlder
<1>. QED
  BY <1>2, <1>4, <1>5 DEF BoardInv

\* Completing a task turns its snapshot into the list of tasks to release.
LEMMA UpdateWriteStep ==
    ASSUME BoardInv, TypeOK', NEW c \in Callers, UpdateWrite(c)
    PROVE  BoardInv'
<1>0. PICK t \in Tasks : call[c].pc = "write" /\ t = call[c].task
  BY CallFields DEF UpdateWrite, BoardInv
<1>1. /\ Exists(t)
      /\ status' = [status EXCEPT ![t] = IF call[c].st = "keep" THEN @ ELSE call[c].st]
      /\ blockedBy' = [blockedBy EXCEPT ![t] = IF call[c].replaces THEN call[c].deps ELSE @]
      /\ rewritten \subseteq rewritten' /\ (call[c].replaces => t \in rewritten')
      /\ done \subseteq done' /\ (call[c].st = "completed" => t \in done')
      /\ UNCHANGED <<blocks, used, updates, faults, inserts, born, late>>
  BY <1>0 DEF UpdateWrite, BoardInv, CallsSound
<1>2. \A e \in Callers \ {c} : call'[e] = call[e]
  BY DEF UpdateWrite, Goes, BoardInv, TypeOK
<1>3. /\ call'[c].pc \in {"idle", "unblock"}
      /\ call'[c].pc = "unblock" => call[c].st = "completed" /\ call'[c].task = t
      /\ call[c].st = "completed" =>
            \A u \in call[c].todo : call'[c].pc = "unblock" /\ u \in call'[c].todo
  BY <1>0, CallFields DEF UpdateWrite, Goes, Idle, Call, BoardInv, TypeOK
<1>4. \A u, d \in Tasks : Linking(u, d) => Linking(u, d)'
  BY <1>0, <1>2 DEF Linking
<1>5. \A u, d \in Tasks : Releasing(u, d) => Releasing(u, d)'
  BY <1>0, <1>2 DEF Releasing
<1>6. \A u \in Tasks : Exists(u)' <=> Exists(u)
  BY <1>1, <1>0, CallFields DEF BoardInv, TypeOK
<1>7. \A u \in Tasks \ rewritten' : blockedBy'[u] = blockedBy[u]
  BY <1>1 DEF BoardInv, TypeOK
<1>8. CallsSound'
  BY <1>0, <1>1, <1>2, <1>3, <1>6, CallFields DEF BoardInv, CallsSound
<1>9. SnapshotComplete'
  <2>1. SUFFICES ASSUME NEW e \in Callers, NEW u \in Tasks, NEW x,
                        x = call'[e].task, faults' = 0, u \notin rewritten',
                        call'[e].pc = "write", call'[e].st = "completed",
                        x \in blockedBy'[u]
                 PROVE  u \in call'[e].todo \/ <<u, x>> \in late' \/ Linking(u, x)'
    BY DEF SnapshotComplete, Linking
  <2>2. e # c /\ call'[e] = call[e] /\ x = call[e].task /\ x \in Tasks
    BY <1>2, <1>3, <2>1, CallFields DEF BoardInv
  <2>. QED BY <1>1, <1>4, <1>7, <2>1, <2>2 DEF BoardInv, SnapshotComplete
<1>10. LinksBothWays'
  BY <1>1, <1>4, <1>7 DEF BoardInv, LinksBothWays, Linking
<1>11. LinkedDependentsReleased'
  <2>1. SUFFICES ASSUME NEW u \in Tasks, NEW x \in Tasks,
                        x \in blockedBy'[u], status'[x] = "completed",
                        u \notin rewritten', faults' = 0
                 PROVE  <<u, x>> \in late' \/ Linking(u, x)' \/ Releasing(u, x)'
    BY DEF LinkedDependentsReleased, Linking, Releasing
  <2>2. x \in blockedBy[u] /\ u \notin rewritten /\ faults = 0
    BY <1>1, <1>7, <2>1
  <2>3. CASE x = t /\ call[c].st = "completed"
    <3>1. u \in call[c].todo \/ <<u, x>> \in late \/ Linking(u, x)
      BY <1>0, <2>2, <2>3 DEF BoardInv, SnapshotComplete
    <3>2. u \in call[c].todo => Releasing(u, x)'
      BY <1>3, <2>3 DEF Releasing
    <3>. QED BY <1>1, <1>4, <3>1, <3>2
  <2>4. CASE ~(x = t /\ call[c].st = "completed")
    <3>1. status[x] = "completed"
      BY <1>0, <1>1, <2>1, <2>4, CallFields DEF BoardInv, TypeOK
    <3>2. <<u, x>> \in late \/ Linking(u, x) \/ Releasing(u, x)
      BY <2>2, <3>1 DEF BoardInv, LinkedDependentsReleased, Linking, Releasing
    <3>. QED BY <1>1, <1>4, <1>5, <3>2
  <2>. QED BY <2>3, <2>4
<1>12. DependsOnOlder'
  BY <1>1, <1>6, <1>7 DEF BoardInv, DependsOnOlder, TypeOK
<1>. QED
  BY <1>8, <1>9, <1>10, <1>11, <1>12 DEF BoardInv

\* A release only shortens blocked_by, and only by a completed task.
LEMMA UnblockStep ==
    ASSUME BoardInv, TypeOK', NEW c \in Callers, NEW t \in Tasks, Unblock(c, t)
    PROVE  BoardInv'
<1>0. PICK x \in Tasks : call[c].pc = "unblock" /\ x = call[c].task
  BY CallFields DEF Unblock, BoardInv
<1>1. /\ t \in call[c].todo
      /\ blockedBy' = [blockedBy EXCEPT ![t] = @ \ {x}]
      /\ UNCHANGED <<status, blocks, used, updates, faults, inserts, born, done,
                     rewritten, late>>
  BY <1>0 DEF Unblock
<1>2. \A e \in Callers \ {c} : call'[e] = call[e]
  BY DEF Unblock, Goes, BoardInv, TypeOK
<1>3. /\ call'[c].pc \in {"idle", "unblock"}
      /\ call'[c].pc = "unblock" => call'[c].task = x
      /\ \A u \in call[c].todo \ {t} :
            call'[c].pc = "unblock" /\ call'[c].task = x /\ u \in call'[c].todo
  BY <1>0, CallFields DEF Unblock, Goes, Idle, Call, BoardInv, TypeOK
<1>4. \A u, d \in Tasks : Linking(u, d) => Linking(u, d)'
  BY <1>0, <1>2 DEF Linking
<1>5. \A u, d \in Tasks : Releasing(u, d) => Releasing(u, d)' \/ (u = t /\ d = x)
  BY <1>0, <1>2, <1>3 DEF Releasing
<1>6. \A u \in Tasks : blockedBy'[u] \subseteq blockedBy[u]
  BY <1>1 DEF BoardInv, TypeOK
<1>7. x \notin blockedBy'[t]
  BY <1>1 DEF BoardInv, TypeOK
<1>8. CallsSound'
  BY <1>0, <1>1, <1>2, <1>3 DEF BoardInv, CallsSound
<1>9. SnapshotComplete'
  <2>1. SUFFICES ASSUME NEW e \in Callers, NEW u \in Tasks, NEW d,
                        d = call'[e].task, faults' = 0, u \notin rewritten',
                        call'[e].pc = "write", call'[e].st = "completed",
                        d \in blockedBy'[u]
                 PROVE  u \in call'[e].todo \/ <<u, d>> \in late' \/ Linking(u, d)'
    BY DEF SnapshotComplete, Linking
  <2>2. e # c /\ call'[e] = call[e] /\ d = call[e].task /\ d \in Tasks
    BY <1>2, <1>3, <2>1, CallFields DEF BoardInv
  <2>. QED BY <1>1, <1>4, <1>6, <2>1, <2>2 DEF BoardInv, SnapshotComplete
<1>10. LinksBothWays'
  BY <1>1, <1>4, <1>6 DEF BoardInv, LinksBothWays, Linking
<1>11. LinkedDependentsReleased'
  <2>1. SUFFICES ASSUME NEW u \in Tasks, NEW d \in Tasks,
                        d \in blockedBy'[u], status'[d] = "completed",
                        u \notin rewritten', faults' = 0
                 PROVE  <<u, d>> \in late' \/ Linking(u, d)' \/ Releasing(u, d)'
    BY DEF LinkedDependentsReleased, Linking, Releasing
  <2>2. <<u, d>> \in late \/ Linking(u, d) \/ Releasing(u, d)
    BY <1>1, <1>6, <2>1 DEF BoardInv, LinkedDependentsReleased, Linking, Releasing
  <2>. QED BY <1>1, <1>4, <1>5, <1>7, <2>1, <2>2
<1>12. DependsOnOlder'
  BY <1>1, <1>6 DEF BoardInv, DependsOnOlder
<1>. QED
  BY <1>8, <1>9, <1>10, <1>11, <1>12 DEF BoardInv

\* A call that is cut off only leaves work undone.
LEMMA CutOffStep ==
    ASSUME BoardInv, TypeOK', NEW c \in Callers, CutOff(c)
    PROVE  BoardInv'
<1>1. /\ faults' # 0 /\ call'[c].pc = "idle"
      /\ \A e \in Callers \ {c} : call'[e] = call[e]
      /\ UNCHANGED <<status, blockedBy, blocks, used, updates, inserts, born,
                     done, rewritten, late>>
  BY DEF CutOff, BoardInv, TypeOK, Idle, rows
<1>2. CallsSound'
  BY <1>1 DEF BoardInv, CallsSound
<1>3. SnapshotComplete' /\ LinksBothWays' /\ LinkedDependentsReleased'
  BY <1>1 DEF SnapshotComplete, LinksBothWays, LinkedDependentsReleased
<1>4. DependsOnOlder'
  BY <1>1 DEF BoardInv, DependsOnOlder
<1>. QED
  BY <1>2, <1>3, <1>4 DEF BoardInv

\* Every step keeps the inductive invariant of the board: one case per
\* statement of create_task, update_task and check_unblocks.
LEMMA BoardStep == BoardInv /\ [Next]_vars => BoardInv'
<1> SUFFICES ASSUME BoardInv, [Next]_vars PROVE BoardInv'
  OBVIOUS
<1>1. TypeOK'
  BY TypeStep DEF BoardInv
<1>2. CASE UNCHANGED vars
  BY <1>1, <1>2 DEF vars, rows, BoardInv, CallsSound, SnapshotComplete,
     Linking, LinksBothWays, LinkedDependentsReleased, DependsOnOlder
<1>. QED
  BY <1>1, <1>2, CreateBeginStep, InsertStep, LinkStep, UpdateBeginStep,
     UpdateWriteStep, UnblockStep, CutOffStep DEF Next

-----------------------------------------------------------------------------
(* Results                                                                  *)

\* The inductive invariant holds in every reachable state.
THEOREM BoardInvariant == Spec => []BoardInv
<1>1. Init => BoardInv
  BY DEF Init, BoardInv, TypeOK, CallsSound, SnapshotComplete, LinksBothWays,
     LinkedDependentsReleased, DependsOnOlder, Idle
<1>. QED
  BY <1>1, BoardStep, PTL DEF Spec

\* Both directions of a dependency agree once its create is through, however
\* many agents use the board concurrently (create_task, append_to_blocks).
THEOREM LinksAgree == Spec => []LinksBothWays
<1>1. BoardInv => LinksBothWays
  BY DEF BoardInv
<1>. QED
  BY <1>1, BoardInvariant, PTL

\* A dependent linked before its dependency began to complete is released
\* (update_task, check_unblocks).
THEOREM DependentsReleased == Spec => []LinkedDependentsReleased
<1>1. BoardInv => LinkedDependentsReleased
  BY DEF BoardInv
<1>. QED
  BY <1>1, BoardInvariant, PTL

\* create_task makes no dependency cycle: dependencies are older.
THEOREM CreatesNoCycle == Spec => []DependsOnOlder
<1>1. BoardInv => DependsOnOlder
  BY DEF BoardInv
<1>. QED
  BY <1>1, BoardInvariant, PTL

\* A dependency disappears only by the completion of the task depended on or
\* by an update that replaces the list.
THEOREM ReleasedByCompletion == Spec => OnlyCompletionReleases
<1> DEFINE A == \A t \in Tasks : \A d \in blockedBy[t] \ blockedBy'[t] :
                    d \in done \/ t \in rewritten'
<1>1. BoardInv /\ BoardInv' /\ [Next]_vars => [A]_vars
  <2> SUFFICES ASSUME BoardInv, Next PROVE A
    OBVIOUS
  <2>1. ASSUME NEW c \in Callers, Insert(c) PROVE A
    BY <2>1, CallFields DEF Insert, BoardInv, CallsSound, TypeOK
  <2>2. ASSUME NEW c \in Callers, UpdateWrite(c) PROVE A
    BY <2>2, CallFields DEF UpdateWrite, BoardInv, TypeOK
  <2>3. ASSUME NEW c \in Callers, NEW t \in Tasks, Unblock(c, t) PROVE A
    BY <2>3, CallFields DEF Unblock, BoardInv, CallsSound, TypeOK
  <2>4. UNCHANGED blockedBy => A
    OBVIOUS
  <2>5. \A c \in Callers :
          /\ \A t \in Tasks, deps \in SUBSET Tasks :
                CreateBegin(c, t, deps) => UNCHANGED blockedBy
          /\ \A d \in Tasks : Link(c, d) => UNCHANGED blockedBy
          /\ \A t \in Tasks, st \in {"keep", "pending", "completed"},
                replaces \in BOOLEAN, deps \in SUBSET Tasks :
                UpdateBegin(c, t, st, replaces, deps) => UNCHANGED blockedBy
          /\ CutOff(c) => UNCHANGED blockedBy
    BY DEF CreateBegin, Link, UpdateBegin, CutOff, rows
  <2>. QED
    BY <2>1, <2>2, <2>3, <2>4, <2>5 DEF Next
<1>. QED
  BY <1>1, BoardInvariant, PTL DEF Spec, OnlyCompletionReleases
=============================================================================
