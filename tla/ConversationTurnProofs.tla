----------------------- MODULE ConversationTurnProofs -----------------------
(***************************************************************************)
(* Proofs about the turns of one conversation, for any number of sends,    *)
(* agent instances and stops.                                              *)
(***************************************************************************)
EXTENDS ConversationTurn, TLAPS

\* The record types, once and for all.
LEMMA TurnFields ==
    /\ \A x \in Turn : /\ x.inst \in Insts \cup {NoInst} /\ x.heard \in BOOLEAN
                       /\ [x EXCEPT !.heard = TRUE] \in Turn
    /\ \A x \in Agent : /\ x.kind \in Managers /\ x.status \in Status
                        /\ x.up \in BOOLEAN /\ x.timer \in BOOLEAN
                        /\ [x EXCEPT !.up = FALSE] \in Agent
                        /\ [x EXCEPT !.timer = FALSE] \in Agent
                        /\ [x EXCEPT !.timer = FALSE, !.status = "finished"] \in Agent
    /\ Unbuilt \in Agent
  BY DEF Turn, Agent, Managers, Status, Unbuilt

\* Moving a turn to another of its stages keeps its type.
LEMMA GotoType ==
    ASSUME TypeOK, NEW t \in Turns,
           NEW pc \in {"new", "build", "cell", "building", "ready", "spawned",
                       "relay", "complete", "done"},
           Goto(t, pc)
    PROVE  turn' \in [Turns -> Turn]
  BY DEF Goto, TypeOK, Turn

\* So does hearing a terminal event.
LEMMA HearType ==
    ASSUME TypeOK, NEW i, Hear(i)
    PROVE  turn' \in [Turns -> Turn]
  BY TurnFields DEF Hear, TypeOK

\* And emitting one.
LEMMA EmitType ==
    ASSUME TypeOK, NEW i, EmitEnd(i)
    PROVE  turn' \in [Turns -> Turn] /\ agent' \in [Insts -> Agent]
<1>1. CASE agent[i].status = "finished"
  BY <1>1 DEF EmitEnd, TypeOK
<1>2. CASE agent[i].status # "finished"
  <2>1. agent' = [agent EXCEPT ![i].status = "finished"] /\ Hear(i)
    BY <1>2 DEF EmitEnd
  <2>2. agent' \in [Insts -> Agent]
    BY <2>1 DEF TypeOK, Agent, Status
  <2>. QED BY <2>1, <2>2, HearType
<1>. QED BY <1>1, <1>2

\* And killing the registered task.
LEMMA KillType ==
    ASSUME TypeOK, KillTask
    PROVE  /\ turn' \in [Turns -> Turn] /\ agent' \in [Insts -> Agent]
           /\ slot' \in Insts \cup {NoInst}
<1>1. CASE UNCHANGED <<agent, turn>>
  BY <1>1 DEF KillTask, TypeOK
<1>2. CASE agent' = [agent EXCEPT ![slot].up = FALSE, ![slot].status = "finished"] /\ Hear(slot)
  <2>1. agent' \in [Insts -> Agent]
    BY <1>2, ZenonT(60) DEF TypeOK, Agent, Status
  <2>. QED BY <1>2, <2>1, HearType DEF KillTask
<1>3. CASE agent' = [agent EXCEPT ![slot].up = FALSE] /\ UNCHANGED turn
  BY <1>3 DEF KillTask, TypeOK, Agent
<1>. QED BY <1>1, <1>2, <1>3 DEF KillTask

\* What a cancel does, manager by manager.
LEMMA CancelCases ==
    ASSUME TypeOK, Cancel
    PROVE  /\ slot \in Insts /\ UNCHANGED <<row, slot, cell, hook, lost>>
           /\ \/ /\ agent' = [agent EXCEPT ![slot].status = "finished"]
                 /\ Hear(slot) /\ UNCHANGED send
              \/ /\ send' = [t \in Turns |-> IF turn[t].inst = slot /\ send[t] = "prompt"
                                             THEN "abort" ELSE send[t]]
                 /\ UNCHANGED <<agent, turn>>
              \/ /\ agent' = [agent EXCEPT ![slot].timer = TRUE]
                 /\ UNCHANGED <<send, turn>>
              \/ UNCHANGED <<agent, send, turn>>
<1>1. slot \in Insts
  BY DEF Cancel, TypeOK
<1>2. agent[slot].kind \in {"acp", "aionrs", "openclaw", "nanobot"}
  BY <1>1, TurnFields DEF TypeOK, Managers
<1>. QED BY <1>1, <1>2 DEF Cancel

\* Every step of a turn, of its send, and of whoever stops it keeps the types.
LEMMA TypeStep == TypeOK /\ [Next]_vars => TypeOK'
<1> SUFFICES ASSUME TypeOK, [Next]_vars PROVE TypeOK'
  OBVIOUS
<1> USE DEF TypeOK
<1>1. ASSUME NEW t \in Turns, SendMessage(t) PROVE TypeOK'
  BY <1>1, GotoType DEF SendMessage
<1>2. ASSUME NEW t \in Turns, Refuse(t) PROVE TypeOK'
  BY <1>2, GotoType DEF Refuse
<1>3. ASSUME NEW t \in Turns, TakeCell(t) PROVE TypeOK'
  <2>1. CASE slot # NoInst
    BY <1>3, <2>1 DEF TakeCell, Turn
  <2>2. CASE slot = NoInst
    BY <1>3, <2>2 DEF TakeCell, Turn
  <2>. QED BY <2>1, <2>2
<1>4. ASSUME NEW t \in Turns, EnterCell(t) PROVE TypeOK'
  BY <1>4, GotoType DEF EnterCell
<1>5. ASSUME NEW t \in Turns, Built(t) PROVE TypeOK'
  <2>1. PICK k \in Kinds : agent' = [agent EXCEPT ![turn[t].inst] =
                               [Unbuilt EXCEPT !.kind = k, !.up = TRUE]]
    BY <1>5 DEF Built
  <2>2. [Unbuilt EXCEPT !.kind = k, !.up = TRUE] \in Agent
    BY TurnConstants DEF Unbuilt, Agent, Managers, Status
  <2>. QED BY <1>5, <2>1, <2>2, GotoType DEF Built
<1>6. ASSUME NEW t \in Turns, BuildFails(t) PROVE TypeOK'
  BY <1>6, GotoType DEF BuildFails
<1>7. ASSUME NEW t \in Turns, MarkRunning(t) PROVE TypeOK'
  BY <1>7, GotoType DEF MarkRunning
<1>8. ASSUME NEW t \in Turns, StartRelay(t) PROVE TypeOK'
  BY <1>8, ZenonT(60) DEF StartRelay, Turn, Sends
<1>9. ASSUME NEW t \in Turns, EndRelay(t) PROVE TypeOK'
  BY <1>9, GotoType DEF EndRelay
<1>10. ASSUME NEW t \in Turns, NEW u \in Turns, Continue(t, u) PROVE TypeOK'
  <2>1. turn[t] \in Turn /\ turn[u] \in Turn
    BY <1>10
  <2>2. /\ [turn[t] EXCEPT !.pc = "done"] \in Turn
        /\ [turn[u] EXCEPT !.pc = "spawned", !.inst = turn[t].inst] \in Turn
    BY <2>1 DEF Turn
  <2>3. t # u
    BY <1>10 DEF Continue
  <2>4. turn' = [turn EXCEPT ![t] = [turn[t] EXCEPT !.pc = "done"],
                             ![u] = [turn[u] EXCEPT !.pc = "spawned", !.inst = turn[t].inst]]
    BY <1>10, <2>3 DEF Continue
  <2>5. turn' \in [Turns -> Turn]
    BY <2>2, <2>4
  <2>. QED BY <1>10, <2>5 DEF Continue
<1>11. ASSUME NEW t \in Turns, Complete(t) PROVE TypeOK'
  BY <1>11, GotoType DEF Complete
<1>27. ASSUME NEW t \in Turns, MarkFails(t) PROVE TypeOK'
  BY <1>27, GotoType DEF MarkFails, Stop
<1>28. ASSUME NEW t \in Turns, CompleteFails(t) PROVE TypeOK'
  BY <1>28, GotoType DEF CompleteFails, Stop
<1>12. ASSUME NEW t \in Turns, SendReset(t) PROVE TypeOK'
  BY <1>12 DEF SendReset, Agent, Status, Sends
<1>13. ASSUME NEW t \in Turns, SendTransition(t) PROVE TypeOK'
  BY <1>13, ZenonT(60) DEF SendTransition, TransitionTo, Agent, Status, Sends
<1>14. ASSUME NEW t \in Turns, LockEngine(t) PROVE TypeOK'
  BY <1>14 DEF LockEngine, Sends
<1>15. ASSUME NEW t \in Turns, PromptEnds(t) PROVE TypeOK'
  BY <1>15, EmitType DEF PromptEnds, Sends
<1>16. ASSUME NEW t \in Turns, Accepted(t) PROVE TypeOK'
  BY <1>16 DEF Accepted, Sends
<1>17. ASSUME NEW t \in Turns, SendFails(t) PROVE TypeOK'
  <2>1. turn' \in [Turns -> Turn] /\ agent' \in [Insts -> Agent]
    BY <1>17, EmitType DEF SendFails
  <2>. QED BY <1>17, <2>1 DEF SendFails, Sends
<1>18. ASSUME NEW t \in Turns, CliEnds(t) PROVE TypeOK'
  <2>1. turn' \in [Turns -> Turn]
    BY <1>18, HearType DEF CliEnds
  <2>2. agent' \in [Insts -> Agent]
    BY <1>18, ZenonT(60) DEF CliEnds, Agent, Status
  <2>. QED BY <1>18, <2>1, <2>2 DEF CliEnds, Sends
<1>19. ASSUME Cancel PROVE TypeOK'
  <2>1. turn' \in [Turns -> Turn]
    BY <1>19, HearType DEF Cancel, Managers, Agent
  <2>2. agent' \in [Insts -> Agent]
    BY <1>19, ZenonT(60) DEF Cancel, Agent, Managers, Status
  <2>3. send' \in [Turns -> Sends]
    BY <1>19 DEF Cancel, Agent, Managers, Sends
  <2>. QED BY <1>19, <2>1, <2>2, <2>3 DEF Cancel, Stop
<1>20. ASSUME Kill PROVE TypeOK'
  BY <1>20, KillType DEF Kill, Stop
<1>21. ASSUME Delete PROVE TypeOK'
  BY <1>21 DEF Delete, Stop
<1>22. ASSUME DeleteHook PROVE TypeOK'
  BY <1>22, KillType DEF DeleteHook
<1>23. ASSUME NEW i \in Insts, Fallback(i) PROVE TypeOK'
  <2>1. turn' \in [Turns -> Turn]
    BY <1>23, HearType DEF Fallback
  <2>2. agent' \in [Insts -> Agent]
    BY <1>23, TurnFields DEF Fallback
  <2>. QED BY <1>23, <2>1, <2>2 DEF Fallback
<1>24. ASSUME NEW i \in Insts, Dies(i) PROVE TypeOK'
  <2>1. agent' \in [Insts -> Agent]
    BY <1>24, TurnFields DEF Dies
  <2>. QED BY <1>24, <2>1 DEF Dies, Stop
<1>25. ASSUME NEW i \in Insts, ChannelClosed(i) PROVE TypeOK'
  BY <1>25 DEF ChannelClosed, Agent, Status
<1>26. CASE UNCHANGED vars
  BY <1>26 DEF vars
<1>. QED
  BY <1>1, <1>2, <1>3, <1>4, <1>5, <1>6, <1>7, <1>8, <1>9, <1>10, <1>11, <1>12,
     <1>13, <1>14, <1>15, <1>16, <1>17, <1>18, <1>19, <1>20, <1>21, <1>22,
     <1>23, <1>24, <1>25, <1>26, <1>27, <1>28 DEF Next, Step, SendStep

\* The initial state has the types.
LEMMA InitTypes == Init => TypeOK
<1> SUFFICES ASSUME Init PROVE TypeOK
  OBVIOUS
<1>1. [pc |-> "new", inst |-> NoInst, heard |-> FALSE] \in Turn
  BY DEF Turn
<1>. QED BY <1>1, TurnFields DEF Init, TypeOK, Sends

\* Type correctness of the conversation's turns.
THEOREM TurnTypes == Spec => []TypeOK
  BY InitTypes, TypeStep, PTL DEF Spec




-----------------------------------------------------------------------------
(* Cells                                                                    *)

\* A turn past TakeCell has a cell; the one turn that runs the factory keeps
\* it "building"; a turn past get_or_try_init finds it built for good.
CellInv ==
    /\ \A t \in Turns :
          /\ turn[t].pc \in {"cell", "building", "ready", "spawned", "relay", "complete"}
             => turn[t].inst \in Insts
          /\ turn[t].pc = "building" => cell[turn[t].inst] = "building"
          /\ turn[t].pc \in {"ready", "spawned", "relay", "complete"}
             => cell[turn[t].inst] = "built"
    /\ \A t, u \in Turns :
          turn[t].pc = "building" /\ turn[u].pc = "building" /\ turn[t].inst = turn[u].inst
          => t = u

\* What a terminal event does to the turns: nothing but being heard.
LEMMA Heard ==
    ASSUME TypeOK, NEW i, Hear(i) \/ UNCHANGED turn
    PROVE  \A t \in Turns : turn'[t].pc = turn[t].pc /\ turn'[t].inst = turn[t].inst
  BY DEF TypeOK, Turn, Hear

\* Steps that only make turns hear keep the cells' invariant.
LEMMA CellFrame ==
    ASSUME TypeOK, CellInv, UNCHANGED cell,
           \A t \in Turns : turn'[t].pc = turn[t].pc /\ turn'[t].inst = turn[t].inst
    PROVE  CellInv'
  BY DEF CellInv

\* get_or_build_task hands one OnceCell to every caller and initialises it
\* once; every step keeps it so.
LEMMA CellStep == TypeOK /\ CellInv /\ [Next]_vars => CellInv'
<1> SUFFICES ASSUME TypeOK, CellInv, [Next]_vars PROVE CellInv'
  OBVIOUS
<1>1. ASSUME NEW t \in Turns, SendMessage(t) PROVE CellInv'
  BY <1>1 DEF SendMessage, TypeOK, CellInv, Turn, Goto
<1>2. ASSUME NEW t \in Turns, Refuse(t) PROVE CellInv'
  BY <1>2 DEF Refuse, TypeOK, CellInv, Turn, Goto
<1>3. ASSUME NEW t \in Turns, TakeCell(t) PROVE CellInv'
  <2>1. /\ turn'[t].pc = "cell" /\ turn'[t].inst \in Insts
        /\ \A v \in Turns \ {t} : turn'[v] = turn[v]
    <3>1. CASE slot # NoInst
      BY <1>3, <3>1 DEF TakeCell, TypeOK, Turn
    <3>2. CASE slot = NoInst
      BY <1>3, <3>2 DEF TakeCell, TypeOK, Turn
    <3>. QED BY <3>1, <3>2
  <2>2. \A i \in Insts : cell[i] # "fresh" => cell'[i] = cell[i]
    BY <1>3 DEF TakeCell, TypeOK
  <2>. QED BY <2>1, <2>2 DEF CellInv
<1>4. ASSUME NEW t \in Turns, EnterCell(t) PROVE CellInv'
  BY <1>4, SMTT(30) DEF EnterCell, TypeOK, CellInv, Turn, Goto
<1>5. ASSUME NEW t \in Turns, Built(t) PROVE CellInv'
  BY <1>5 DEF Built, TypeOK, CellInv, Turn, Goto
<1>6. ASSUME NEW t \in Turns, BuildFails(t) PROVE CellInv'
  BY <1>6 DEF BuildFails, TypeOK, CellInv, Turn, Goto
<1>7. ASSUME NEW t \in Turns, MarkRunning(t) PROVE CellInv'
  BY <1>7, SMTT(30) DEF MarkRunning, TypeOK, CellInv, Turn, Goto
<1>8. ASSUME NEW t \in Turns, StartRelay(t) PROVE CellInv'
  BY <1>8 DEF StartRelay, TypeOK, CellInv, Turn, Goto
<1>9. ASSUME NEW t \in Turns, EndRelay(t) PROVE CellInv'
  BY <1>9 DEF EndRelay, TypeOK, CellInv, Turn, Goto
<1>10. ASSUME NEW t \in Turns, NEW u \in Turns, Continue(t, u) PROVE CellInv'
  <2>1. t # u
    BY <1>10 DEF Continue
  <2>2. /\ turn'[t].pc = "done" /\ turn'[u].pc = "spawned" /\ turn'[u].inst = turn[t].inst
        /\ \A v \in Turns \ {t, u} : turn'[v] = turn[v]
    BY <1>10, <2>1 DEF Continue, TypeOK, Turn
  <2>3. turn[t].inst \in Insts /\ cell[turn[t].inst] = "built" /\ UNCHANGED cell
    BY <1>10 DEF Continue, CellInv
  <2>4. \A v \in Turns :
          \/ turn'[v].pc = "done"
          \/ turn'[v].pc = "spawned" /\ turn'[v].inst = turn[t].inst
          \/ turn'[v] = turn[v]
    BY <2>2
  <2>. QED BY <2>3, <2>4 DEF CellInv
<1>11. ASSUME NEW t \in Turns, Complete(t) PROVE CellInv'
  BY <1>11 DEF Complete, TypeOK, CellInv, Turn, Goto
<1>27. ASSUME NEW t \in Turns, MarkFails(t) PROVE CellInv'
  BY <1>27 DEF MarkFails, Stop, TypeOK, CellInv, Turn, Goto
<1>28. ASSUME NEW t \in Turns, CompleteFails(t) PROVE CellInv'
  BY <1>28 DEF CompleteFails, Stop, TypeOK, CellInv, Turn, Goto
<1>12. ASSUME NEW t \in Turns, SendReset(t) PROVE CellInv'
  BY <1>12 DEF SendReset, CellInv
<1>13. ASSUME NEW t \in Turns, SendTransition(t) PROVE CellInv'
  BY <1>13 DEF SendTransition, CellInv
<1>14. ASSUME NEW t \in Turns, LockEngine(t) PROVE CellInv'
  BY <1>14 DEF LockEngine, CellInv
<1>15. ASSUME NEW t \in Turns, PromptEnds(t) PROVE CellInv'
  BY <1>15, Heard, CellFrame DEF PromptEnds, EmitEnd
<1>16. ASSUME NEW t \in Turns, Accepted(t) PROVE CellInv'
  BY <1>16 DEF Accepted, CellInv
<1>17. ASSUME NEW t \in Turns, SendFails(t) PROVE CellInv'
  BY <1>17, Heard, CellFrame DEF SendFails, EmitEnd
<1>18. ASSUME NEW t \in Turns, CliEnds(t) PROVE CellInv'
  BY <1>18, Heard, CellFrame DEF CliEnds
<1>19. ASSUME Cancel PROVE CellInv'
  BY <1>19, CancelCases, Heard, CellFrame
<1>20. ASSUME Kill PROVE CellInv'
  BY <1>20, Heard, CellFrame DEF Kill, KillTask
<1>21. ASSUME Delete PROVE CellInv'
  BY <1>21 DEF Delete, CellInv
<1>22. ASSUME DeleteHook PROVE CellInv'
  BY <1>22, Heard, CellFrame DEF DeleteHook, KillTask
<1>23. ASSUME NEW i \in Insts, Fallback(i) PROVE CellInv'
  BY <1>23, Heard, CellFrame DEF Fallback
<1>24. ASSUME NEW i \in Insts, Dies(i) PROVE CellInv'
  BY <1>24 DEF Dies, CellInv
<1>25. ASSUME NEW i \in Insts, ChannelClosed(i) PROVE CellInv'
  BY <1>25 DEF ChannelClosed, CellInv
<1>26. CASE UNCHANGED vars
  BY <1>26 DEF vars, TypeOK, CellInv, Turn, Goto
<1>. QED
  BY <1>1, <1>2, <1>3, <1>4, <1>5, <1>6, <1>7, <1>8, <1>9, <1>10, <1>11,
     <1>12, <1>13, <1>14, <1>15, <1>16, <1>17, <1>18, <1>19, <1>20,
     <1>21, <1>22, <1>23, <1>24, <1>25, <1>26, <1>27, <1>28 DEF Next, Step, SendStep

-----------------------------------------------------------------------------
(* Relays                                                                   *)

\* A built agent keeps its manager: no step builds an instance twice.
LEMMA KindStable ==
    ASSUME TypeOK, CellInv, [Next]_vars, NEW i \in Insts, cell[i] = "built"
    PROVE  agent'[i].kind = agent[i].kind
<1>1. ASSUME NEW t \in Turns, SendMessage(t) PROVE agent'[i].kind = agent[i].kind
  BY <1>1 DEF SendMessage, TypeOK, Agent
<1>2. ASSUME NEW t \in Turns, Refuse(t) PROVE agent'[i].kind = agent[i].kind
  BY <1>2 DEF Refuse, TypeOK, Agent
<1>3. ASSUME NEW t \in Turns, TakeCell(t) PROVE agent'[i].kind = agent[i].kind
  BY <1>3 DEF TakeCell, TypeOK, Agent
<1>4. ASSUME NEW t \in Turns, EnterCell(t) PROVE agent'[i].kind = agent[i].kind
  BY <1>4 DEF EnterCell, TypeOK, Agent
<1>5. ASSUME NEW t \in Turns, Built(t) PROVE agent'[i].kind = agent[i].kind
  BY <1>5 DEF Built, CellInv, TypeOK, Agent
<1>6. ASSUME NEW t \in Turns, BuildFails(t) PROVE agent'[i].kind = agent[i].kind
  BY <1>6 DEF BuildFails, TypeOK, Agent
<1>7. ASSUME NEW t \in Turns, MarkRunning(t) PROVE agent'[i].kind = agent[i].kind
  BY <1>7 DEF MarkRunning, TypeOK, Agent
<1>8. ASSUME NEW t \in Turns, StartRelay(t) PROVE agent'[i].kind = agent[i].kind
  BY <1>8 DEF StartRelay, TypeOK, Agent
<1>9. ASSUME NEW t \in Turns, EndRelay(t) PROVE agent'[i].kind = agent[i].kind
  BY <1>9 DEF EndRelay, TypeOK, Agent
<1>10. ASSUME NEW t \in Turns, NEW u \in Turns, Continue(t, u) PROVE agent'[i].kind = agent[i].kind
  BY <1>10 DEF Continue, TypeOK, Agent
<1>11. ASSUME NEW t \in Turns, Complete(t) PROVE agent'[i].kind = agent[i].kind
  BY <1>11 DEF Complete, TypeOK, Agent
<1>27. ASSUME NEW t \in Turns, MarkFails(t) PROVE agent'[i].kind = agent[i].kind
  BY <1>27 DEF MarkFails, Stop, TypeOK, Agent
<1>28. ASSUME NEW t \in Turns, CompleteFails(t) PROVE agent'[i].kind = agent[i].kind
  BY <1>28 DEF CompleteFails, Stop, TypeOK, Agent
<1>12. ASSUME NEW t \in Turns, SendReset(t) PROVE agent'[i].kind = agent[i].kind
  BY <1>12 DEF SendReset, TypeOK, Agent
<1>13. ASSUME NEW t \in Turns, SendTransition(t) PROVE agent'[i].kind = agent[i].kind
  BY <1>13 DEF SendTransition, TransitionTo, TypeOK, Agent
<1>14. ASSUME NEW t \in Turns, LockEngine(t) PROVE agent'[i].kind = agent[i].kind
  BY <1>14 DEF LockEngine, TypeOK, Agent
<1>15. ASSUME NEW t \in Turns, PromptEnds(t) PROVE agent'[i].kind = agent[i].kind
  BY <1>15 DEF PromptEnds, EmitEnd, TypeOK, Agent
<1>16. ASSUME NEW t \in Turns, Accepted(t) PROVE agent'[i].kind = agent[i].kind
  BY <1>16 DEF Accepted, TypeOK, Agent
<1>17. ASSUME NEW t \in Turns, SendFails(t) PROVE agent'[i].kind = agent[i].kind
  BY <1>17 DEF SendFails, EmitEnd, TypeOK, Agent
<1>18. ASSUME NEW t \in Turns, CliEnds(t) PROVE agent'[i].kind = agent[i].kind
  BY <1>18 DEF CliEnds, TypeOK, Agent
<1>19. ASSUME Cancel PROVE agent'[i].kind = agent[i].kind
  BY <1>19, CancelCases DEF TypeOK, Agent
<1>20. ASSUME Kill PROVE agent'[i].kind = agent[i].kind
  BY <1>20 DEF Kill, KillTask, TypeOK, Agent
<1>21. ASSUME Delete PROVE agent'[i].kind = agent[i].kind
  BY <1>21 DEF Delete, TypeOK, Agent
<1>22. ASSUME DeleteHook PROVE agent'[i].kind = agent[i].kind
  BY <1>22 DEF DeleteHook, KillTask, TypeOK, Agent
<1>23. ASSUME NEW j \in Insts, Fallback(j) PROVE agent'[i].kind = agent[i].kind
  BY <1>23 DEF Fallback, TypeOK, Agent
<1>24. ASSUME NEW j \in Insts, Dies(j) PROVE agent'[i].kind = agent[i].kind
  BY <1>24 DEF Dies, TypeOK, Agent
<1>25. ASSUME NEW j \in Insts, ChannelClosed(j) PROVE agent'[i].kind = agent[i].kind
  BY <1>25 DEF ChannelClosed, TypeOK, Agent
<1>26. CASE UNCHANGED vars
  BY <1>26 DEF vars
<1>. QED
  BY <1>1, <1>2, <1>3, <1>4, <1>5, <1>6, <1>7, <1>8, <1>9, <1>10, <1>11,
     <1>12, <1>13, <1>14, <1>15, <1>16, <1>17, <1>18, <1>19, <1>20,
     <1>21, <1>22, <1>23, <1>24, <1>25, <1>26, <1>27, <1>28 DEF Next, Step, SendStep

\* Every step keeps the relays of acp and aionrs turns served: only a step that
\* reaches every relay of the instance sets its status to Finished.
LEMMA StuckStep == TypeOK /\ CellInv /\ NeverStuck /\ [Next]_vars => NeverStuck'
<1> SUFFICES ASSUME TypeOK, CellInv, NeverStuck, [Next]_vars PROVE NeverStuck'
  OBVIOUS
<1> USE DEF NeverStuck, Waiting, WillHear, KindOf
<1>1. ASSUME NEW t \in Turns, SendMessage(t) PROVE NeverStuck'
  BY <1>1 DEF SendMessage, TypeOK, CellInv, Turn, Agent, Goto
<1>2. ASSUME NEW t \in Turns, Refuse(t) PROVE NeverStuck'
  BY <1>2 DEF Refuse, TypeOK, CellInv, Turn, Agent, Goto
<1>3. ASSUME NEW t \in Turns, TakeCell(t) PROVE NeverStuck'
  BY <1>3, SMTT(30) DEF TakeCell, TypeOK, CellInv, Turn, Agent, Goto
<1>4. ASSUME NEW t \in Turns, EnterCell(t) PROVE NeverStuck'
  BY <1>4 DEF EnterCell, TypeOK, CellInv, Turn, Agent, Goto
<1>5. ASSUME NEW t \in Turns, Built(t) PROVE NeverStuck'
  BY <1>5 DEF Built, TypeOK, CellInv, Turn, Agent, Goto
<1>6. ASSUME NEW t \in Turns, BuildFails(t) PROVE NeverStuck'
  BY <1>6 DEF BuildFails, TypeOK, CellInv, Turn, Agent, Goto
<1>7. ASSUME NEW t \in Turns, MarkRunning(t) PROVE NeverStuck'
  BY <1>7 DEF MarkRunning, TypeOK, CellInv, Turn, Agent, Goto
<1>8. ASSUME NEW t \in Turns, StartRelay(t) PROVE NeverStuck'
  BY <1>8 DEF StartRelay, TypeOK, CellInv, Turn, Agent, Goto
<1>9. ASSUME NEW t \in Turns, EndRelay(t) PROVE NeverStuck'
  BY <1>9 DEF EndRelay, TypeOK, CellInv, Turn, Agent, Goto
<1>10. ASSUME NEW t \in Turns, NEW u \in Turns, Continue(t, u) PROVE NeverStuck'
  BY <1>10, SMTT(30) DEF Continue, TypeOK, CellInv, Turn, Agent, Goto
<1>11. ASSUME NEW t \in Turns, Complete(t) PROVE NeverStuck'
  BY <1>11 DEF Complete, TypeOK, CellInv, Turn, Agent, Goto
<1>27. ASSUME NEW t \in Turns, MarkFails(t) PROVE NeverStuck'
  BY <1>27 DEF MarkFails, Stop, TypeOK, CellInv, Turn, Agent, Goto
<1>28. ASSUME NEW t \in Turns, CompleteFails(t) PROVE NeverStuck'
  BY <1>28 DEF CompleteFails, Stop, TypeOK, CellInv, Turn, Agent, Goto
<1>12. ASSUME NEW t \in Turns, SendReset(t) PROVE NeverStuck'
  BY <1>12 DEF SendReset, TypeOK, CellInv, Turn, Agent, Goto
<1>13. ASSUME NEW t \in Turns, SendTransition(t) PROVE NeverStuck'
  BY <1>13 DEF SendTransition, TransitionTo, TypeOK, CellInv, Turn, Agent, Goto
<1>14. ASSUME NEW t \in Turns, LockEngine(t) PROVE NeverStuck'
  BY <1>14 DEF LockEngine, TypeOK, CellInv, Turn, Agent, Goto
<1>15. ASSUME NEW t \in Turns, PromptEnds(t) PROVE NeverStuck'
  BY <1>15 DEF PromptEnds, EmitEnd, Hear, TypeOK, CellInv, Turn, Agent, Goto
<1>16. ASSUME NEW t \in Turns, Accepted(t) PROVE NeverStuck'
  BY <1>16 DEF Accepted, TypeOK, CellInv, Turn, Agent, Goto
<1>17. ASSUME NEW t \in Turns, SendFails(t) PROVE NeverStuck'
  BY <1>17 DEF SendFails, EmitEnd, Hear, TypeOK, CellInv, Turn, Agent, Goto
<1>18. ASSUME NEW t \in Turns, CliEnds(t) PROVE NeverStuck'
  BY <1>18 DEF CliEnds, Hear, TypeOK, CellInv, Turn, Agent, Goto
<1>19. ASSUME Cancel PROVE NeverStuck'
  BY <1>19, CancelCases DEF Hear, TypeOK, CellInv, Turn, Agent
<1>20. ASSUME Kill PROVE NeverStuck'
  BY <1>20 DEF Kill, KillTask, Hear, TypeOK, CellInv, Turn, Agent, Goto
<1>21. ASSUME Delete PROVE NeverStuck'
  BY <1>21 DEF Delete, TypeOK, CellInv, Turn, Agent, Goto
<1>22. ASSUME DeleteHook PROVE NeverStuck'
  BY <1>22 DEF DeleteHook, KillTask, Hear, TypeOK, CellInv, Turn, Agent, Goto
<1>23. ASSUME NEW i \in Insts, Fallback(i) PROVE NeverStuck'
  BY <1>23, SMTT(30) DEF Fallback, Hear, TypeOK, CellInv, Turn, Agent, Goto
<1>24. ASSUME NEW i \in Insts, Dies(i) PROVE NeverStuck'
  BY <1>24 DEF Dies, TypeOK, CellInv, Turn, Agent, Goto
<1>25. ASSUME NEW i \in Insts, ChannelClosed(i) PROVE NeverStuck'
  BY <1>25 DEF ChannelClosed, TypeOK, CellInv, Turn, Agent, Goto
<1>26. CASE UNCHANGED vars
  BY <1>26 DEF vars, TypeOK, CellInv, Turn, Agent, Goto
<1>. QED
  BY <1>1, <1>2, <1>3, <1>4, <1>5, <1>6, <1>7, <1>8, <1>9, <1>10, <1>11,
     <1>12, <1>13, <1>14, <1>15, <1>16, <1>17, <1>18, <1>19, <1>20,
     <1>21, <1>22, <1>23, <1>24, <1>25, <1>26, <1>27, <1>28 DEF Next, Step, SendStep

-----------------------------------------------------------------------------
(* Results                                                                  *)

\* The inductive invariant of a conversation's turns.
TurnInv == TypeOK /\ CellInv /\ NeverStuck /\ RunningHasTurn

\* A row that says running has a turn to free it; only MarkRunning sets it and
\* only complete_conversation and delete leave it without one.
LEMMA RunningStep == TypeOK /\ RunningHasTurn /\ [Next]_vars => RunningHasTurn'
<1> SUFFICES ASSUME TypeOK, RunningHasTurn, [Next]_vars PROVE RunningHasTurn'
  OBVIOUS
<1> USE DEF RunningHasTurn
<1>1. ASSUME NEW t \in Turns, SendMessage(t) PROVE RunningHasTurn'
  BY <1>1 DEF SendMessage, TypeOK, Turn, Goto
<1>2. ASSUME NEW t \in Turns, Refuse(t) PROVE RunningHasTurn'
  BY <1>2 DEF Refuse, TypeOK, Turn, Goto
<1>3. ASSUME NEW t \in Turns, TakeCell(t) PROVE RunningHasTurn'
  BY <1>3 DEF TakeCell, TypeOK, Turn, Goto
<1>4. ASSUME NEW t \in Turns, EnterCell(t) PROVE RunningHasTurn'
  BY <1>4 DEF EnterCell, TypeOK, Turn, Goto
<1>5. ASSUME NEW t \in Turns, Built(t) PROVE RunningHasTurn'
  BY <1>5 DEF Built, TypeOK, Turn, Goto
<1>6. ASSUME NEW t \in Turns, BuildFails(t) PROVE RunningHasTurn'
  BY <1>6 DEF BuildFails, TypeOK, Turn, Goto
<1>7. ASSUME NEW t \in Turns, MarkRunning(t) PROVE RunningHasTurn'
  BY <1>7 DEF MarkRunning, TypeOK, Turn, Goto
<1>8. ASSUME NEW t \in Turns, StartRelay(t) PROVE RunningHasTurn'
  BY <1>8 DEF StartRelay, TypeOK, Turn, Goto
<1>9. ASSUME NEW t \in Turns, EndRelay(t) PROVE RunningHasTurn'
  BY <1>9 DEF EndRelay, TypeOK, Turn, Goto
<1>10. ASSUME NEW t \in Turns, NEW u \in Turns, Continue(t, u) PROVE RunningHasTurn'
  BY <1>10 DEF Continue, TypeOK, Turn, Goto
<1>11. ASSUME NEW t \in Turns, Complete(t) PROVE RunningHasTurn'
  BY <1>11 DEF Complete, TypeOK, Turn, Goto
<1>27. ASSUME NEW t \in Turns, MarkFails(t) PROVE RunningHasTurn'
  BY <1>27 DEF MarkFails, Stop, TypeOK, Turn, Goto
<1>28. ASSUME NEW t \in Turns, CompleteFails(t) PROVE RunningHasTurn'
  BY <1>28 DEF CompleteFails, Stop, TypeOK, Turn, Goto
<1>12. ASSUME NEW t \in Turns, SendReset(t) PROVE RunningHasTurn'
  BY <1>12 DEF SendReset, TypeOK, Turn, Goto
<1>13. ASSUME NEW t \in Turns, SendTransition(t) PROVE RunningHasTurn'
  BY <1>13 DEF SendTransition, TypeOK, Turn, Goto
<1>14. ASSUME NEW t \in Turns, LockEngine(t) PROVE RunningHasTurn'
  BY <1>14 DEF LockEngine, TypeOK, Turn, Goto
<1>15. ASSUME NEW t \in Turns, PromptEnds(t) PROVE RunningHasTurn'
  BY <1>15, Heard DEF PromptEnds, EmitEnd
<1>16. ASSUME NEW t \in Turns, Accepted(t) PROVE RunningHasTurn'
  BY <1>16 DEF Accepted, TypeOK, Turn, Goto
<1>17. ASSUME NEW t \in Turns, SendFails(t) PROVE RunningHasTurn'
  BY <1>17, Heard DEF SendFails, EmitEnd
<1>18. ASSUME NEW t \in Turns, CliEnds(t) PROVE RunningHasTurn'
  BY <1>18, Heard DEF CliEnds
<1>19. ASSUME Cancel PROVE RunningHasTurn'
  BY <1>19, CancelCases, Heard
<1>20. ASSUME Kill PROVE RunningHasTurn'
  BY <1>20, Heard DEF Kill, KillTask
<1>21. ASSUME Delete PROVE RunningHasTurn'
  BY <1>21 DEF Delete, TypeOK, Turn, Goto
<1>22. ASSUME DeleteHook PROVE RunningHasTurn'
  BY <1>22, Heard DEF DeleteHook, KillTask
<1>23. ASSUME NEW i \in Insts, Fallback(i) PROVE RunningHasTurn'
  BY <1>23, Heard DEF Fallback
<1>24. ASSUME NEW i \in Insts, Dies(i) PROVE RunningHasTurn'
  BY <1>24 DEF Dies, TypeOK, Turn, Goto
<1>25. ASSUME NEW i \in Insts, ChannelClosed(i) PROVE RunningHasTurn'
  BY <1>25 DEF ChannelClosed, TypeOK, Turn, Goto
<1>26. CASE UNCHANGED vars
  BY <1>26 DEF vars, TypeOK, Turn, Goto
<1>. QED
  BY <1>1, <1>2, <1>3, <1>4, <1>5, <1>6, <1>7, <1>8, <1>9, <1>10, <1>11,
     <1>12, <1>13, <1>14, <1>15, <1>16, <1>17, <1>18, <1>19, <1>20,
     <1>21, <1>22, <1>23, <1>24, <1>25, <1>26, <1>27, <1>28 DEF Next, Step, SendStep

\* The inductive invariant holds in every reachable state, whatever cancels,
\* kills, deletions, process deaths and overlapping sends there are.
THEOREM TurnInvariant == Spec => []TurnInv
<1>1. Init => TurnInv
  <2> SUFFICES ASSUME Init PROVE TurnInv
    OBVIOUS
  <2>1. TypeOK
    BY InitTypes
  <2>2. CellInv /\ NeverStuck /\ RunningHasTurn
    BY DEF Init, CellInv, NeverStuck, Waiting, RunningHasTurn
  <2>. QED BY <2>1, <2>2 DEF TurnInv
<1>2. TurnInv /\ [Next]_vars => TurnInv'
  BY TypeStep, CellStep, StuckStep, RunningStep DEF TurnInv
<1>. QED
  BY <1>1, <1>2, PTL DEF Spec

\* A relay of an acp or aionrs turn is never left waiting for an event that
\* emit_finish and emit_error would swallow.
THEOREM RelaysAreServed == Spec => []NeverStuck
<1>1. TurnInv => NeverStuck
  BY DEF TurnInv
<1>. QED
  BY <1>1, TurnInvariant, PTL

\* A conversation marked running has a turn that will set it back, so the
\* guard of send_message does not lock its users out for good -- except after a
\* completion whose update of the row failed.
THEOREM RunningIsFreed == Spec => []RunningHasTurn
<1>1. TurnInv => RunningHasTurn
  BY DEF TurnInv
<1>. QED
  BY <1>1, TurnInvariant, PTL
=============================================================================
