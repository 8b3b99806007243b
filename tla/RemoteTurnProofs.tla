--------------------------- MODULE RemoteTurnProofs ---------------------------
(* Safety of the turn slot and of the tool registration, for any number of  *)
(* conversations, turns and failures.                                       *)
EXTENDS RemoteTurn, TLAPS

-----------------------------------------------------------------------------
(* Types                                                                    *)

LEMMA TasksAre ==
    \A t \in Tasks : t[1] \in Convs /\ t[2] \in 0..MaxTurns /\ t = <<t[1], t[2]>>
BY DEF Tasks

\* The turns sent so far are tasks.
LEMMA TurnsAre ==
    ASSUME ConvsOK
    PROVE  \A c \in Convs : TurnsOf(c) \subseteq Tasks
BY RemoteAssumption DEF ConvsOK, TurnsOf, Tasks

LEMMA RobbedAre ==
    ASSUME ConvsOK, NEW t \in Tasks
    PROVE  Robbed(t) \subseteq Tasks
BY TurnsAre DEF Robbed

LEMMA HeadTail ==
    ASSUME NEW S, NEW s \in Seq(S), s # <<>>
    PROVE  Head(s) \in S /\ Tail(s) \in Seq(S)
OBVIOUS

\* The bounded events count within their bound.
LEMMA CountTypes ==
    ASSUME CountsOK, Fault \/ Trouble \/ UNCHANGED counts
    PROVE  CountsOK'
<1>1. troubles' \in 0..MaxTroubles
  BY RemoteAssumption DEF CountsOK, Fault, Trouble, counts
<1>2. failed' \in BOOLEAN
  BY Zenon DEF CountsOK, Fault, Trouble, counts
<1>. QED BY <1>1, <1>2 DEF CountsOK

\* Reports written to a stream and reports read from it are events.
LEMMA EmitTypes ==
    ASSUME ServerOK, NEW c \in Convs, NEW reports \in Seq(Event), Emit(c, reports)
    PROVE  events' \in [Convs -> Seq(Event)]
<1>1. events[c] \o reports \in Seq(Event)
  BY DEF ServerOK
<1>. QED BY <1>1 DEF ServerOK, Emit

LEMMA ReceiveTypes ==
    ASSUME ServerOK, NEW c \in Convs, NEW kinds, Receives(c, kinds)
    PROVE  /\ events' \in [Convs -> Seq(Event)] /\ Incoming(c) \in Event
<1>1. events[c] \in Seq(Event) /\ events[c] # <<>>
  BY DEF ServerOK, Receives
<1>2. Tail(events[c]) \in Seq(Event) /\ Head(events[c]) \in Event
  BY <1>1
<1>. QED BY <1>2 DEF ServerOK, Receives, Incoming

\* A release leaves the slot and the stages of the tasks well typed.
LEMMA ReleaseTypes ==
    ASSUME SlotOK, NEW c \in Convs, NEW p \in [Tasks -> Stages], ReleaseTurn(c, p)
    PROVE  SlotOK' /\ StagesOK'
<1>1. CASE active # c
  BY <1>1 DEF ReleaseTurn, SlotOK, StagesOK, slot
<1>2. CASE active = c /\ waiters = <<>>
  BY <1>2 DEF ReleaseTurn, SlotOK, StagesOK
<1>3. CASE active = c /\ waiters # <<>>
  <2>1. Head(waiters) \in Tasks /\ Tail(waiters) \in Seq(Tasks)
    BY <1>3 DEF SlotOK
  <2>. QED BY <1>3, <2>1 DEF ReleaseTurn, SlotOK, StagesOK, Stages
<1>. QED BY <1>1, <1>2, <1>3

\* Every step keeps the types.
LEMMA TypeStep == TypeOK /\ [Next]_vars => TypeOK'
<1> SUFFICES ASSUME TypeOK, [Next]_vars PROVE TypeOK'
  OBVIOUS
<1>1. ASSUME NEW t \in Tasks, BeginTurn(t) PROVE TypeOK'
  <2>1. SlotOK' /\ ToolsOK' /\ ConvsOK' /\ ServerOK' /\ CountsOK'
    BY <1>1 DEF TypeOK, SlotOK, ToolsOK, ConvsOK, ServerOK, CountsOK, slot, tools, flags, server, counts, history, BeginTurn
  <2>2. StagesOK'
    BY <1>1, TasksAre, RemoteAssumption DEF TypeOK, StagesOK, Stages, Goto, Onward, BeginTurn
  <2>3. FlagsOK'
    BY <1>1, TasksAre DEF TypeOK, FlagsOK, flags, BeginTurn
  <2>4. HistoryOK'
    BY <1>1, TasksAre, TurnsAre, RobbedAre DEF TypeOK, HistoryOK, history, Overlaps, BeginTurn
  <2>. QED BY <2>1, <2>2, <2>3, <2>4 DEF TypeOK
<1>2. ASSUME NEW t \in Tasks, AcquireTurn(t) PROVE TypeOK'
  <2>1. ToolsOK' /\ ConvsOK' /\ FlagsOK' /\ ServerOK' /\ CountsOK' /\ HistoryOK'
    BY <1>2 DEF TypeOK, ToolsOK, ConvsOK, FlagsOK, ServerOK, CountsOK, HistoryOK, slot, tools, flags, server, counts, history, AcquireTurn
  <2>2. active' \in Convs \cup {None}
    BY <1>2, TasksAre DEF TypeOK, SlotOK, AcquireTurn
  <2>3. waiters' = waiters \/ waiters' = Append(waiters, t)
    BY <1>2 DEF AcquireTurn
  <2>4. waiters' \in Seq(Tasks)
    BY <2>3 DEF TypeOK, SlotOK
  <2>5. permit' \in BOOLEAN
    BY <1>2, Zenon DEF TypeOK, SlotOK, AcquireTurn
  <2>6. SlotOK'
    BY <2>2, <2>4, <2>5 DEF SlotOK
  <2>7. StagesOK'
    BY <1>2, TasksAre, RemoteAssumption DEF TypeOK, StagesOK, Stages, Goto, Onward, AcquireTurn
  <2>. QED BY <2>1, <2>2, <2>3, <2>5, <2>6, <2>7 DEF TypeOK
<1>3. ASSUME NEW t \in Tasks, AlreadyOwned(t) PROVE TypeOK'
  <2>1. SlotOK' /\ ToolsOK' /\ ConvsOK' /\ FlagsOK' /\ ServerOK' /\ CountsOK'
    BY <1>3 DEF TypeOK, SlotOK, ToolsOK, ConvsOK, FlagsOK, ServerOK, CountsOK, slot, tools, flags, server, counts, history, AlreadyOwned
  <2>2. StagesOK'
    BY <1>3, TasksAre, RemoteAssumption DEF TypeOK, StagesOK, Stages, Goto, Onward, AlreadyOwned
  <2>3. HistoryOK'
    BY <1>3, TasksAre, TurnsAre, RobbedAre DEF TypeOK, HistoryOK, history, AlreadyOwned
  <2>. QED BY <2>1, <2>2, <2>3 DEF TypeOK
<1>4. ASSUME NEW t \in Tasks, LockRegistration(t) PROVE TypeOK'
  <2>1. SlotOK' /\ ConvsOK' /\ FlagsOK' /\ ServerOK' /\ CountsOK' /\ HistoryOK'
    BY <1>4 DEF TypeOK, SlotOK, ConvsOK, FlagsOK, ServerOK, CountsOK, HistoryOK, slot, tools, flags, server, counts, history, LockRegistration
  <2>2. StagesOK'
    BY <1>4, TasksAre, RemoteAssumption DEF TypeOK, StagesOK, Stages, Goto, Onward, LockRegistration
  <2>3. ToolsOK'
    BY <1>4, TasksAre DEF TypeOK, ToolsOK, LockRegistration
  <2>. QED BY <2>1, <2>2, <2>3 DEF TypeOK
<1>5. ASSUME NEW t \in Tasks, RegisterCandidate(t) PROVE TypeOK'
  <2>1. SlotOK' /\ ConvsOK' /\ FlagsOK' /\ ServerOK'
    BY <1>5 DEF TypeOK, SlotOK, ConvsOK, FlagsOK, ServerOK, slot, tools, flags, server, counts, history, RegisterCandidate
  <2>2. StagesOK'
    BY <1>5, TasksAre, RemoteAssumption DEF TypeOK, StagesOK, Stages, Goto, Onward, RegisterCandidate
  <2>3. ToolsOK'
    BY <1>5, TasksAre DEF TypeOK, ToolsOK, RegisterCandidate
  <2>4. Fault \/ Trouble \/ UNCHANGED counts
    BY <1>5, Zenon DEF RegisterCandidate
  <2>5. CountsOK'
    BY <2>4, CountTypes DEF TypeOK
  <2>6. HistoryOK'
    BY <1>5, TasksAre, TurnsAre, RobbedAre DEF TypeOK, HistoryOK, history, RegisterCandidate
  <2>. QED BY <2>1, <2>2, <2>3, <2>4, <2>5, <2>6 DEF TypeOK
<1>6. ASSUME NEW t \in Tasks, VerifyDialBack(t) PROVE TypeOK'
  <2>1. SlotOK' /\ ConvsOK' /\ FlagsOK' /\ ServerOK'
    BY <1>6 DEF TypeOK, SlotOK, ConvsOK, FlagsOK, ServerOK, slot, tools, flags, server, counts, history, VerifyDialBack
  <2>2. StagesOK'
    BY <1>6, TasksAre, RemoteAssumption DEF TypeOK, StagesOK, Stages, Goto, Onward, VerifyDialBack
  <2>3. ToolsOK'
    BY <1>6, TasksAre DEF TypeOK, ToolsOK, VerifyDialBack
  <2>4. Fault \/ Trouble \/ UNCHANGED counts
    BY <1>6, Zenon DEF VerifyDialBack
  <2>5. CountsOK'
    BY <2>4, CountTypes DEF TypeOK
  <2>6. HistoryOK'
    BY <1>6, TasksAre, TurnsAre, RobbedAre DEF TypeOK, HistoryOK, history, VerifyDialBack
  <2>. QED BY <2>1, <2>2, <2>3, <2>4, <2>5, <2>6 DEF TypeOK
<1>7. ASSUME NEW t \in Tasks, RegisterFallback(t) PROVE TypeOK'
  <2>1. SlotOK' /\ ConvsOK' /\ FlagsOK' /\ ServerOK' /\ CountsOK'
    BY <1>7 DEF TypeOK, SlotOK, ConvsOK, FlagsOK, ServerOK, CountsOK, slot, tools, flags, server, counts, history, RegisterFallback
  <2>2. StagesOK'
    BY <1>7, TasksAre, RemoteAssumption DEF TypeOK, StagesOK, Stages, Goto, Onward, RegisterFallback
  <2>3. ToolsOK'
    BY <1>7, TasksAre DEF TypeOK, ToolsOK, RegisterFallback
  <2>4. HistoryOK'
    BY <1>7, TasksAre, TurnsAre, RobbedAre DEF TypeOK, HistoryOK, history, RegisterFallback
  <2>. QED BY <2>1, <2>2, <2>3, <2>4 DEF TypeOK
<1>8. ASSUME NEW t \in Tasks, PostPrompt(t) PROVE TypeOK'
  <2>1. ToolsOK' /\ FlagsOK' /\ HistoryOK'
    BY <1>8 DEF TypeOK, ToolsOK, FlagsOK, HistoryOK, slot, tools, flags, server, counts, history, PostPrompt
  <2>2. [pc EXCEPT ![t] = "done"] \in [Tasks -> Stages]
    BY <1>8 DEF TypeOK, StagesOK, Stages
  <2>3. ReleaseTurn(t[1], [pc EXCEPT ![t] = "done"]) \/ (pc' = [pc EXCEPT ![t] = "done"] /\ UNCHANGED slot)
    BY <1>8 DEF PostPrompt
  <2>4. SlotOK' /\ StagesOK'
    BY <2>2, <2>3, TasksAre, ReleaseTypes DEF TypeOK, SlotOK, StagesOK, slot
  <2>5. session' \in [Convs -> BOOLEAN]
    BY <1>8, TasksAre, Zenon DEF TypeOK, ConvsOK, EndRelay, PostPrompt
  <2>6. turn' \in [Convs -> 0..MaxTurns]
    BY <1>8, RemoteAssumption DEF TypeOK, ConvsOK, PostPrompt
  <2>7. relay' \in [Convs -> 0..MaxTurns]
    BY <1>8, RemoteAssumption DEF TypeOK, ConvsOK, EndRelay, PostPrompt
  <2>8. ConvsOK'
    BY <2>5, <2>6, <2>7 DEF ConvsOK
  <2>9. events' \in [Convs -> Seq(Event)]
    BY <1>8, TasksAre DEF TypeOK, ServerOK, server, PostPrompt
  <2>10. t[2] \in 0..MaxTurns /\ t[1] \in Convs
    BY <1>8, TasksAre
  <2>11. Append(prompts[t[1]], t[2]) \in Seq(0..MaxTurns)
    BY <2>10 DEF TypeOK, ServerOK
  <2>12. prompts' \in [Convs -> Seq(0..MaxTurns)]
    BY <1>8, <2>9, <2>10, <2>11, TasksAre DEF TypeOK, ServerOK, server, PostPrompt
  <2>13. running' \in [Convs -> 0..MaxTurns]
    BY <1>8, <2>9, <2>10, <2>11, TasksAre, RemoteAssumption DEF TypeOK, ServerOK, server, PostPrompt
  <2>14. aborting' \in [Convs -> BOOLEAN]
    BY <1>8, Zenon DEF TypeOK, ServerOK, PostPrompt
  <2>15. ServerOK'
    BY <2>9, <2>12, <2>13, <2>14 DEF ServerOK
  <2>16. Fault \/ Trouble \/ UNCHANGED counts
    BY <1>8, Zenon DEF PostPrompt
  <2>17. CountsOK'
    BY <2>16, CountTypes DEF TypeOK
  <2>. QED BY <2>1, <2>2, <2>3, <2>4, <2>8, <2>15, <2>16, <2>17 DEF TypeOK
<1>9. ASSUME NEW t \in Tasks, TimeOut(t) PROVE TypeOK'
  <2>1. ToolsOK' /\ ConvsOK' /\ FlagsOK' /\ ServerOK'
    BY <1>9 DEF TypeOK, ToolsOK, ConvsOK, FlagsOK, ServerOK, slot, tools, flags, server, counts, history, TimeOut
  <2>2. PICK j \in 1..Len(waiters) : waiters' = Without(waiters, j)
    BY <1>9 DEF TimeOut
  <2>3. waiters' \in Seq(Tasks)
    BY <2>2 DEF TypeOK, SlotOK, Without
  <2>4. SlotOK'
    BY <1>9, <2>3, TasksAre DEF TypeOK, SlotOK, TimeOut
  <2>5. StagesOK'
    BY <1>9, TasksAre, RemoteAssumption DEF TypeOK, StagesOK, Stages, Goto, Onward, TimeOut
  <2>6. Fault \/ Trouble \/ UNCHANGED counts
    BY <1>9, Zenon DEF TimeOut
  <2>7. CountsOK'
    BY <2>6, CountTypes DEF TypeOK
  <2>8. HistoryOK'
    BY <1>9, TasksAre, TurnsAre, RobbedAre DEF TypeOK, HistoryOK, history, TimeOut
  <2>. QED BY <2>1, <2>4, <2>5, <2>6, <2>7, <2>8 DEF TypeOK
<1>10. ASSUME NEW c \in Convs, Connect(c) PROVE TypeOK'
  <2>1. SlotOK' /\ ToolsOK' /\ FlagsOK' /\ ServerOK' /\ HistoryOK'
    BY <1>10 DEF TypeOK, SlotOK, ToolsOK, FlagsOK, ServerOK, HistoryOK, slot, tools, flags, server, counts, history, Connect
  <2>2. StagesOK'
    BY <1>10, TasksAre, RemoteAssumption DEF TypeOK, StagesOK, Stages, Goto, Onward, Tasks, ConvsOK, Connect
  <2>3. session' \in [Convs -> BOOLEAN]
    BY <1>10, TasksAre, Zenon DEF TypeOK, ConvsOK, EndRelay, Connect
  <2>4. turn' \in [Convs -> 0..MaxTurns]
    BY <1>10, RemoteAssumption DEF TypeOK, ConvsOK, Connect
  <2>5. relay' \in [Convs -> 0..MaxTurns]
    BY <1>10, RemoteAssumption DEF TypeOK, ConvsOK, EndRelay, Connect
  <2>6. ConvsOK'
    BY <2>3, <2>4, <2>5 DEF ConvsOK
  <2>7. Fault \/ Trouble \/ UNCHANGED counts
    BY <1>10, Zenon DEF Connect
  <2>8. CountsOK'
    BY <2>7, CountTypes DEF TypeOK
  <2>. QED BY <2>1, <2>2, <2>6, <2>7, <2>8 DEF TypeOK
<1>11. ASSUME NEW c \in Convs, Send(c) PROVE TypeOK'
  <2>1. SlotOK' /\ ToolsOK' /\ FlagsOK' /\ ServerOK' /\ CountsOK'
    BY <1>11 DEF TypeOK, SlotOK, ToolsOK, FlagsOK, ServerOK, CountsOK, slot, tools, flags, server, counts, history, Send
  <2>2. StagesOK'
    BY <1>11, TasksAre, RemoteAssumption DEF TypeOK, StagesOK, Stages, Goto, Onward, Tasks, ConvsOK, Send
  <2>3. session' \in [Convs -> BOOLEAN]
    BY <1>11, TasksAre, Zenon DEF TypeOK, ConvsOK, EndRelay, Send
  <2>4. turn' \in [Convs -> 0..MaxTurns]
    BY <1>11, RemoteAssumption DEF TypeOK, ConvsOK, Send
  <2>5. relay' \in [Convs -> 0..MaxTurns]
    BY <1>11, RemoteAssumption DEF TypeOK, ConvsOK, EndRelay, Send
  <2>6. ConvsOK'
    BY <2>3, <2>4, <2>5 DEF ConvsOK
  <2>7. <<c, turn[c] + 1>> \in Tasks
    BY <1>11, RemoteAssumption DEF TypeOK, ConvsOK, Tasks, Send
  <2>8. HistoryOK'
    BY <1>11, <2>7 DEF TypeOK, HistoryOK, history, Send
  <2>. QED BY <2>1, <2>2, <2>6, <2>7, <2>8 DEF TypeOK
<1>12. ASSUME NEW c \in Convs, Cancel(c) PROVE TypeOK'
  <2>1. ToolsOK' /\ ConvsOK' /\ FlagsOK'
    BY <1>12 DEF TypeOK, ToolsOK, ConvsOK, FlagsOK, slot, tools, flags, server, counts, history, Cancel
  <2>2. SlotOK' /\ StagesOK'
    BY <1>12, TasksAre, ReleaseTypes DEF TypeOK, StagesOK, Stages, slot, Cancel
  <2>3. events' \in [Convs -> Seq(Event)]
    BY <1>12, TasksAre DEF TypeOK, ServerOK, server, Cancel
  <2>4. prompts' \in [Convs -> Seq(0..MaxTurns)]
    BY <1>12, <2>3, TasksAre DEF TypeOK, ServerOK, server, Cancel
  <2>5. running' \in [Convs -> 0..MaxTurns]
    BY <1>12, <2>3, TasksAre, RemoteAssumption DEF TypeOK, ServerOK, server, Cancel
  <2>6. aborting' \in [Convs -> BOOLEAN]
    BY <1>12, Zenon DEF TypeOK, ServerOK, Cancel
  <2>7. ServerOK'
    BY <2>3, <2>4, <2>5, <2>6 DEF ServerOK
  <2>8. Fault \/ Trouble \/ UNCHANGED counts
    BY <1>12, Zenon DEF Cancel
  <2>9. CountsOK'
    BY <2>8, CountTypes DEF TypeOK
  <2>10. HistoryOK'
    BY <1>12, TasksAre, TurnsAre, RobbedAre DEF TypeOK, HistoryOK, history, Cancel
  <2>. QED BY <2>1, <2>2, <2>7, <2>8, <2>9, <2>10 DEF TypeOK
<1>13. ASSUME NEW c \in Convs, Busy(c) PROVE TypeOK'
  <2>1. SlotOK' /\ ToolsOK' /\ StagesOK' /\ ConvsOK' /\ CountsOK' /\ HistoryOK'
    BY <1>13 DEF TypeOK, SlotOK, ToolsOK, StagesOK, ConvsOK, CountsOK, HistoryOK, slot, tools, flags, server, counts, history, Busy
  <2>2. FlagsOK'
    BY <1>13, TasksAre DEF TypeOK, FlagsOK, flags, Busy
  <2>3. events' \in [Convs -> Seq(Event)]
    BY <1>13, ReceiveTypes DEF TypeOK, Busy
  <2>4. prompts' \in [Convs -> Seq(0..MaxTurns)]
    BY <1>13, <2>3, TasksAre DEF TypeOK, ServerOK, server, Busy
  <2>5. running' \in [Convs -> 0..MaxTurns]
    BY <1>13, <2>3, TasksAre, RemoteAssumption DEF TypeOK, ServerOK, server, Busy
  <2>6. aborting' \in [Convs -> BOOLEAN]
    BY <1>13, Zenon DEF TypeOK, ServerOK, Busy
  <2>7. ServerOK'
    BY <2>3, <2>4, <2>5, <2>6 DEF ServerOK
  <2>. QED BY <2>1, <2>2, <2>7 DEF TypeOK
<1>14. ASSUME NEW c \in Convs, RootTurnFinish(c) PROVE TypeOK'
  <2>1. SlotOK' /\ ToolsOK' /\ StagesOK' /\ CountsOK'
    BY <1>14 DEF TypeOK, SlotOK, ToolsOK, StagesOK, CountsOK, slot, tools, flags, server, counts, history, RootTurnFinish
  <2>2. FlagsOK'
    BY <1>14, TasksAre DEF TypeOK, FlagsOK, flags, RootTurnFinish
  <2>3. events' \in [Convs -> Seq(Event)]
    BY <1>14, ReceiveTypes DEF TypeOK, RootTurnFinish
  <2>4. prompts' \in [Convs -> Seq(0..MaxTurns)]
    BY <1>14, <2>3, TasksAre DEF TypeOK, ServerOK, server, RootTurnFinish
  <2>5. running' \in [Convs -> 0..MaxTurns]
    BY <1>14, <2>3, TasksAre, RemoteAssumption DEF TypeOK, ServerOK, server, RootTurnFinish
  <2>6. aborting' \in [Convs -> BOOLEAN]
    BY <1>14, Zenon DEF TypeOK, ServerOK, RootTurnFinish
  <2>7. ServerOK'
    BY <2>3, <2>4, <2>5, <2>6 DEF ServerOK
  <2>8. session' \in [Convs -> BOOLEAN]
    BY <1>14, TasksAre, Zenon DEF TypeOK, ConvsOK, EndRelay, RootTurnFinish
  <2>9. turn' \in [Convs -> 0..MaxTurns]
    BY <1>14, RemoteAssumption DEF TypeOK, ConvsOK, RootTurnFinish
  <2>10. relay' \in [Convs -> 0..MaxTurns]
    BY <1>14, RemoteAssumption DEF TypeOK, ConvsOK, EndRelay, RootTurnFinish
  <2>11. ConvsOK'
    BY <2>8, <2>9, <2>10 DEF ConvsOK
  <2>12. HistoryOK'
    BY <1>14, TasksAre, TurnsAre, RobbedAre DEF TypeOK, HistoryOK, history, EndRelay, Incoming, Tasks, ConvsOK, RootTurnFinish
  <2>. QED BY <2>1, <2>2, <2>7, <2>11, <2>12 DEF TypeOK
<1>15. ASSUME NEW c \in Convs, ReleaseSlot(c) PROVE TypeOK'
  <2>1. ToolsOK' /\ ConvsOK' /\ ServerOK' /\ CountsOK' /\ HistoryOK'
    BY <1>15 DEF TypeOK, ToolsOK, ConvsOK, ServerOK, CountsOK, HistoryOK, slot, tools, flags, server, counts, history, ReleaseSlot
  <2>2. SlotOK' /\ StagesOK'
    BY <1>15, TasksAre, ReleaseTypes DEF TypeOK, StagesOK, Stages, slot, ReleaseSlot
  <2>3. FlagsOK'
    BY <1>15, TasksAre DEF TypeOK, FlagsOK, flags, ReleaseSlot
  <2>. QED BY <2>1, <2>2, <2>3 DEF TypeOK
<1>16. ASSUME NEW c \in Convs, SessionError(c) PROVE TypeOK'
  <2>1. SlotOK' /\ ToolsOK' /\ StagesOK' /\ FlagsOK' /\ CountsOK'
    BY <1>16 DEF TypeOK, SlotOK, ToolsOK, StagesOK, FlagsOK, CountsOK, slot, tools, flags, server, counts, history, SessionError
  <2>2. events' \in [Convs -> Seq(Event)]
    BY <1>16, ReceiveTypes DEF TypeOK, SessionError
  <2>3. prompts' \in [Convs -> Seq(0..MaxTurns)]
    BY <1>16, <2>2, TasksAre DEF TypeOK, ServerOK, server, SessionError
  <2>4. running' \in [Convs -> 0..MaxTurns]
    BY <1>16, <2>2, TasksAre, RemoteAssumption DEF TypeOK, ServerOK, server, SessionError
  <2>5. aborting' \in [Convs -> BOOLEAN]
    BY <1>16, Zenon DEF TypeOK, ServerOK, SessionError
  <2>6. ServerOK'
    BY <2>2, <2>3, <2>4, <2>5 DEF ServerOK
  <2>7. session' \in [Convs -> BOOLEAN]
    BY <1>16, TasksAre, Zenon DEF TypeOK, ConvsOK, EndRelay, SessionError
  <2>8. turn' \in [Convs -> 0..MaxTurns]
    BY <1>16, RemoteAssumption DEF TypeOK, ConvsOK, SessionError
  <2>9. relay' \in [Convs -> 0..MaxTurns]
    BY <1>16, RemoteAssumption DEF TypeOK, ConvsOK, EndRelay, SessionError
  <2>10. ConvsOK'
    BY <2>7, <2>8, <2>9 DEF ConvsOK
  <2>11. HistoryOK'
    BY <1>16, TasksAre, TurnsAre, RobbedAre DEF TypeOK, HistoryOK, history, EndRelay, Incoming, Tasks, ConvsOK, SessionError
  <2>. QED BY <2>1, <2>6, <2>10, <2>11 DEF TypeOK
<1>17. ASSUME NEW c \in Convs, Disposed(c) PROVE TypeOK'
  <2>1. ToolsOK' /\ ConvsOK' /\ FlagsOK' /\ CountsOK' /\ HistoryOK'
    BY <1>17 DEF TypeOK, ToolsOK, ConvsOK, FlagsOK, CountsOK, HistoryOK, slot, tools, flags, server, counts, history, Disposed
  <2>2. SlotOK' /\ StagesOK'
    BY <1>17, TasksAre, ReleaseTypes DEF TypeOK, StagesOK, Stages, slot, Disposed
  <2>3. events' \in [Convs -> Seq(Event)]
    BY <1>17, ReceiveTypes DEF TypeOK, Disposed
  <2>4. prompts' \in [Convs -> Seq(0..MaxTurns)]
    BY <1>17, <2>3, TasksAre DEF TypeOK, ServerOK, server, Disposed
  <2>5. running' \in [Convs -> 0..MaxTurns]
    BY <1>17, <2>3, TasksAre, RemoteAssumption DEF TypeOK, ServerOK, server, Disposed
  <2>6. aborting' \in [Convs -> BOOLEAN]
    BY <1>17, Zenon DEF TypeOK, ServerOK, Disposed
  <2>7. ServerOK'
    BY <2>3, <2>4, <2>5, <2>6 DEF ServerOK
  <2>. QED BY <2>1, <2>2, <2>7 DEF TypeOK
<1>18. ASSUME NEW c \in Convs, ServerBegins(c) PROVE TypeOK'
  <2>1. SlotOK' /\ ToolsOK' /\ StagesOK' /\ ConvsOK' /\ FlagsOK' /\ CountsOK' /\ HistoryOK'
    BY <1>18 DEF TypeOK, SlotOK, ToolsOK, StagesOK, ConvsOK, FlagsOK, CountsOK, HistoryOK, slot, tools, flags, server, counts, history, ServerBegins
  <2>2. prompts[c] \in Seq(0..MaxTurns) /\ prompts[c] # <<>>
    BY <1>18 DEF TypeOK, ServerOK, ServerBegins
  <2>3. Head(prompts[c]) \in 0..MaxTurns /\ Tail(prompts[c]) \in Seq(0..MaxTurns)
    BY <2>2, HeadTail
  <2>4. <<Report("busy", Head(prompts[c]))>> \in Seq(Event)
    BY <2>3 DEF Report, Event
  <2>5. events' \in [Convs -> Seq(Event)]
    BY <1>18, <2>4, EmitTypes DEF TypeOK, ServerBegins
  <2>6. prompts' \in [Convs -> Seq(0..MaxTurns)]
    BY <1>18, <2>2, <2>3, <2>4, <2>5, TasksAre DEF TypeOK, ServerOK, server, ServerBegins
  <2>7. running' \in [Convs -> 0..MaxTurns]
    BY <1>18, <2>2, <2>3, <2>4, <2>5, TasksAre, RemoteAssumption DEF TypeOK, ServerOK, server, ServerBegins
  <2>8. aborting' \in [Convs -> BOOLEAN]
    BY <1>18, Zenon DEF TypeOK, ServerOK, ServerBegins
  <2>9. ServerOK'
    BY <2>5, <2>6, <2>7, <2>8 DEF ServerOK
  <2>. QED BY <2>1, <2>9 DEF TypeOK
<1>19. ASSUME NEW c \in Convs, ServerEnds(c) PROVE TypeOK'
  <2>1. SlotOK' /\ ToolsOK' /\ StagesOK' /\ ConvsOK' /\ FlagsOK' /\ HistoryOK'
    BY <1>19 DEF TypeOK, SlotOK, ToolsOK, StagesOK, ConvsOK, FlagsOK, HistoryOK, slot, tools, flags, server, counts, history, ServerEnds
  <2>2. running[c] \in 0..MaxTurns
    BY <1>19 DEF TypeOK, ServerOK
  <2>3. \A s \in {"busy", "stop", "idle", "error"} : Report(s, running[c]) \in Event
    BY <2>2 DEF Report, Event
  <2>4. /\ <<Report("stop", running[c]), Report("idle", running[c])>> \in Seq(Event)
       /\ <<Report("stop", running[c]), Report("idle", running[c]),
            Report("busy", running[c]), Report("idle", running[c])>> \in Seq(Event)
       /\ <<Report("error", running[c]), Report("idle", running[c])>> \in Seq(Event)
    BY <2>3
  <2>5. (\E rs \in Seq(Event) : Emit(c, rs)) \/ UNCHANGED events
    BY <1>19, <2>4, Zenon DEF ServerEnds
  <2>6. events' \in [Convs -> Seq(Event)]
    BY <2>5, EmitTypes DEF TypeOK, ServerOK
  <2>7. prompts' \in [Convs -> Seq(0..MaxTurns)]
    BY <1>19, <2>2, <2>3, <2>4, <2>5, <2>6, TasksAre DEF TypeOK, ServerOK, server, ServerEnds
  <2>8. running' \in [Convs -> 0..MaxTurns]
    BY <1>19, <2>2, <2>3, <2>4, <2>5, <2>6, TasksAre, RemoteAssumption DEF TypeOK, ServerOK, server, ServerEnds
  <2>9. aborting' \in [Convs -> BOOLEAN]
    BY <1>19, Zenon DEF TypeOK, ServerOK, ServerEnds
  <2>10. ServerOK'
    BY <2>6, <2>7, <2>8, <2>9 DEF ServerOK
  <2>11. Fault \/ Trouble \/ UNCHANGED counts
    BY <1>19, Zenon DEF ServerEnds
  <2>12. CountsOK'
    BY <2>11, CountTypes DEF TypeOK
  <2>. QED BY <2>1, <2>10, <2>11, <2>12 DEF TypeOK
<1>20. ASSUME NEW c \in Convs, StreamLost(c) PROVE TypeOK'
  <2>1. SlotOK' /\ ToolsOK' /\ StagesOK' /\ ConvsOK' /\ FlagsOK' /\ HistoryOK'
    BY <1>20 DEF TypeOK, SlotOK, ToolsOK, StagesOK, ConvsOK, FlagsOK, HistoryOK, slot, tools, flags, server, counts, history, StreamLost
  <2>2. events' \in [Convs -> Seq(Event)]
    BY <1>20, TasksAre DEF TypeOK, ServerOK, server, StreamLost
  <2>3. prompts' \in [Convs -> Seq(0..MaxTurns)]
    BY <1>20, <2>2, TasksAre DEF TypeOK, ServerOK, server, StreamLost
  <2>4. running' \in [Convs -> 0..MaxTurns]
    BY <1>20, <2>2, TasksAre, RemoteAssumption DEF TypeOK, ServerOK, server, StreamLost
  <2>5. aborting' \in [Convs -> BOOLEAN]
    BY <1>20, Zenon DEF TypeOK, ServerOK, StreamLost
  <2>6. ServerOK'
    BY <2>2, <2>3, <2>4, <2>5 DEF ServerOK
  <2>7. Fault \/ Trouble \/ UNCHANGED counts
    BY <1>20, Zenon DEF StreamLost
  <2>8. CountsOK'
    BY <2>7, CountTypes DEF TypeOK
  <2>. QED BY <2>1, <2>6, <2>7, <2>8 DEF TypeOK
<1>21. ASSUME ServerDisposed PROVE TypeOK'
  <2>1. SlotOK' /\ ToolsOK' /\ StagesOK' /\ ConvsOK' /\ FlagsOK' /\ HistoryOK'
    BY <1>21 DEF TypeOK, SlotOK, ToolsOK, StagesOK, ConvsOK, FlagsOK, HistoryOK, slot, tools, flags, server, counts, history, ServerDisposed
  <2>2. Report("disposed", 0) \in Event
    BY <1>21, RemoteAssumption DEF Report, Event
  <2>3. \A c \in Convs : Append(events[c], Report("disposed", 0)) \in Seq(Event)
    BY <2>2 DEF TypeOK, ServerOK
  <2>4. events' \in [Convs -> Seq(Event)]
    BY <1>21, <2>3 DEF ServerDisposed
  <2>5. prompts' \in [Convs -> Seq(0..MaxTurns)]
    BY <1>21, <2>2, <2>3, <2>4, TasksAre DEF TypeOK, ServerOK, server, ServerDisposed
  <2>6. running' \in [Convs -> 0..MaxTurns]
    BY <1>21, <2>2, <2>3, <2>4, TasksAre, RemoteAssumption DEF TypeOK, ServerOK, server, ServerDisposed
  <2>7. aborting' \in [Convs -> BOOLEAN]
    BY <1>21, Zenon DEF TypeOK, ServerOK, ServerDisposed
  <2>8. ServerOK'
    BY <2>4, <2>5, <2>6, <2>7 DEF ServerOK
  <2>9. Fault \/ Trouble \/ UNCHANGED counts
    BY <1>21, Zenon DEF ServerDisposed
  <2>10. CountsOK'
    BY <2>9, CountTypes DEF TypeOK
  <2>. QED BY <2>1, <2>8, <2>9, <2>10 DEF TypeOK
<1>22. CASE UNCHANGED vars
  BY <1>22 DEF TypeOK, SlotOK, ToolsOK, StagesOK, ConvsOK, FlagsOK, ServerOK, CountsOK, HistoryOK, vars, slot, tools, flags, server, counts, history
<1>. QED
  BY <1>1, <1>2, <1>3, <1>4, <1>5, <1>6, <1>7, <1>8, <1>9, <1>10, <1>11, <1>12, <1>13, <1>14, <1>15, <1>16, <1>17, <1>18, <1>19, <1>20, <1>21, <1>22
  DEF Next, TaskStep, Read, Serve

\* TypeOK holds of every behaviour.
THEOREM RemoteTypes == Spec => []TypeOK
<1>1. Init => TypeOK
  <2> SUFFICES ASSUME Init PROVE TypeOK
    OBVIOUS
  <2>0. permit \in BOOLEAN /\ failed \in BOOLEAN
    BY Zenon DEF Init
  <2>1. SlotOK /\ ToolsOK /\ StagesOK
    BY <2>0 DEF Init, SlotOK, ToolsOK, StagesOK, Stages
  <2>2. ConvsOK
    BY RemoteAssumption DEF Init, ConvsOK
  <2>3. FlagsOK /\ HistoryOK
    BY DEF Init, FlagsOK, HistoryOK
  <2>4. ServerOK
    BY RemoteAssumption DEF Init, ServerOK
  <2>5. CountsOK
    BY <2>0, RemoteAssumption DEF Init, CountsOK
  <2>. QED BY <2>1, <2>2, <2>3, <2>4, <2>5 DEF TypeOK
<1>. QED BY <1>1, TypeStep, PTL DEF Spec

-----------------------------------------------------------------------------
(* Waiting for the slot                                                     *)

\* A release only ever moves a task to "acquire".
LEMMA ReleaseMoves ==
    ASSUME SlotOK, NEW c, NEW p \in [Tasks -> Stages], ReleaseTurn(c, p)
    PROVE  \A u \in Tasks : pc'[u] = p[u] \/ pc'[u] = "acquire"
<1>1. CASE active # c \/ waiters = <<>>
  BY <1>1 DEF ReleaseTurn, slot
<1>2. CASE active = c /\ waiters # <<>>
  <2>1. Head(waiters) \in Tasks
    BY <1>2, HeadTail DEF SlotOK
  <2>. QED BY <1>2, <2>1 DEF ReleaseTurn
<1>. QED BY <1>1, <1>2

\* A release that frees the slot wakes a waiter if there is one.
LEMMA ReleaseWakes ==
    ASSUME SlotOK, NEW c \in Convs, NEW p \in [Tasks -> Stages], ReleaseTurn(c, p),
           NoStrandedWaiter, \A u \in Tasks : pc[u] = "acquire" => p[u] = "acquire"
    PROVE  NoStrandedWaiter'
<1>1. CASE active # c
  BY <1>1 DEF ReleaseTurn, NoStrandedWaiter, slot
<1>2. CASE active = c /\ waiters = <<>>
  BY <1>2 DEF ReleaseTurn, NoStrandedWaiter
<1>3. CASE active = c /\ waiters # <<>>
  <2>1. Head(waiters) \in Tasks
    BY <1>3, HeadTail DEF SlotOK
  <2>. QED BY <1>3, <2>1 DEF ReleaseTurn, NoStrandedWaiter
<1>. QED BY <1>1, <1>2, <1>3

\* The tasks that were begun.
Begun == {t \in Tasks : t[2] <= turn[t[1]]}

\* Sends to come are where they start, and none of them is parked.
FreshInv == (\A t \in Tasks \ Begun : pc[t] = "none") /\ waiters \in Seq(Begun)

LEMMA ReleaseFresh ==
    ASSUME FreshInv, NEW c, NEW p \in [Tasks -> Stages], ReleaseTurn(c, p),
           \A u \in Tasks \ Begun : p[u] = "none"
    PROVE  (\A u \in Tasks \ Begun : pc'[u] = "none") /\ waiters' \in Seq(Begun)
<1>1. CASE active # c \/ waiters = <<>>
  BY <1>1 DEF ReleaseTurn, FreshInv, slot
<1>2. CASE active = c /\ waiters # <<>>
  <2>1. Head(waiters) \in Begun /\ Tail(waiters) \in Seq(Begun)
    BY <1>2, HeadTail DEF FreshInv
  <2>. QED BY <1>2, <2>1 DEF ReleaseTurn
<1>. QED BY <1>1, <1>2

LEMMA FreshFrame ==
    ASSUME turn' = turn, waiters' \in Seq(Begun), \A u \in Tasks \ Begun : pc'[u] = "none"
    PROVE  FreshInv'
BY DEF FreshInv, Begun

\* Every step keeps the sends to come untouched.
LEMMA FreshStep == TypeOK /\ FreshInv /\ [Next]_vars => FreshInv'
<1> SUFFICES ASSUME TypeOK, FreshInv, [Next]_vars PROVE FreshInv'
  OBVIOUS
<1>1. ASSUME NEW t \in Tasks, BeginTurn(t) PROVE FreshInv'
  <2>1. t \in Begun
    BY <1>1 DEF FreshInv, BeginTurn
  <2>2. \A u \in Tasks \ Begun : pc'[u] = "none"
    BY <1>1, <2>1 DEF TypeOK, StagesOK, FreshInv, Goto, BeginTurn
  <2>4. waiters' \in Seq(Begun)
    BY <1>1 DEF FreshInv, slot, BeginTurn
  <2>. QED BY <1>1, <2>2, <2>4, FreshFrame DEF BeginTurn
<1>2. ASSUME NEW t \in Tasks, AcquireTurn(t) PROVE FreshInv'
  <2>1. t \in Begun
    BY <1>2 DEF FreshInv, AcquireTurn
  <2>2. \A u \in Tasks \ Begun : pc'[u] = "none"
    BY <1>2, <2>1 DEF TypeOK, StagesOK, FreshInv, Goto, AcquireTurn
  <2>3. waiters' = waiters \/ waiters' = Append(waiters, t)
    BY <1>2 DEF AcquireTurn
  <2>4. waiters' \in Seq(Begun)
    BY <2>1, <2>3 DEF FreshInv
  <2>. QED BY <1>2, <2>2, <2>4, FreshFrame DEF AcquireTurn
<1>3. ASSUME NEW t \in Tasks, AlreadyOwned(t) PROVE FreshInv'
  <2>1. t \in Begun
    BY <1>3 DEF FreshInv, AlreadyOwned
  <2>2. \A u \in Tasks \ Begun : pc'[u] = "none"
    BY <1>3, <2>1 DEF TypeOK, StagesOK, FreshInv, Goto, AlreadyOwned
  <2>4. waiters' \in Seq(Begun)
    BY <1>3 DEF FreshInv, slot, AlreadyOwned
  <2>. QED BY <1>3, <2>2, <2>4, FreshFrame DEF AlreadyOwned
<1>4. ASSUME NEW t \in Tasks, LockRegistration(t) PROVE FreshInv'
  <2>1. t \in Begun
    BY <1>4 DEF FreshInv, LockRegistration
  <2>2. \A u \in Tasks \ Begun : pc'[u] = "none"
    BY <1>4, <2>1 DEF TypeOK, StagesOK, FreshInv, Goto, LockRegistration
  <2>4. waiters' \in Seq(Begun)
    BY <1>4 DEF FreshInv, slot, LockRegistration
  <2>. QED BY <1>4, <2>2, <2>4, FreshFrame DEF LockRegistration
<1>5. ASSUME NEW t \in Tasks, RegisterCandidate(t) PROVE FreshInv'
  <2>1. t \in Begun
    BY <1>5 DEF FreshInv, RegisterCandidate
  <2>2. \A u \in Tasks \ Begun : pc'[u] = "none"
    BY <1>5, <2>1 DEF TypeOK, StagesOK, FreshInv, Goto, RegisterCandidate
  <2>4. waiters' \in Seq(Begun)
    BY <1>5 DEF FreshInv, slot, RegisterCandidate
  <2>. QED BY <1>5, <2>2, <2>4, FreshFrame DEF RegisterCandidate
<1>6. ASSUME NEW t \in Tasks, VerifyDialBack(t) PROVE FreshInv'
  <2>1. t \in Begun
    BY <1>6 DEF FreshInv, VerifyDialBack
  <2>2. \A u \in Tasks \ Begun : pc'[u] = "none"
    BY <1>6, <2>1 DEF TypeOK, StagesOK, FreshInv, Goto, VerifyDialBack
  <2>4. waiters' \in Seq(Begun)
    BY <1>6 DEF FreshInv, slot, VerifyDialBack
  <2>. QED BY <1>6, <2>2, <2>4, FreshFrame DEF VerifyDialBack
<1>7. ASSUME NEW t \in Tasks, RegisterFallback(t) PROVE FreshInv'
  <2>1. t \in Begun
    BY <1>7 DEF FreshInv, RegisterFallback
  <2>2. \A u \in Tasks \ Begun : pc'[u] = "none"
    BY <1>7, <2>1 DEF TypeOK, StagesOK, FreshInv, Goto, RegisterFallback
  <2>4. waiters' \in Seq(Begun)
    BY <1>7 DEF FreshInv, slot, RegisterFallback
  <2>. QED BY <1>7, <2>2, <2>4, FreshFrame DEF RegisterFallback
<1>8. ASSUME NEW t \in Tasks, PostPrompt(t) PROVE FreshInv'
  <2>1. [pc EXCEPT ![t] = "done"] \in [Tasks -> Stages]
    BY DEF TypeOK, StagesOK, Stages
  <2>2. t \in Begun
    BY <1>8 DEF FreshInv, PostPrompt
  <2>3. \A u \in Tasks \ Begun : [pc EXCEPT ![t] = "done"][u] = "none"
    BY <2>2 DEF TypeOK, StagesOK, FreshInv
  <2>4. (\A u \in Tasks \ Begun : pc'[u] = "none") /\ waiters' \in Seq(Begun)
    <3>1. CASE ReleaseTurn(t[1], [pc EXCEPT ![t] = "done"])
      BY <2>1, <2>3, <3>1, ReleaseFresh
    <3>2. CASE pc' = [pc EXCEPT ![t] = "done"] /\ UNCHANGED slot
      BY <2>3, <3>2 DEF FreshInv, slot
    <3>. QED BY <1>8, <3>1, <3>2 DEF PostPrompt
  <2>. QED BY <1>8, <2>4, FreshFrame DEF PostPrompt
<1>9. ASSUME NEW t \in Tasks, TimeOut(t) PROVE FreshInv'
  <2>1. t \in Begun
    BY <1>9 DEF FreshInv, TimeOut
  <2>2. \A u \in Tasks \ Begun : pc'[u] = "none"
    BY <1>9, <2>1 DEF TypeOK, StagesOK, FreshInv, Goto, TimeOut
  <2>3. PICK j \in 1..Len(waiters) : waiters' = Without(waiters, j)
    BY <1>9 DEF TimeOut
  <2>4. waiters' \in Seq(Begun)
    BY <2>3 DEF FreshInv, Without
  <2>. QED BY <1>9, <2>2, <2>4, FreshFrame DEF TimeOut
<1>10. ASSUME NEW c \in Convs, Connect(c) PROVE FreshInv'
  <2>1. <<c, 0>> \in Begun
    BY RemoteAssumption DEF TypeOK, ConvsOK, Begun, Tasks
  <2>2. \A u \in Tasks \ Begun : pc'[u] = "none"
    BY <1>10, <2>1 DEF TypeOK, StagesOK, FreshInv, Goto, Connect
  <2>. QED BY <1>10, <2>2, FreshFrame DEF FreshInv, slot, Connect
<1>11. ASSUME NEW c \in Convs, Send(c) PROVE FreshInv'
  <2>1. Begun \subseteq Begun'
    BY <1>11, TasksAre DEF TypeOK, ConvsOK, Begun, Send
  <2>2. <<c, turn[c] + 1>> \in Begun'
    BY <1>11, RemoteAssumption DEF TypeOK, ConvsOK, Begun, Tasks, Send
  <2>3. waiters' \in Seq(Begun')
    BY <1>11, <2>1 DEF FreshInv, Send, slot
  <2>4. \A u \in Tasks \ Begun' : pc'[u] = "none"
    BY <1>11, <2>1, <2>2 DEF TypeOK, StagesOK, FreshInv, Goto, Send
  <2>. QED BY <2>3, <2>4 DEF FreshInv
<1>12. ASSUME NEW c \in Convs, Cancel(c) PROVE FreshInv'
  <2>1. (\A u \in Tasks \ Begun : pc'[u] = "none") /\ waiters' \in Seq(Begun)
    BY <1>12, ReleaseFresh DEF TypeOK, StagesOK, FreshInv, Cancel
  <2>. QED BY <1>12, <2>1, FreshFrame DEF Cancel
<1>13. ASSUME NEW c \in Convs, Busy(c) PROVE FreshInv'
  BY <1>13, FreshFrame DEF FreshInv, slot, Busy
<1>14. ASSUME NEW c \in Convs, RootTurnFinish(c) PROVE FreshInv'
  BY <1>14, FreshFrame DEF FreshInv, slot, RootTurnFinish
<1>15. ASSUME NEW c \in Convs, ReleaseSlot(c) PROVE FreshInv'
  <2>1. (\A u \in Tasks \ Begun : pc'[u] = "none") /\ waiters' \in Seq(Begun)
    BY <1>15, ReleaseFresh DEF TypeOK, StagesOK, FreshInv, ReleaseSlot
  <2>. QED BY <1>15, <2>1, FreshFrame DEF ReleaseSlot
<1>16. ASSUME NEW c \in Convs, SessionError(c) PROVE FreshInv'
  BY <1>16, FreshFrame DEF FreshInv, slot, SessionError
<1>17. ASSUME NEW c \in Convs, Disposed(c) PROVE FreshInv'
  <2>1. (\A u \in Tasks \ Begun : pc'[u] = "none") /\ waiters' \in Seq(Begun)
    BY <1>17, ReleaseFresh DEF TypeOK, StagesOK, FreshInv, Disposed
  <2>. QED BY <1>17, <2>1, FreshFrame DEF Disposed
<1>18. ASSUME NEW c \in Convs, ServerBegins(c) PROVE FreshInv'
  BY <1>18, FreshFrame DEF FreshInv, slot, ServerBegins
<1>19. ASSUME NEW c \in Convs, ServerEnds(c) PROVE FreshInv'
  BY <1>19, FreshFrame DEF FreshInv, slot, ServerEnds
<1>20. ASSUME NEW c \in Convs, StreamLost(c) PROVE FreshInv'
  BY <1>20, FreshFrame DEF FreshInv, slot, StreamLost
<1>21. ASSUME ServerDisposed PROVE FreshInv'
  BY <1>21, FreshFrame DEF FreshInv, slot, ServerDisposed
<1>22. CASE UNCHANGED vars
  BY <1>22 DEF FreshInv, Begun, vars, slot, tools, flags, server, counts, history
<1>. QED
  BY <1>1, <1>2, <1>3, <1>4, <1>5, <1>6, <1>7, <1>8, <1>9, <1>10, <1>11, <1>12, <1>13, <1>14, <1>15, <1>16, <1>17, <1>18, <1>19, <1>20, <1>21, <1>22
  DEF Next, TaskStep, Read, Serve

LEMMA WaitFrame ==
    ASSUME NoStrandedWaiter, UNCHANGED slot,
           \A u \in Tasks : pc[u] = "acquire" => pc'[u] = "acquire"
    PROVE  NoStrandedWaiter'
BY DEF NoStrandedWaiter, slot

\* Every step keeps the waiters covered.
LEMMA WaitStep == TypeOK /\ FreshInv /\ NoStrandedWaiter /\ [Next]_vars => NoStrandedWaiter'
<1> SUFFICES ASSUME TypeOK, FreshInv, NoStrandedWaiter, [Next]_vars PROVE NoStrandedWaiter'
  OBVIOUS
<1>1. ASSUME NEW t \in Tasks, BeginTurn(t) PROVE NoStrandedWaiter'
  <2>1. \A u \in Tasks : pc[u] = "acquire" => pc'[u] = "acquire"
    BY <1>1 DEF TypeOK, StagesOK, Goto, BeginTurn
  <2>. QED BY <1>1, <2>1, WaitFrame DEF BeginTurn
<1>2. ASSUME NEW t \in Tasks, AcquireTurn(t) PROVE NoStrandedWaiter'
  BY <1>2, TasksAre, RemoteAssumption DEF NoStrandedWaiter, AcquireTurn
<1>3. ASSUME NEW t \in Tasks, AlreadyOwned(t) PROVE NoStrandedWaiter'
  <2>1. \A u \in Tasks : pc[u] = "acquire" => pc'[u] = "acquire"
    BY <1>3 DEF TypeOK, StagesOK, Goto, AlreadyOwned
  <2>. QED BY <1>3, <2>1, WaitFrame DEF AlreadyOwned
<1>4. ASSUME NEW t \in Tasks, LockRegistration(t) PROVE NoStrandedWaiter'
  <2>1. \A u \in Tasks : pc[u] = "acquire" => pc'[u] = "acquire"
    BY <1>4 DEF TypeOK, StagesOK, Goto, LockRegistration
  <2>. QED BY <1>4, <2>1, WaitFrame DEF LockRegistration
<1>5. ASSUME NEW t \in Tasks, RegisterCandidate(t) PROVE NoStrandedWaiter'
  <2>1. \A u \in Tasks : pc[u] = "acquire" => pc'[u] = "acquire"
    BY <1>5 DEF TypeOK, StagesOK, Goto, RegisterCandidate
  <2>. QED BY <1>5, <2>1, WaitFrame DEF RegisterCandidate
<1>6. ASSUME NEW t \in Tasks, VerifyDialBack(t) PROVE NoStrandedWaiter'
  <2>1. \A u \in Tasks : pc[u] = "acquire" => pc'[u] = "acquire"
    BY <1>6 DEF TypeOK, StagesOK, Goto, VerifyDialBack
  <2>. QED BY <1>6, <2>1, WaitFrame DEF VerifyDialBack
<1>7. ASSUME NEW t \in Tasks, RegisterFallback(t) PROVE NoStrandedWaiter'
  <2>1. \A u \in Tasks : pc[u] = "acquire" => pc'[u] = "acquire"
    BY <1>7 DEF TypeOK, StagesOK, Goto, RegisterFallback
  <2>. QED BY <1>7, <2>1, WaitFrame DEF RegisterFallback
<1>8. ASSUME NEW t \in Tasks, PostPrompt(t) PROVE NoStrandedWaiter'
  <2>1. [pc EXCEPT ![t] = "done"] \in [Tasks -> Stages]
    BY DEF TypeOK, StagesOK, Stages
  <2>2. \A u \in Tasks : pc[u] = "acquire" => [pc EXCEPT ![t] = "done"][u] = "acquire"
    BY <1>8 DEF TypeOK, StagesOK, PostPrompt
  <2>3. CASE ReleaseTurn(t[1], [pc EXCEPT ![t] = "done"])
    BY <2>1, <2>2, <2>3, TasksAre, ReleaseWakes DEF TypeOK
  <2>4. CASE pc' = [pc EXCEPT ![t] = "done"] /\ UNCHANGED slot
    BY <2>2, <2>4, WaitFrame
  <2>. QED BY <1>8, <2>3, <2>4 DEF PostPrompt
<1>9. ASSUME NEW t \in Tasks, TimeOut(t) PROVE NoStrandedWaiter'
  BY <1>9, TasksAre, RemoteAssumption DEF NoStrandedWaiter, TimeOut
<1>10. ASSUME NEW c \in Convs, Connect(c) PROVE NoStrandedWaiter'
  <2>1. \A u \in Tasks : pc[u] = "acquire" => pc'[u] = "acquire"
    BY <1>10 DEF TypeOK, StagesOK, Goto, Connect
  <2>. QED BY <1>10, <2>1, WaitFrame DEF Connect
<1>11. ASSUME NEW c \in Convs, Send(c) PROVE NoStrandedWaiter'
  <2>0. <<c, turn[c] + 1>> \in Tasks \ Begun
    BY <1>11, RemoteAssumption DEF TypeOK, ConvsOK, Begun, Tasks, Send
  <2>1. pc[<<c, turn[c] + 1>>] = "none"
    BY <2>0 DEF FreshInv
  <2>2. \A u \in Tasks : pc[u] = "acquire" => pc'[u] = "acquire"
    BY <1>11, <2>1 DEF TypeOK, StagesOK, Goto, Send
  <2>. QED BY <1>11, <2>2, WaitFrame DEF Send
<1>12. ASSUME NEW c \in Convs, Cancel(c) PROVE NoStrandedWaiter'
  BY <1>12, ReleaseWakes DEF TypeOK, StagesOK, Cancel
<1>13. ASSUME NEW c \in Convs, Busy(c) PROVE NoStrandedWaiter'
  BY <1>13, WaitFrame DEF Busy
<1>14. ASSUME NEW c \in Convs, RootTurnFinish(c) PROVE NoStrandedWaiter'
  BY <1>14, WaitFrame DEF RootTurnFinish
<1>15. ASSUME NEW c \in Convs, ReleaseSlot(c) PROVE NoStrandedWaiter'
  BY <1>15, ReleaseWakes DEF TypeOK, StagesOK, ReleaseSlot
<1>16. ASSUME NEW c \in Convs, SessionError(c) PROVE NoStrandedWaiter'
  BY <1>16, WaitFrame DEF SessionError
<1>17. ASSUME NEW c \in Convs, Disposed(c) PROVE NoStrandedWaiter'
  BY <1>17, ReleaseWakes DEF TypeOK, StagesOK, Disposed
<1>18. ASSUME NEW c \in Convs, ServerBegins(c) PROVE NoStrandedWaiter'
  BY <1>18, WaitFrame DEF ServerBegins
<1>19. ASSUME NEW c \in Convs, ServerEnds(c) PROVE NoStrandedWaiter'
  BY <1>19, WaitFrame DEF ServerEnds
<1>20. ASSUME NEW c \in Convs, StreamLost(c) PROVE NoStrandedWaiter'
  BY <1>20, WaitFrame DEF StreamLost
<1>21. ASSUME ServerDisposed PROVE NoStrandedWaiter'
  BY <1>21, WaitFrame DEF ServerDisposed
<1>22. CASE UNCHANGED vars
  BY <1>22 DEF NoStrandedWaiter, vars, slot, tools, flags, server, counts, history
<1>. QED
  BY <1>1, <1>2, <1>3, <1>4, <1>5, <1>6, <1>7, <1>8, <1>9, <1>10, <1>11, <1>12, <1>13, <1>14, <1>15, <1>16, <1>17, <1>18, <1>19, <1>20, <1>21, <1>22
  DEF Next, TaskStep, Read, Serve

\* A send parked on the turn slot is never forgotten: for any number of
\* conversations, with stops, timeouts, disposals and failing calls, a free
\* slot always has somebody about to take it while others wait.
THEOREM WaitersAreWoken == Spec => []NoStrandedWaiter
<1>1. Init => NoStrandedWaiter /\ FreshInv
  BY DEF Init, NoStrandedWaiter, FreshInv
<1>. QED BY <1>1, RemoteTypes, FreshStep, WaitStep, PTL DEF Spec

-----------------------------------------------------------------------------
(* The registration mutex and the map of owners                             *)

Section == {"candidate", "verify", "fallback"}

\* A task that registers holds the mutex; it finds the map true, has the
\* server's tools once it registered, and tries the best guess after a failure.
RegInv ==
    /\ \A t \in Tasks : pc[t] \in Section => mutex = t
    /\ \A t \in Tasks : pc[t] = "candidate" /\ ~failed => owner = registered
    /\ \A t \in Tasks : pc[t] = "verify" => registered = t[1]
    /\ \A t \in Tasks : pc[t] = "fallback" => failed

LEMMA RegFrame ==
    ASSUME RegInv, MapIsTrue, UNCHANGED tools, failed => failed',
           \A u \in Tasks : pc'[u] = pc[u] \/ pc'[u] \notin Section
    PROVE  RegInv' /\ MapIsTrue'
BY DEF RegInv, MapIsTrue, tools, Section

\* Outside the mutex nobody registers.
LEMMA NobodyInside ==
    ASSUME RegInv, mutex = None
    PROVE  \A u \in Tasks : pc[u] \notin Section
BY RemoteAssumption DEF RegInv, Tasks

\* Every step keeps the map true.
LEMMA RegStep == TypeOK /\ RegInv /\ MapIsTrue /\ [Next]_vars => RegInv' /\ MapIsTrue'
<1> SUFFICES ASSUME TypeOK, RegInv, MapIsTrue, [Next]_vars PROVE RegInv' /\ MapIsTrue'
  OBVIOUS
<1>1. ASSUME NEW t \in Tasks, BeginTurn(t) PROVE RegInv' /\ MapIsTrue'
  <2>1. \A u \in Tasks : pc'[u] = pc[u] \/ pc'[u] \notin Section
    BY <1>1 DEF TypeOK, StagesOK, Section, Goto, Onward, BeginTurn
  <2>2. failed => failed'
    BY <1>1 DEF Fault, Trouble, counts, BeginTurn
  <2>. QED BY <1>1, <2>1, <2>2, RegFrame DEF BeginTurn
<1>2. ASSUME NEW t \in Tasks, AcquireTurn(t) PROVE RegInv' /\ MapIsTrue'
  <2>1. \A u \in Tasks : pc'[u] = pc[u] \/ pc'[u] \notin Section
    BY <1>2 DEF TypeOK, StagesOK, Section, Goto, Onward, AcquireTurn
  <2>2. failed => failed'
    BY <1>2 DEF Fault, Trouble, counts, AcquireTurn
  <2>. QED BY <1>2, <2>1, <2>2, RegFrame DEF AcquireTurn
<1>3. ASSUME NEW t \in Tasks, AlreadyOwned(t) PROVE RegInv' /\ MapIsTrue'
  <2>1. \A u \in Tasks : pc'[u] = pc[u] \/ pc'[u] \notin Section
    BY <1>3 DEF TypeOK, StagesOK, Section, Goto, Onward, AlreadyOwned
  <2>2. failed => failed'
    BY <1>3 DEF Fault, Trouble, counts, AlreadyOwned
  <2>. QED BY <1>3, <2>1, <2>2, RegFrame DEF AlreadyOwned
<1>4. ASSUME NEW t \in Tasks, LockRegistration(t) PROVE RegInv' /\ MapIsTrue'
  <2>1. \A u \in Tasks \ {t} : pc'[u] = pc[u] /\ pc[u] \notin Section
    BY <1>4, NobodyInside DEF TypeOK, StagesOK, RegInv, Section, Goto, LockRegistration
  <2>2. pc'[t] = "candidate" /\ mutex' = t
    BY <1>4, TasksAre DEF TypeOK, StagesOK, RegInv, Section, Goto, Onward, Fault, counts, LockRegistration
  <2>3. RegInv'
    BY <1>4, <2>1, <2>2 DEF RegInv, MapIsTrue, Section, counts, LockRegistration
  <2>4. MapIsTrue'
    BY <1>4, <2>1, <2>2, TasksAre, RemoteAssumption DEF RegInv, MapIsTrue, Section, Tasks, LockRegistration
  <2>. QED BY <2>3, <2>4
<1>5. ASSUME NEW t \in Tasks, RegisterCandidate(t) PROVE RegInv' /\ MapIsTrue'
  <2>1. \A u \in Tasks \ {t} : pc'[u] = pc[u] /\ pc[u] \notin Section
    BY <1>5, TasksAre DEF TypeOK, StagesOK, RegInv, Section, Goto, RegisterCandidate
  <2>2. (pc'[t] = "verify" /\ registered' = t[1]) \/ (pc'[t] = "fallback" /\ failed')
    BY <1>5, TasksAre DEF TypeOK, StagesOK, RegInv, Section, Goto, Onward, Fault, counts, RegisterCandidate
  <2>3. RegInv'
    BY <1>5, <2>1, <2>2 DEF RegInv, MapIsTrue, Section, counts, RegisterCandidate
  <2>4. MapIsTrue'
    BY <1>5, <2>1, <2>2, TasksAre, RemoteAssumption DEF RegInv, MapIsTrue, Section, Tasks, RegisterCandidate
  <2>. QED BY <2>3, <2>4
<1>6. ASSUME NEW t \in Tasks, VerifyDialBack(t) PROVE RegInv' /\ MapIsTrue'
  <2>1. \A u \in Tasks \ {t} : pc'[u] = pc[u] /\ pc[u] \notin Section
    BY <1>6, TasksAre DEF TypeOK, StagesOK, RegInv, Section, Goto, VerifyDialBack
  <2>2. (pc'[t] \notin Section /\ mutex' = None /\ owner' = t[1] /\ registered' = t[1]) \/ (pc'[t] = "fallback" /\ failed' /\ mutex' = t)
    BY <1>6, TasksAre DEF TypeOK, StagesOK, RegInv, Section, Goto, Onward, Fault, counts, VerifyDialBack
  <2>3. RegInv'
    BY <1>6, <2>1, <2>2 DEF RegInv, MapIsTrue, Section, counts, VerifyDialBack
  <2>4. MapIsTrue'
    BY <1>6, <2>1, <2>2, TasksAre, RemoteAssumption DEF RegInv, MapIsTrue, Section, Tasks, VerifyDialBack
  <2>. QED BY <2>3, <2>4
<1>7. ASSUME NEW t \in Tasks, RegisterFallback(t) PROVE RegInv' /\ MapIsTrue'
  <2>1. \A u \in Tasks \ {t} : pc'[u] = pc[u] /\ pc[u] \notin Section
    BY <1>7, TasksAre DEF TypeOK, StagesOK, RegInv, Section, Goto, RegisterFallback
  <2>2. pc'[t] \notin Section /\ mutex' = None /\ failed'
    BY <1>7, TasksAre DEF TypeOK, StagesOK, RegInv, Section, Goto, Onward, Fault, counts, RegisterFallback
  <2>3. RegInv'
    BY <1>7, <2>1, <2>2 DEF RegInv, MapIsTrue, Section, counts, RegisterFallback
  <2>4. MapIsTrue'
    BY <1>7, <2>1, <2>2, TasksAre, RemoteAssumption DEF RegInv, MapIsTrue, Section, Tasks, RegisterFallback
  <2>. QED BY <2>3, <2>4
<1>8. ASSUME NEW t \in Tasks, PostPrompt(t) PROVE RegInv' /\ MapIsTrue'
  <2>1. [pc EXCEPT ![t] = "done"] \in [Tasks -> Stages]
    BY DEF TypeOK, StagesOK, Stages
  <2>2. ReleaseTurn(t[1], [pc EXCEPT ![t] = "done"]) \/ pc' = [pc EXCEPT ![t] = "done"]
    BY <1>8 DEF PostPrompt
  <2>3. \A u \in Tasks : pc'[u] = [pc EXCEPT ![t] = "done"][u] \/ pc'[u] = "acquire"
    BY <2>1, <2>2, ReleaseMoves DEF TypeOK
  <2>4. \A u \in Tasks : pc'[u] = pc[u] \/ pc'[u] \notin Section
    BY <2>3 DEF TypeOK, StagesOK, Section
  <2>5. failed => failed'
    BY <1>8 DEF PostPrompt, Fault, counts
  <2>. QED BY <1>8, <2>4, <2>5, RegFrame DEF PostPrompt
<1>9. ASSUME NEW t \in Tasks, TimeOut(t) PROVE RegInv' /\ MapIsTrue'
  <2>1. \A u \in Tasks : pc'[u] = pc[u] \/ pc'[u] \notin Section
    BY <1>9 DEF TypeOK, StagesOK, Section, Goto, Onward, TimeOut
  <2>2. failed => failed'
    BY <1>9 DEF Fault, Trouble, counts, TimeOut
  <2>. QED BY <1>9, <2>1, <2>2, RegFrame DEF TimeOut
<1>10. ASSUME NEW c \in Convs, Connect(c) PROVE RegInv' /\ MapIsTrue'
  <2>1. \A u \in Tasks : pc'[u] = pc[u] \/ pc'[u] \notin Section
    BY <1>10 DEF TypeOK, StagesOK, Section, Goto, Onward, Connect
  <2>2. failed => failed'
    BY <1>10 DEF Fault, Trouble, counts, Connect
  <2>. QED BY <1>10, <2>1, <2>2, RegFrame DEF Connect
<1>11. ASSUME NEW c \in Convs, Send(c) PROVE RegInv' /\ MapIsTrue'
  <2>1. \A u \in Tasks : pc'[u] = pc[u] \/ pc'[u] \notin Section
    BY <1>11 DEF TypeOK, StagesOK, Section, Goto, Onward, Send
  <2>2. failed => failed'
    BY <1>11 DEF Fault, Trouble, counts, Send
  <2>. QED BY <1>11, <2>1, <2>2, RegFrame DEF Send
<1>12. ASSUME NEW c \in Convs, Cancel(c) PROVE RegInv' /\ MapIsTrue'
  <2>1. \A u \in Tasks : pc'[u] = pc[u] \/ pc'[u] \notin Section
    BY <1>12, ReleaseMoves DEF TypeOK, StagesOK, Section, Cancel
  <2>. QED BY <1>12, <2>1, RegFrame DEF Trouble, counts, Cancel
<1>13. ASSUME NEW c \in Convs, Busy(c) PROVE RegInv' /\ MapIsTrue'
  <2>1. failed => failed'
    BY <1>13 DEF Fault, Trouble, counts, Busy
  <2>. QED BY <1>13, <2>1, RegFrame DEF Busy
<1>14. ASSUME NEW c \in Convs, RootTurnFinish(c) PROVE RegInv' /\ MapIsTrue'
  <2>1. failed => failed'
    BY <1>14 DEF Fault, Trouble, counts, RootTurnFinish
  <2>. QED BY <1>14, <2>1, RegFrame DEF RootTurnFinish
<1>15. ASSUME NEW c \in Convs, ReleaseSlot(c) PROVE RegInv' /\ MapIsTrue'
  <2>1. \A u \in Tasks : pc'[u] = pc[u] \/ pc'[u] \notin Section
    BY <1>15, ReleaseMoves DEF TypeOK, StagesOK, Section, ReleaseSlot
  <2>. QED BY <1>15, <2>1, RegFrame DEF Trouble, counts, ReleaseSlot
<1>16. ASSUME NEW c \in Convs, SessionError(c) PROVE RegInv' /\ MapIsTrue'
  <2>1. failed => failed'
    BY <1>16 DEF Fault, Trouble, counts, SessionError
  <2>. QED BY <1>16, <2>1, RegFrame DEF SessionError
<1>17. ASSUME NEW c \in Convs, Disposed(c) PROVE RegInv' /\ MapIsTrue'
  <2>1. \A u \in Tasks : pc'[u] = pc[u] \/ pc'[u] \notin Section
    BY <1>17, ReleaseMoves DEF TypeOK, StagesOK, Section, Disposed
  <2>. QED BY <1>17, <2>1, RegFrame DEF Trouble, counts, Disposed
<1>18. ASSUME NEW c \in Convs, ServerBegins(c) PROVE RegInv' /\ MapIsTrue'
  <2>1. failed => failed'
    BY <1>18 DEF Fault, Trouble, counts, ServerBegins
  <2>. QED BY <1>18, <2>1, RegFrame DEF ServerBegins
<1>19. ASSUME NEW c \in Convs, ServerEnds(c) PROVE RegInv' /\ MapIsTrue'
  <2>1. failed => failed'
    BY <1>19 DEF Fault, Trouble, counts, ServerEnds
  <2>. QED BY <1>19, <2>1, RegFrame DEF ServerEnds
<1>20. ASSUME NEW c \in Convs, StreamLost(c) PROVE RegInv' /\ MapIsTrue'
  <2>1. failed => failed'
    BY <1>20 DEF Fault, Trouble, counts, StreamLost
  <2>. QED BY <1>20, <2>1, RegFrame DEF StreamLost
<1>21. ASSUME ServerDisposed PROVE RegInv' /\ MapIsTrue'
  <2>1. failed => failed'
    BY <1>21 DEF Fault, Trouble, counts, ServerDisposed
  <2>. QED BY <1>21, <2>1, RegFrame DEF ServerDisposed
<1>22. CASE UNCHANGED vars
  BY <1>22, RegFrame DEF vars, slot, tools, flags, server, counts, history
<1>. QED
  BY <1>1, <1>2, <1>3, <1>4, <1>5, <1>6, <1>7, <1>8, <1>9, <1>10, <1>11, <1>12, <1>13, <1>14, <1>15, <1>16, <1>17, <1>18, <1>19, <1>20, <1>21, <1>22
  DEF Next, TaskStep, Read, Serve

\* Two conversations never register at the same time, and as long as no call
\* failed the map SLOT_OWNERS agrees with what the server has registered
\* whenever nobody is registering.
THEOREM SlotMapIsTrue == Spec => []MapIsTrue
<1>1. Init => RegInv /\ MapIsTrue
  BY DEF Init, RegInv, MapIsTrue, Section
<1>. QED BY <1>1, RemoteTypes, RegStep, PTL DEF Spec
=============================================================================
