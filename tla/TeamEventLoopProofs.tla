------------------------ MODULE TeamEventLoopProofs ------------------------
(* Proofs about TeamEventLoop for every team and every bound.               *)
EXTENDS TeamEventLoop, TLAPS

USE TeamAssumption, BoundAssumption
USE DEF slotVars, mailVars, loopVars, relayVars, inlineVars, bounds, history

\* Rows are made of a counter, a sender and a kind; the ids of a set of rows
\* are numbers; what an agent sees of its mailbox is part of it.
LEMMA RowTypes ==
    /\ \A i \in Nat, s \in Senders, k \in Kinds :
          [id |-> i, from |-> s, kind |-> k] \in Row
    /\ \A rows \in SUBSET Row : Ids(rows) \in SUBSET Nat
    /\ TypeOK => \A a \in Agents : Foreign(a) \in SUBSET Row
BY DEF Row, Ids, Foreign, TypeOK

\* Writing a row keeps the mailboxes well typed.
LEMMA WriteType ==
    ASSUME TypeOK, NEW targets \in SUBSET Agents, NEW from \in Senders,
           NEW kind \in Kinds, Write(targets, from, kind)
    PROVE  unread' \in [Agents -> SUBSET Row] /\ nextId' \in Nat
<1>1. [id |-> nextId, from |-> from, kind |-> kind] \in Row
  BY RowTypes DEF TypeOK
<1>. QED
  BY <1>1 DEF Write, TypeOK

\* So does handing rows over.
LEMMA HandType ==
    ASSUME TypeOK, NEW a \in Agents, NEW rows \in SUBSET Row, Hand(a, rows)
    PROVE  /\ handed' \in [Agents -> SUBSET Nat]
           /\ rehanded' \in [Agents -> SUBSET Nat]
<1>1. Ids(rows) \in SUBSET Nat
  BY RowTypes
<1>. QED
  BY <1>1 DEF Hand, TypeOK

\* Every step keeps the types.
LEMMA TypeStep == TypeOK /\ [Next]_vars => TypeOK'
<1> SUFFICES ASSUME TypeOK, [Next]_vars PROVE TypeOK'
  OBVIOUS
<1>1. ASSUME NEW a \in Agents, UserSend(a) PROVE TypeOK'
  <2>1. unread' \in [Agents -> SUBSET Row] /\ nextId' \in Nat
    BY <1>1, WriteType DEF UserSend, Senders, Kinds
  <2>. QED BY <1>1, <2>1 DEF TypeOK, UserSend
<1>2. ASSUME NEW a \in Agents, NEW targets \in SUBSET Agents, AgentSend(a, targets) PROVE TypeOK'
  <2>1. unread' \in [Agents -> SUBSET Row] /\ nextId' \in Nat
    BY <1>2, WriteType DEF AgentSend, Senders, Kinds
  <2>. QED BY <1>2, <2>1 DEF TypeOK, AgentSend
<1>34. ASSUME NEW a \in Agents, NEW targets \in SUBSET Agents,
              NEW W \in SUBSET Agents, AgentSendFails(a, targets, W) PROVE TypeOK'
  <2>1. unread' \in [Agents -> SUBSET Row] /\ nextId' \in Nat
    BY <1>34, WriteType DEF AgentSendFails, Spend, Senders, Kinds
  <2>. QED BY <1>34, <2>1 DEF TypeOK, AgentSendFails, Spend
<1>3. ASSUME NEW a \in Agents, LeadShutdown(a) PROVE TypeOK'
  <2>1. unread' \in [Agents -> SUBSET Row] /\ nextId' \in Nat
    BY <1>3, WriteType DEF LeadShutdown, Senders, Kinds
  <2>. QED BY <1>3, <2>1 DEF TypeOK, LeadShutdown
<1>4. ASSUME NEW a \in Agents, ShutdownRejected(a) PROVE TypeOK'
  <2>1. unread' \in [Agents -> SUBSET Row] /\ nextId' \in Nat
    BY <1>4, WriteType DEF ShutdownRejected, Senders, Kinds
  <2>. QED BY <1>4, <2>1 DEF TypeOK, ShutdownRejected
<1>5. ASSUME NEW a \in Agents, ShutdownApproved(a) PROVE TypeOK'
  BY <1>5 DEF TypeOK, ShutdownApproved
<1>6. ASSUME NEW a \in Agents, DeferredRemove(a) PROVE TypeOK'
  BY <1>6 DEF TypeOK, DeferredRemove, RemoveSlot, LoopPC
<1>7. ASSUME NEW a \in Agents, RemoveAgent(a) PROVE TypeOK'
  BY <1>7 DEF TypeOK, RemoveAgent, RemoveSlot, LoopPC
<1>8. ASSUME NEW a \in Agents, SpawnAgent(a) PROVE TypeOK'
  BY <1>8, WriteType DEF TypeOK, SpawnAgent, Senders, Kinds, Statuses
<1>9. ASSUME NEW a \in Agents, Attach(a) PROVE TypeOK'
  BY <1>9 DEF TypeOK, Attach, LoopPC
<1>10. ASSUME NEW a \in Agents, AddAgent(a) PROVE TypeOK'
  BY <1>10 DEF TypeOK, AddAgent, LoopPC, Statuses
<1>11. ASSUME NEW a \in Agents, NEW via \in {"notify", "try_wake"}, Poke(a, via) PROVE TypeOK'
  BY <1>11 DEF TypeOK, Poke
<1>12. ASSUME NEW a \in Agents, InlineWake(a) PROVE TypeOK'
  <2>1. Foreign(a) \in SUBSET Row /\ fresh[a] \in BOOLEAN
    BY RowTypes DEF TypeOK
  <2>2. /\ handed' \in [Agents -> SUBSET Nat]
        /\ rehanded' \in [Agents -> SUBSET Nat]
    <3>1. CASE Hand(a, Foreign(a))
      BY <2>1, <3>1, HandType
    <3>2. CASE UNCHANGED <<handed, rehanded>>
      BY <3>2 DEF TypeOK
    <3>. QED BY <1>12, <3>1, <3>2 DEF InlineWake
  <2>3. /\ inline' \in [Agents -> {"off", "peek", "send"}]
        /\ inlineBatch' \in [Agents -> SUBSET Row]
        /\ status' \in [Agents -> Statuses]
    BY <1>12, <2>1 DEF InlineWake, TypeOK, Statuses
  <2>. QED BY <1>12, <2>2, <2>3 DEF TypeOK, InlineWake
<1>13. ASSUME NEW a \in Agents, NEW ok \in BOOLEAN, InlineSent(a, ok) PROVE TypeOK'
  <2>1. Ids(inlineBatch[a]) \subseteq Nat
    BY RowTypes DEF TypeOK
  <2>2. /\ inline' \in [Agents -> {"off", "peek", "send"}]
        /\ inlineBatch' \in [Agents -> SUBSET Row]
    BY <1>13 DEF TypeOK, InlineSent
  <2>3. /\ unread' \in [Agents -> SUBSET Row]
        /\ status' \in [Agents -> Statuses]
    <3>1. CASE ok
      BY <1>13, <2>1, <3>1 DEF TypeOK, InlineSent
    <3>2. CASE ~ok
      BY <1>13, <3>2 DEF TypeOK, InlineSent, Statuses
    <3>. QED BY <3>1, <3>2
  <2>4. faults' \in Nat /\ stalled' \subseteq Agents
    BY <1>13, TeamAssumption DEF TypeOK, InlineSent, Spend
  <2>. QED BY <1>13, <2>2, <2>3, <2>4 DEF TypeOK, InlineSent
<1>14. ASSUME NEW a \in Agents, LoopWake(a) PROVE TypeOK'
  BY <1>14 DEF TypeOK, LoopWake, LoopPC
<1>15. ASSUME NEW a \in Agents, Peek(a) PROVE TypeOK'
  BY <1>15, RowTypes DEF TypeOK, Peek, LoopPC
<1>16. ASSUME NEW a \in Agents, WakeFails(a) PROVE TypeOK'
  BY <1>16 DEF TypeOK, WakeFails, GiveUp, Spend, LoopPC
<1>17. ASSUME NEW a \in Agents, GuardHit(a) PROVE TypeOK'
  BY <1>17 DEF TypeOK, GuardHit, GiveUp, LoopPC
<1>18. ASSUME NEW a \in Agents, GuardPass(a) PROVE TypeOK'
  BY <1>18 DEF TypeOK, GuardPass, LoopPC
<1>19. ASSUME NEW a \in Agents, Claim(a) PROVE TypeOK'
  <2>1. batch[a] \in SUBSET Row /\ prompted[a] \in BOOLEAN
    BY DEF TypeOK
  <2>2. /\ handed' \in [Agents -> SUBSET Nat]
        /\ rehanded' \in [Agents -> SUBSET Nat]
    BY <1>19, <2>1, HandType DEF Claim
  <2>3. conv' \in [Agents -> {"running", "finished"}] /\ faults' \in Nat
    BY <1>19 DEF TypeOK, Claim, Spend
  <2>. QED BY <1>19, <2>2, <2>3 DEF TypeOK, Claim, LoopPC, Statuses
<1>20. ASSUME NEW a \in Agents, NEW ok \in BOOLEAN, TurnEnds(a, ok) PROVE TypeOK'
  BY <1>20, RowTypes DEF TypeOK, TurnEnds, Spend, LoopPC
<1>21. ASSUME NEW a \in Agents, RelayCompletes(a) PROVE TypeOK'
  BY <1>21 DEF TypeOK, RelayCompletes
<1>35. ASSUME NEW a \in Agents, AgentEnds(a) PROVE TypeOK'
  BY <1>35 DEF TypeOK, AgentEnds
<1>22. ASSUME NEW a \in Agents, MarkRead(a) PROVE TypeOK'
  BY <1>22 DEF TypeOK, MarkRead, Spend, LoopPC
<1>23. ASSUME NEW a \in Agents, FinalizeTurn(a) PROVE TypeOK'
  BY <1>23 DEF TypeOK, FinalizeTurn, Spend, LoopPC, Statuses
<1>24. ASSUME NEW a \in Agents, MarkIdle(a) PROVE TypeOK'
  BY <1>24 DEF TypeOK, MarkIdle, LoopPC, Statuses
<1>25. ASSUME NEW a \in Agents, IdleNote(a) PROVE TypeOK'
  <2>1. unread' \in [Agents -> SUBSET Row] /\ nextId' \in Nat
    <3>1. CASE Write({Lead}, a, "idle_notification")
      BY <3>1, WriteType DEF Senders, Kinds
    <3>2. CASE UNCHANGED mailVars
      BY <3>2 DEF TypeOK
    <3>. QED BY <1>25, <3>1, <3>2 DEF IdleNote
  <2>. QED BY <1>25, <2>1 DEF TypeOK, IdleNote, Spend, LoopPC
<1>26. ASSUME NEW a \in Agents, Cascade(a) PROVE TypeOK'
  BY <1>26 DEF TypeOK, Cascade, LoopPC
<1>27. ASSUME NEW a \in Agents, ChatCheck(a) PROVE TypeOK'
  BY <1>27 DEF TypeOK, ChatCheck
<1>28. ASSUME NEW a \in Agents, ChatClaim(a) PROVE TypeOK'
  BY <1>28 DEF TypeOK, ChatClaim
<1>29. ASSUME NEW a \in Agents, ChatDone(a) PROVE TypeOK'
  BY <1>29 DEF TypeOK, ChatDone
<1>30. ASSUME StopAndEnsure PROVE TypeOK'
  BY <1>30 DEF TypeOK, StopAndEnsure, SessionStart, Spend, LoopPC, Statuses
<1>31. ASSUME CrashRestart PROVE TypeOK'
  BY <1>31 DEF TypeOK, CrashRestart, SessionStart, Spend, LoopPC, Statuses
<1>33. ASSUME NEW a \in Agents, Park(a) PROVE TypeOK'
  BY <1>33 DEF TypeOK, Park, LoopPC
<1>32. CASE UNCHANGED vars
  BY <1>32 DEF vars, TypeOK
<1>. QED
  BY <1>1, <1>2, <1>3, <1>4, <1>5, <1>6, <1>7, <1>8, <1>9, <1>10, <1>11, <1>12, <1>13, <1>14, <1>15, <1>16, <1>17, <1>18, <1>19, <1>20, <1>21, <1>22, <1>23, <1>24, <1>25, <1>26, <1>27, <1>28, <1>29, <1>30, <1>31, <1>32, <1>33, <1>34, <1>35 DEF Next

\* Every variable of the team session always holds a value of its type.
THEOREM TypeCorrect == Spec => []TypeOK
<1>1. Init => TypeOK
  BY DEF Init, TypeOK, LoopPC, Statuses
<1>. QED
  BY <1>1, TypeStep, PTL DEF Spec

-----------------------------------------------------------------------------
(* Slots and loops                                                          *)

\* A slot id is used once; a slot the session started with keeps its loop
\* until it is removed, is never attached and never woken inline; an id not
\* yet used has no mail and no loop.
RosterInv ==
    /\ Initial \subseteq slots \cup gone
    /\ loops \subseteq slots \cup gone
    /\ attaching \subseteq slots \cup gone
    /\ slots \cap gone = {}
    /\ \A a \in Agents \ (slots \cup gone) : unread[a] = {} /\ pc[a] = "none"
    /\ \A a \in attaching : pc[a] = "none"
    /\ \A a \in Initial : /\ a \notin attaching /\ inline[a] = "off"
                          /\ a \in slots => a \in loops
                          /\ a \notin slots => pc[a] = "none"

\* Every step keeps the slots, loops and pending removals of the roster in
\* agreement (spawn_agent, add_agent, remove_agent, stop_session).
LEMMA RosterStep == TypeOK /\ RosterInv /\ [Next]_vars => RosterInv'
<1> SUFFICES ASSUME TypeOK, RosterInv, [Next]_vars PROVE RosterInv'
  OBVIOUS
<1>1. ASSUME NEW a \in Agents, UserSend(a) PROVE RosterInv'
  BY <1>1 DEF TypeOK, RosterInv, UserSend, Write
<1>2. ASSUME NEW a \in Agents, NEW targets \in SUBSET Agents, AgentSend(a, targets) PROVE RosterInv'
  BY <1>2 DEF TypeOK, RosterInv, AgentSend, Write
<1>34. ASSUME NEW a \in Agents, NEW targets \in SUBSET Agents,
              NEW W \in SUBSET Agents, AgentSendFails(a, targets, W) PROVE RosterInv'
  BY <1>34 DEF TypeOK, RosterInv, AgentSendFails, Spend, Write
<1>3. ASSUME NEW a \in Agents, LeadShutdown(a) PROVE RosterInv'
  BY <1>3 DEF TypeOK, RosterInv, LeadShutdown, Write
<1>4. ASSUME NEW a \in Agents, ShutdownRejected(a) PROVE RosterInv'
  BY <1>4 DEF TypeOK, RosterInv, ShutdownRejected, Write
<1>5. ASSUME NEW a \in Agents, ShutdownApproved(a) PROVE RosterInv'
  BY <1>5 DEF TypeOK, RosterInv, ShutdownApproved
<1>6. ASSUME NEW a \in Agents, DeferredRemove(a) PROVE RosterInv'
  BY <1>6 DEF TypeOK, RosterInv, DeferredRemove, RemoveSlot
<1>7. ASSUME NEW a \in Agents, RemoveAgent(a) PROVE RosterInv'
  BY <1>7 DEF TypeOK, RosterInv, RemoveAgent, RemoveSlot
<1>8. ASSUME NEW a \in Agents, SpawnAgent(a) PROVE RosterInv'
  BY <1>8 DEF TypeOK, RosterInv, SpawnAgent, Write
<1>9. ASSUME NEW a \in Agents, Attach(a) PROVE RosterInv'
  BY <1>9 DEF TypeOK, RosterInv, Attach
<1>10. ASSUME NEW a \in Agents, AddAgent(a) PROVE RosterInv'
  BY <1>10 DEF TypeOK, RosterInv, AddAgent
<1>11. ASSUME NEW a \in Agents, NEW via \in {"notify", "try_wake"}, Poke(a, via) PROVE RosterInv'
  BY <1>11 DEF TypeOK, RosterInv, Poke
<1>12. ASSUME NEW a \in Agents, InlineWake(a) PROVE RosterInv'
  BY <1>12 DEF TypeOK, RosterInv, InlineWake
<1>13. ASSUME NEW a \in Agents, NEW ok \in BOOLEAN, InlineSent(a, ok) PROVE RosterInv'
  BY <1>13 DEF TypeOK, RosterInv, InlineSent
<1>14. ASSUME NEW a \in Agents, LoopWake(a) PROVE RosterInv'
  BY <1>14 DEF TypeOK, RosterInv, LoopWake
<1>15. ASSUME NEW a \in Agents, Peek(a) PROVE RosterInv'
  BY <1>15 DEF TypeOK, RosterInv, Peek
<1>16. ASSUME NEW a \in Agents, WakeFails(a) PROVE RosterInv'
  BY <1>16 DEF TypeOK, RosterInv, WakeFails, GiveUp
<1>17. ASSUME NEW a \in Agents, GuardHit(a) PROVE RosterInv'
  BY <1>17 DEF TypeOK, RosterInv, GuardHit, GiveUp
<1>18. ASSUME NEW a \in Agents, GuardPass(a) PROVE RosterInv'
  BY <1>18 DEF TypeOK, RosterInv, GuardPass
<1>19. ASSUME NEW a \in Agents, Claim(a) PROVE RosterInv'
  BY <1>19 DEF TypeOK, RosterInv, Claim
<1>20. ASSUME NEW a \in Agents, NEW ok \in BOOLEAN, TurnEnds(a, ok) PROVE RosterInv'
  BY <1>20 DEF TypeOK, RosterInv, TurnEnds
<1>21. ASSUME NEW a \in Agents, RelayCompletes(a) PROVE RosterInv'
  BY <1>21 DEF TypeOK, RosterInv, RelayCompletes
<1>35. ASSUME NEW a \in Agents, AgentEnds(a) PROVE RosterInv'
  BY <1>35 DEF TypeOK, RosterInv, AgentEnds
<1>22. ASSUME NEW a \in Agents, MarkRead(a) PROVE RosterInv'
  BY <1>22 DEF TypeOK, RosterInv, MarkRead
<1>23. ASSUME NEW a \in Agents, FinalizeTurn(a) PROVE RosterInv'
  BY <1>23 DEF TypeOK, RosterInv, FinalizeTurn
<1>24. ASSUME NEW a \in Agents, MarkIdle(a) PROVE RosterInv'
  BY <1>24 DEF TypeOK, RosterInv, MarkIdle
<1>25. ASSUME NEW a \in Agents, IdleNote(a) PROVE RosterInv'
  BY <1>25 DEF TypeOK, RosterInv, IdleNote, Write
<1>26. ASSUME NEW a \in Agents, Cascade(a) PROVE RosterInv'
  BY <1>26 DEF TypeOK, RosterInv, Cascade
<1>27. ASSUME NEW a \in Agents, ChatCheck(a) PROVE RosterInv'
  BY <1>27 DEF TypeOK, RosterInv, ChatCheck
<1>28. ASSUME NEW a \in Agents, ChatClaim(a) PROVE RosterInv'
  BY <1>28 DEF TypeOK, RosterInv, ChatClaim
<1>29. ASSUME NEW a \in Agents, ChatDone(a) PROVE RosterInv'
  BY <1>29 DEF TypeOK, RosterInv, ChatDone
<1>30. ASSUME StopAndEnsure PROVE RosterInv'
  BY <1>30 DEF TypeOK, RosterInv, StopAndEnsure, SessionStart
<1>31. ASSUME CrashRestart PROVE RosterInv'
  BY <1>31 DEF TypeOK, RosterInv, CrashRestart, SessionStart
<1>33. ASSUME NEW a \in Agents, Park(a) PROVE RosterInv'
  BY <1>33 DEF TypeOK, RosterInv, Park
<1>32. CASE UNCHANGED vars
  BY <1>32 DEF vars, TypeOK, RosterInv
<1>. QED
  BY <1>1, <1>2, <1>3, <1>4, <1>5, <1>6, <1>7, <1>8, <1>9, <1>10, <1>11,
     <1>12, <1>13, <1>14, <1>15, <1>16, <1>17, <1>18, <1>19, <1>20, <1>21, <1>22,
     <1>23, <1>24, <1>25, <1>26, <1>27, <1>28, <1>29, <1>30, <1>31, <1>32, <1>33, <1>34, <1>35 DEF Next

-----------------------------------------------------------------------------
(* Mail                                                                     *)

\* Row ids come from the counter: they are below it wherever they are kept,
\* and tell the rows of a mailbox apart.  Idle notifications to the lead come
\* from others.
MailInv ==
    /\ \A a \in Agents :
          \A m \in unread[a] \cup batch[a] \cup inlineBatch[a] : m.id < nextId
    /\ \A a \in Agents : \A i \in handed[a] : i < nextId
    /\ \A a \in Agents : \A m, n \in unread[a] : m.id = n.id => m = n
    /\ \A m \in unread[Lead] : m.kind = "idle_notification" => m.from # Lead
    /\ \A a \in Agents : pc[a] \in {"note", "cascade"} => a # Lead

\* A new row has the next id and nothing else changes.
LEMMA WriteKeepsMail ==
    ASSUME TypeOK, MailInv, NEW targets \in SUBSET Agents, NEW from \in Senders,
           NEW kind \in Kinds, Write(targets, from, kind),
           kind = "idle_notification" => from # Lead,
           UNCHANGED <<batch, inlineBatch, handed>>,
           \A a \in Agents : pc'[a] \in {"note", "cascade"} => a # Lead
    PROVE  MailInv'
<1>1. PICK r \in Row : r = [id |-> nextId, from |-> from, kind |-> kind]
  BY RowTypes DEF TypeOK
<1>2. r.id = nextId /\ r.from = from /\ r.kind = kind
  BY <1>1
<1>3. \A a \in Agents : unread'[a] \subseteq unread[a] \cup {r}
  BY <1>1 DEF Write
<1>4. nextId \in Nat /\ nextId' = nextId + 1
  BY DEF Write, TypeOK
<1>5. \A a \in Agents : \A m \in unread[a] : m \in Row /\ m.id < nextId
  BY DEF TypeOK, MailInv
<1>6. \A m \in Row : m.id \in Nat
  BY DEF Row
<1>7. /\ \A a \in Agents : \A m \in unread'[a] : m.id < nextId'
      /\ \A a \in Agents : \A m, n \in unread'[a] : m.id = n.id => m = n
      /\ \A m \in unread'[Lead] : m.kind = "idle_notification" => m.from # Lead
  BY <1>2, <1>3, <1>4, <1>5, <1>6 DEF MailInv
<1>8. \A a \in Agents : \A m \in batch'[a] \cup inlineBatch'[a] : m.id < nextId'
  BY <1>4, <1>6 DEF MailInv, TypeOK
<1>9. \A a \in Agents : \A k \in handed'[a] : k < nextId'
  BY <1>4 DEF MailInv, TypeOK
<1>. QED
  BY <1>7, <1>8, <1>9 DEF MailInv

\* Every step keeps row ids unique and batches made of rows of the mailbox
\* (Mailbox::write, peek_unread, mark_read_batch).
LEMMA MailStep == TypeOK /\ MailInv /\ [Next]_vars => MailInv'
<1> SUFFICES ASSUME TypeOK, MailInv, [Next]_vars PROVE MailInv'
  OBVIOUS
<1>1. ASSUME NEW a \in Agents, UserSend(a) PROVE MailInv'
  <2>1. \A e \in Agents : pc'[e] \in {"note", "cascade"} => e # Lead
    BY <1>1 DEF UserSend, MailInv
  <2>. QED BY <1>1, <2>1, WriteKeepsMail DEF UserSend, Senders, Kinds
<1>2. ASSUME NEW a \in Agents, NEW targets \in SUBSET Agents, AgentSend(a, targets) PROVE MailInv'
  <2>1. \A e \in Agents : pc'[e] \in {"note", "cascade"} => e # Lead
    BY <1>2 DEF AgentSend, MailInv
  <2>. QED BY <1>2, <2>1, WriteKeepsMail DEF AgentSend, Senders, Kinds
<1>34. ASSUME NEW a \in Agents, NEW targets \in SUBSET Agents,
              NEW W \in SUBSET Agents, AgentSendFails(a, targets, W) PROVE MailInv'
  <2>1. \A e \in Agents : pc'[e] \in {"note", "cascade"} => e # Lead
    BY <1>34 DEF AgentSendFails, Spend, MailInv
  <2>. QED BY <1>34, <2>1, WriteKeepsMail DEF AgentSendFails, Spend, Senders, Kinds
<1>3. ASSUME NEW a \in Agents, LeadShutdown(a) PROVE MailInv'
  <2>1. \A e \in Agents : pc'[e] \in {"note", "cascade"} => e # Lead
    BY <1>3 DEF LeadShutdown, MailInv
  <2>. QED BY <1>3, <2>1, WriteKeepsMail DEF LeadShutdown, Senders, Kinds
<1>4. ASSUME NEW a \in Agents, ShutdownRejected(a) PROVE MailInv'
  <2>1. \A e \in Agents : pc'[e] \in {"note", "cascade"} => e # Lead
    BY <1>4 DEF ShutdownRejected, MailInv
  <2>. QED BY <1>4, <2>1, WriteKeepsMail DEF ShutdownRejected, Senders, Kinds
<1>5. ASSUME NEW a \in Agents, ShutdownApproved(a) PROVE MailInv'
  BY <1>5 DEF TypeOK, MailInv, ShutdownApproved
<1>6. ASSUME NEW a \in Agents, DeferredRemove(a) PROVE MailInv'
  BY <1>6 DEF TypeOK, MailInv, DeferredRemove, RemoveSlot
<1>7. ASSUME NEW a \in Agents, RemoveAgent(a) PROVE MailInv'
  BY <1>7 DEF TypeOK, MailInv, RemoveAgent, RemoveSlot
<1>8. ASSUME NEW a \in Agents, SpawnAgent(a) PROVE MailInv'
  <2>1. \A e \in Agents : pc'[e] \in {"note", "cascade"} => e # Lead
    BY <1>8 DEF SpawnAgent, MailInv
  <2>. QED BY <1>8, <2>1, WriteKeepsMail DEF SpawnAgent, Senders, Kinds
<1>9. ASSUME NEW a \in Agents, Attach(a) PROVE MailInv'
  BY <1>9 DEF TypeOK, MailInv, Attach
<1>10. ASSUME NEW a \in Agents, AddAgent(a) PROVE MailInv'
  BY <1>10 DEF TypeOK, MailInv, AddAgent
<1>11. ASSUME NEW a \in Agents, NEW via \in {"notify", "try_wake"}, Poke(a, via) PROVE MailInv'
  BY <1>11 DEF TypeOK, MailInv, Poke
<1>12. ASSUME NEW a \in Agents, InlineWake(a) PROVE MailInv'
  <2>1. UNCHANGED <<unread, nextId, batch, pc>>
    BY <1>12 DEF InlineWake, mailVars, loopVars
  <2>2. CASE UNCHANGED <<inlineBatch, handed>>
    BY <2>1, <2>2 DEF MailInv
  <2>3. CASE /\ inlineBatch' = [inlineBatch EXCEPT ![a] = Foreign(a)]
             /\ handed' = [handed EXCEPT ![a] = @ \cup Ids(Foreign(a))]
    <3>1. \A m \in Foreign(a) : m.id < nextId
      BY DEF MailInv, Foreign
    <3>2. \A e \in Agents : \A m \in inlineBatch'[e] : m.id < nextId
      BY <2>3, <3>1 DEF TypeOK, MailInv
    <3>3. \A i \in Ids(Foreign(a)) : i < nextId
      BY <3>1 DEF Ids
    <3>4. \A e \in Agents : \A i \in handed'[e] : i < nextId
      BY <2>3, <3>3 DEF TypeOK, MailInv
    <3>. QED BY <2>1, <3>2, <3>4 DEF MailInv
  <2>. QED BY <1>12, <2>2, <2>3 DEF InlineWake, Hand
<1>13. ASSUME NEW a \in Agents, NEW ok \in BOOLEAN, InlineSent(a, ok) PROVE MailInv'
  BY <1>13 DEF TypeOK, MailInv, InlineSent
<1>14. ASSUME NEW a \in Agents, LoopWake(a) PROVE MailInv'
  BY <1>14 DEF TypeOK, MailInv, LoopWake
<1>15. ASSUME NEW a \in Agents, Peek(a) PROVE MailInv'
  BY <1>15 DEF TypeOK, MailInv, Peek, Foreign
<1>16. ASSUME NEW a \in Agents, WakeFails(a) PROVE MailInv'
  BY <1>16 DEF TypeOK, MailInv, WakeFails, GiveUp
<1>17. ASSUME NEW a \in Agents, GuardHit(a) PROVE MailInv'
  BY <1>17 DEF TypeOK, MailInv, GuardHit, GiveUp
<1>18. ASSUME NEW a \in Agents, GuardPass(a) PROVE MailInv'
  BY <1>18 DEF TypeOK, MailInv, GuardPass
<1>19. ASSUME NEW a \in Agents, Claim(a) PROVE MailInv'
  BY <1>19 DEF TypeOK, MailInv, Claim, Hand, Ids
<1>20. ASSUME NEW a \in Agents, NEW ok \in BOOLEAN, TurnEnds(a, ok) PROVE MailInv'
  BY <1>20 DEF TypeOK, MailInv, TurnEnds
<1>21. ASSUME NEW a \in Agents, RelayCompletes(a) PROVE MailInv'
  BY <1>21 DEF TypeOK, MailInv, RelayCompletes
<1>35. ASSUME NEW a \in Agents, AgentEnds(a) PROVE MailInv'
  BY <1>35 DEF TypeOK, MailInv, AgentEnds
<1>22. ASSUME NEW a \in Agents, MarkRead(a) PROVE MailInv'
  BY <1>22 DEF TypeOK, MailInv, MarkRead
<1>23. ASSUME NEW a \in Agents, FinalizeTurn(a) PROVE MailInv'
  BY <1>23 DEF TypeOK, MailInv, FinalizeTurn
<1>24. ASSUME NEW a \in Agents, MarkIdle(a) PROVE MailInv'
  BY <1>24 DEF TypeOK, MailInv, MarkIdle
<1>25. ASSUME NEW a \in Agents, IdleNote(a) PROVE MailInv'
  <2>1. CASE Write({Lead}, a, "idle_notification")
    <3>1. a # Lead /\ \A e \in Agents : pc'[e] \in {"note", "cascade"} => e # Lead
      BY <1>25 DEF IdleNote, MailInv, TypeOK
    <3>. QED BY <1>25, <2>1, <3>1, WriteKeepsMail DEF IdleNote, Senders, Kinds
  <2>2. CASE UNCHANGED mailVars
    BY <1>25, <2>2 DEF TypeOK, MailInv, IdleNote
  <2>. QED BY <1>25, <2>1, <2>2 DEF IdleNote
<1>26. ASSUME NEW a \in Agents, Cascade(a) PROVE MailInv'
  BY <1>26 DEF TypeOK, MailInv, Cascade
<1>27. ASSUME NEW a \in Agents, ChatCheck(a) PROVE MailInv'
  BY <1>27 DEF TypeOK, MailInv, ChatCheck
<1>28. ASSUME NEW a \in Agents, ChatClaim(a) PROVE MailInv'
  BY <1>28 DEF TypeOK, MailInv, ChatClaim
<1>29. ASSUME NEW a \in Agents, ChatDone(a) PROVE MailInv'
  BY <1>29 DEF TypeOK, MailInv, ChatDone
<1>30. ASSUME StopAndEnsure PROVE MailInv'
  BY <1>30 DEF TypeOK, MailInv, StopAndEnsure, SessionStart
<1>31. ASSUME CrashRestart PROVE MailInv'
  BY <1>31 DEF TypeOK, MailInv, CrashRestart, SessionStart
<1>33. ASSUME NEW a \in Agents, Park(a) PROVE MailInv'
  BY <1>33 DEF TypeOK, MailInv, Park
<1>32. CASE UNCHANGED vars
  BY <1>32 DEF vars, TypeOK, MailInv
<1>. QED
  BY <1>1, <1>2, <1>3, <1>4, <1>5, <1>6, <1>7, <1>8, <1>9, <1>10, <1>11,
     <1>12, <1>13, <1>14, <1>15, <1>16, <1>17, <1>18, <1>19, <1>20, <1>21, <1>22,
     <1>23, <1>24, <1>25, <1>26, <1>27, <1>28, <1>29, <1>30, <1>31, <1>32, <1>33, <1>34, <1>35 DEF Next

\* The rows of a turn under way have been handed over.
HandedInv ==
    \A a \in Agents :
        /\ pc[a] \in {"send", "mark"} => Ids(batch[a]) \subseteq handed[a]
        /\ inline[a] = "send" => Ids(inlineBatch[a]) \subseteq handed[a]

\* Every step keeps a batch that is being sent recorded as handed over
\* (execute_turn, try_wake_inline).
LEMMA HandedStep == TypeOK /\ HandedInv /\ [Next]_vars => HandedInv'
<1> SUFFICES ASSUME TypeOK, HandedInv, [Next]_vars PROVE HandedInv'
  OBVIOUS
<1>1. ASSUME NEW a \in Agents, UserSend(a) PROVE HandedInv'
  BY <1>1 DEF TypeOK, HandedInv, UserSend
<1>2. ASSUME NEW a \in Agents, NEW targets \in SUBSET Agents, AgentSend(a, targets) PROVE HandedInv'
  BY <1>2 DEF TypeOK, HandedInv, AgentSend
<1>34. ASSUME NEW a \in Agents, NEW targets \in SUBSET Agents,
              NEW W \in SUBSET Agents, AgentSendFails(a, targets, W) PROVE HandedInv'
  BY <1>34 DEF TypeOK, HandedInv, AgentSendFails, Spend
<1>3. ASSUME NEW a \in Agents, LeadShutdown(a) PROVE HandedInv'
  BY <1>3 DEF TypeOK, HandedInv, LeadShutdown
<1>4. ASSUME NEW a \in Agents, ShutdownRejected(a) PROVE HandedInv'
  BY <1>4 DEF TypeOK, HandedInv, ShutdownRejected
<1>5. ASSUME NEW a \in Agents, ShutdownApproved(a) PROVE HandedInv'
  BY <1>5 DEF TypeOK, HandedInv, ShutdownApproved
<1>6. ASSUME NEW a \in Agents, DeferredRemove(a) PROVE HandedInv'
  BY <1>6 DEF TypeOK, HandedInv, DeferredRemove, RemoveSlot
<1>7. ASSUME NEW a \in Agents, RemoveAgent(a) PROVE HandedInv'
  BY <1>7 DEF TypeOK, HandedInv, RemoveAgent, RemoveSlot
<1>8. ASSUME NEW a \in Agents, SpawnAgent(a) PROVE HandedInv'
  BY <1>8 DEF TypeOK, HandedInv, SpawnAgent
<1>9. ASSUME NEW a \in Agents, Attach(a) PROVE HandedInv'
  BY <1>9 DEF TypeOK, HandedInv, Attach
<1>10. ASSUME NEW a \in Agents, AddAgent(a) PROVE HandedInv'
  BY <1>10 DEF TypeOK, HandedInv, AddAgent
<1>11. ASSUME NEW a \in Agents, NEW via \in {"notify", "try_wake"}, Poke(a, via) PROVE HandedInv'
  BY <1>11 DEF TypeOK, HandedInv, Poke
<1>12. ASSUME NEW a \in Agents, InlineWake(a) PROVE HandedInv'
  BY <1>12 DEF TypeOK, HandedInv, InlineWake, Hand
<1>13. ASSUME NEW a \in Agents, NEW ok \in BOOLEAN, InlineSent(a, ok) PROVE HandedInv'
  BY <1>13 DEF TypeOK, HandedInv, InlineSent
<1>14. ASSUME NEW a \in Agents, LoopWake(a) PROVE HandedInv'
  BY <1>14 DEF TypeOK, HandedInv, LoopWake
<1>15. ASSUME NEW a \in Agents, Peek(a) PROVE HandedInv'
  BY <1>15 DEF TypeOK, HandedInv, Peek
<1>16. ASSUME NEW a \in Agents, WakeFails(a) PROVE HandedInv'
  BY <1>16 DEF TypeOK, HandedInv, WakeFails, GiveUp
<1>17. ASSUME NEW a \in Agents, GuardHit(a) PROVE HandedInv'
  BY <1>17 DEF TypeOK, HandedInv, GuardHit, GiveUp
<1>18. ASSUME NEW a \in Agents, GuardPass(a) PROVE HandedInv'
  BY <1>18 DEF TypeOK, HandedInv, GuardPass
<1>19. ASSUME NEW a \in Agents, Claim(a) PROVE HandedInv'
  BY <1>19 DEF TypeOK, HandedInv, Claim, Hand
<1>20. ASSUME NEW a \in Agents, NEW ok \in BOOLEAN, TurnEnds(a, ok) PROVE HandedInv'
  BY <1>20 DEF TypeOK, HandedInv, TurnEnds
<1>21. ASSUME NEW a \in Agents, RelayCompletes(a) PROVE HandedInv'
  BY <1>21 DEF TypeOK, HandedInv, RelayCompletes
<1>35. ASSUME NEW a \in Agents, AgentEnds(a) PROVE HandedInv'
  BY <1>35 DEF TypeOK, HandedInv, AgentEnds
<1>22. ASSUME NEW a \in Agents, MarkRead(a) PROVE HandedInv'
  BY <1>22 DEF TypeOK, HandedInv, MarkRead
<1>23. ASSUME NEW a \in Agents, FinalizeTurn(a) PROVE HandedInv'
  BY <1>23 DEF TypeOK, HandedInv, FinalizeTurn
<1>24. ASSUME NEW a \in Agents, MarkIdle(a) PROVE HandedInv'
  BY <1>24 DEF TypeOK, HandedInv, MarkIdle
<1>25. ASSUME NEW a \in Agents, IdleNote(a) PROVE HandedInv'
  BY <1>25 DEF TypeOK, HandedInv, IdleNote
<1>26. ASSUME NEW a \in Agents, Cascade(a) PROVE HandedInv'
  BY <1>26 DEF TypeOK, HandedInv, Cascade
<1>27. ASSUME NEW a \in Agents, ChatCheck(a) PROVE HandedInv'
  BY <1>27 DEF TypeOK, HandedInv, ChatCheck
<1>28. ASSUME NEW a \in Agents, ChatClaim(a) PROVE HandedInv'
  BY <1>28 DEF TypeOK, HandedInv, ChatClaim
<1>29. ASSUME NEW a \in Agents, ChatDone(a) PROVE HandedInv'
  BY <1>29 DEF TypeOK, HandedInv, ChatDone
<1>30. ASSUME StopAndEnsure PROVE HandedInv'
  BY <1>30 DEF TypeOK, HandedInv, StopAndEnsure, SessionStart
<1>31. ASSUME CrashRestart PROVE HandedInv'
  BY <1>31 DEF TypeOK, HandedInv, CrashRestart, SessionStart
<1>33. ASSUME NEW a \in Agents, Park(a) PROVE HandedInv'
  BY <1>33 DEF TypeOK, HandedInv, Park
<1>32. CASE UNCHANGED vars
  BY <1>32 DEF vars, TypeOK, HandedInv
<1>. QED
  BY <1>1, <1>2, <1>3, <1>4, <1>5, <1>6, <1>7, <1>8, <1>9, <1>10, <1>11,
     <1>12, <1>13, <1>14, <1>15, <1>16, <1>17, <1>18, <1>19, <1>20, <1>21, <1>22,
     <1>23, <1>24, <1>25, <1>26, <1>27, <1>28, <1>29, <1>30, <1>31, <1>32, <1>33, <1>34, <1>35 DEF Next

-----------------------------------------------------------------------------
(* Status                                                                   *)

\* The status of a slot the session started with: Working only during a turn,
\* Error only until mark_idle.
StatusInv ==
    \A a \in slots \cap Initial :
        /\ status[a] = "Working" => pc[a] \in {"send", "mark", "finalize", "idle"}
        /\ status[a] = "Error" => pc[a] = "idle"

\* Every step keeps the scheduler's status in agreement with the place the
\* agent's loop is at (set_status, mark_idle, finalize_turn).
LEMMA StatusStep ==
    TypeOK /\ RosterInv /\ StatusInv /\ [Next]_vars => StatusInv'
<1> SUFFICES ASSUME TypeOK, RosterInv, StatusInv, [Next]_vars PROVE StatusInv'
  OBVIOUS
<1>1. ASSUME NEW a \in Agents, UserSend(a) PROVE StatusInv'
  BY <1>1 DEF TypeOK, RosterInv, StatusInv, UserSend
<1>2. ASSUME NEW a \in Agents, NEW targets \in SUBSET Agents, AgentSend(a, targets) PROVE StatusInv'
  BY <1>2 DEF TypeOK, RosterInv, StatusInv, AgentSend
<1>34. ASSUME NEW a \in Agents, NEW targets \in SUBSET Agents,
              NEW W \in SUBSET Agents, AgentSendFails(a, targets, W) PROVE StatusInv'
  BY <1>34 DEF TypeOK, RosterInv, StatusInv, AgentSendFails, Spend
<1>3. ASSUME NEW a \in Agents, LeadShutdown(a) PROVE StatusInv'
  BY <1>3 DEF TypeOK, RosterInv, StatusInv, LeadShutdown
<1>4. ASSUME NEW a \in Agents, ShutdownRejected(a) PROVE StatusInv'
  BY <1>4 DEF TypeOK, RosterInv, StatusInv, ShutdownRejected
<1>5. ASSUME NEW a \in Agents, ShutdownApproved(a) PROVE StatusInv'
  BY <1>5 DEF TypeOK, RosterInv, StatusInv, ShutdownApproved
<1>6. ASSUME NEW a \in Agents, DeferredRemove(a) PROVE StatusInv'
  BY <1>6 DEF TypeOK, RosterInv, StatusInv, DeferredRemove, RemoveSlot
<1>7. ASSUME NEW a \in Agents, RemoveAgent(a) PROVE StatusInv'
  BY <1>7 DEF TypeOK, RosterInv, StatusInv, RemoveAgent, RemoveSlot
<1>8. ASSUME NEW a \in Agents, SpawnAgent(a) PROVE StatusInv'
  BY <1>8 DEF TypeOK, RosterInv, StatusInv, SpawnAgent
<1>9. ASSUME NEW a \in Agents, Attach(a) PROVE StatusInv'
  BY <1>9 DEF TypeOK, RosterInv, StatusInv, Attach
<1>10. ASSUME NEW a \in Agents, AddAgent(a) PROVE StatusInv'
  BY <1>10 DEF TypeOK, RosterInv, StatusInv, AddAgent
<1>11. ASSUME NEW a \in Agents, NEW via \in {"notify", "try_wake"}, Poke(a, via) PROVE StatusInv'
  BY <1>11 DEF TypeOK, RosterInv, StatusInv, Poke
<1>12. ASSUME NEW a \in Agents, InlineWake(a) PROVE StatusInv'
  BY <1>12 DEF TypeOK, RosterInv, StatusInv, InlineWake
<1>13. ASSUME NEW a \in Agents, NEW ok \in BOOLEAN, InlineSent(a, ok) PROVE StatusInv'
  BY <1>13 DEF TypeOK, RosterInv, StatusInv, InlineSent
<1>14. ASSUME NEW a \in Agents, LoopWake(a) PROVE StatusInv'
  BY <1>14 DEF TypeOK, RosterInv, StatusInv, LoopWake
<1>15. ASSUME NEW a \in Agents, Peek(a) PROVE StatusInv'
  BY <1>15 DEF TypeOK, RosterInv, StatusInv, Peek
<1>16. ASSUME NEW a \in Agents, WakeFails(a) PROVE StatusInv'
  BY <1>16 DEF TypeOK, RosterInv, StatusInv, WakeFails, GiveUp
<1>17. ASSUME NEW a \in Agents, GuardHit(a) PROVE StatusInv'
  BY <1>17 DEF TypeOK, RosterInv, StatusInv, GuardHit, GiveUp
<1>18. ASSUME NEW a \in Agents, GuardPass(a) PROVE StatusInv'
  BY <1>18 DEF TypeOK, RosterInv, StatusInv, GuardPass
<1>19. ASSUME NEW a \in Agents, Claim(a) PROVE StatusInv'
  BY <1>19 DEF TypeOK, RosterInv, StatusInv, Claim
<1>20. ASSUME NEW a \in Agents, NEW ok \in BOOLEAN, TurnEnds(a, ok) PROVE StatusInv'
  BY <1>20 DEF TypeOK, RosterInv, StatusInv, TurnEnds
<1>21. ASSUME NEW a \in Agents, RelayCompletes(a) PROVE StatusInv'
  BY <1>21 DEF TypeOK, RosterInv, StatusInv, RelayCompletes
<1>35. ASSUME NEW a \in Agents, AgentEnds(a) PROVE StatusInv'
  BY <1>35 DEF TypeOK, RosterInv, StatusInv, AgentEnds
<1>22. ASSUME NEW a \in Agents, MarkRead(a) PROVE StatusInv'
  BY <1>22 DEF TypeOK, RosterInv, StatusInv, MarkRead
<1>23. ASSUME NEW a \in Agents, FinalizeTurn(a) PROVE StatusInv'
  BY <1>23 DEF TypeOK, RosterInv, StatusInv, FinalizeTurn
<1>24. ASSUME NEW a \in Agents, MarkIdle(a) PROVE StatusInv'
  BY <1>24 DEF TypeOK, RosterInv, StatusInv, MarkIdle
<1>25. ASSUME NEW a \in Agents, IdleNote(a) PROVE StatusInv'
  BY <1>25 DEF TypeOK, RosterInv, StatusInv, IdleNote
<1>26. ASSUME NEW a \in Agents, Cascade(a) PROVE StatusInv'
  BY <1>26 DEF TypeOK, RosterInv, StatusInv, Cascade
<1>27. ASSUME NEW a \in Agents, ChatCheck(a) PROVE StatusInv'
  BY <1>27 DEF TypeOK, RosterInv, StatusInv, ChatCheck
<1>28. ASSUME NEW a \in Agents, ChatClaim(a) PROVE StatusInv'
  BY <1>28 DEF TypeOK, RosterInv, StatusInv, ChatClaim
<1>29. ASSUME NEW a \in Agents, ChatDone(a) PROVE StatusInv'
  BY <1>29 DEF TypeOK, RosterInv, StatusInv, ChatDone
<1>30. ASSUME StopAndEnsure PROVE StatusInv'
  BY <1>30 DEF TypeOK, RosterInv, StatusInv, StopAndEnsure, SessionStart
<1>31. ASSUME CrashRestart PROVE StatusInv'
  BY <1>31 DEF TypeOK, RosterInv, StatusInv, CrashRestart, SessionStart
<1>33. ASSUME NEW a \in Agents, Park(a) PROVE StatusInv'
  BY <1>33 DEF TypeOK, RosterInv, StatusInv, Park
<1>32. CASE UNCHANGED vars
  BY <1>32 DEF vars, TypeOK, RosterInv, StatusInv
<1>. QED
  BY <1>1, <1>2, <1>3, <1>4, <1>5, <1>6, <1>7, <1>8, <1>9, <1>10, <1>11,
     <1>12, <1>13, <1>14, <1>15, <1>16, <1>17, <1>18, <1>19, <1>20, <1>21, <1>22,
     <1>23, <1>24, <1>25, <1>26, <1>27, <1>28, <1>29, <1>30, <1>31, <1>32, <1>33, <1>34, <1>35 DEF Next

-----------------------------------------------------------------------------
(* Delivery                                                                 *)

\* Before the first fault, a row a founding agent was handed is unread only
\* while the turn it was handed for is being sent or marked.
CleanInv ==
    faults = 0 =>
        \A a \in Initial \cap slots :
            /\ pc[a] \in {"start", "claim", "send", "mark"} => batch[a] \subseteq unread[a]
            /\ \A m \in unread[a] :
                  m.id \in handed[a] => pc[a] \in {"send", "mark"} /\ m \in batch[a]

\* Until the first fault, a row handed over is still unread only between the
\* send and the mark_read_batch of the turn that handed it over.
LEMMA CleanStep ==
    TypeOK /\ RosterInv /\ MailInv /\ CleanInv /\ NoRedelivery /\ [Next]_vars
    => CleanInv' /\ NoRedelivery'
<1> SUFFICES ASSUME TypeOK, RosterInv, MailInv, CleanInv, NoRedelivery, [Next]_vars
             PROVE  CleanInv' /\ NoRedelivery'
  OBVIOUS
<1>1. ASSUME NEW a \in Agents, UserSend(a) PROVE CleanInv' /\ NoRedelivery'
  BY <1>1 DEF TypeOK, RosterInv, MailInv, CleanInv, NoRedelivery, UserSend, Write
<1>2. ASSUME NEW a \in Agents, NEW targets \in SUBSET Agents, AgentSend(a, targets) PROVE CleanInv' /\ NoRedelivery'
  BY <1>2 DEF TypeOK, RosterInv, MailInv, CleanInv, NoRedelivery, AgentSend, Write
<1>34. ASSUME NEW a \in Agents, NEW targets \in SUBSET Agents,
              NEW W \in SUBSET Agents, AgentSendFails(a, targets, W) PROVE CleanInv' /\ NoRedelivery'
  BY <1>34 DEF TypeOK, RosterInv, MailInv, CleanInv, NoRedelivery, AgentSendFails, Spend, Write
<1>3. ASSUME NEW a \in Agents, LeadShutdown(a) PROVE CleanInv' /\ NoRedelivery'
  BY <1>3 DEF TypeOK, RosterInv, MailInv, CleanInv, NoRedelivery, LeadShutdown, Write
<1>4. ASSUME NEW a \in Agents, ShutdownRejected(a) PROVE CleanInv' /\ NoRedelivery'
  BY <1>4 DEF TypeOK, RosterInv, MailInv, CleanInv, NoRedelivery, ShutdownRejected, Write
<1>5. ASSUME NEW a \in Agents, ShutdownApproved(a) PROVE CleanInv' /\ NoRedelivery'
  BY <1>5 DEF TypeOK, RosterInv, MailInv, CleanInv, NoRedelivery, ShutdownApproved
<1>6. ASSUME NEW a \in Agents, DeferredRemove(a) PROVE CleanInv' /\ NoRedelivery'
  BY <1>6 DEF TypeOK, RosterInv, MailInv, CleanInv, NoRedelivery, DeferredRemove, RemoveSlot
<1>7. ASSUME NEW a \in Agents, RemoveAgent(a) PROVE CleanInv' /\ NoRedelivery'
  BY <1>7 DEF TypeOK, RosterInv, MailInv, CleanInv, NoRedelivery, RemoveAgent, RemoveSlot
<1>8. ASSUME NEW a \in Agents, SpawnAgent(a) PROVE CleanInv' /\ NoRedelivery'
  BY <1>8 DEF TypeOK, RosterInv, MailInv, CleanInv, NoRedelivery, SpawnAgent, Write
<1>9. ASSUME NEW a \in Agents, Attach(a) PROVE CleanInv' /\ NoRedelivery'
  BY <1>9 DEF TypeOK, RosterInv, MailInv, CleanInv, NoRedelivery, Attach
<1>10. ASSUME NEW a \in Agents, AddAgent(a) PROVE CleanInv' /\ NoRedelivery'
  BY <1>10 DEF TypeOK, RosterInv, MailInv, CleanInv, NoRedelivery, AddAgent
<1>11. ASSUME NEW a \in Agents, NEW via \in {"notify", "try_wake"}, Poke(a, via) PROVE CleanInv' /\ NoRedelivery'
  BY <1>11 DEF TypeOK, RosterInv, MailInv, CleanInv, NoRedelivery, Poke
<1>12. ASSUME NEW a \in Agents, InlineWake(a) PROVE CleanInv' /\ NoRedelivery'
  <2>1. \A e \in Initial : e # a
    BY <1>12 DEF RosterInv, InlineWake
  <2>2. \A e \in Initial : handed'[e] = handed[e] /\ rehanded'[e] = rehanded[e]
    BY <1>12, <2>1, TeamAssumption DEF InlineWake, Hand, TypeOK
  <2>3. UNCHANGED <<slots, unread, pc, batch, faults>>
    BY <1>12 DEF InlineWake, mailVars, loopVars, bounds
  <2>. QED BY <2>2, <2>3 DEF CleanInv, NoRedelivery
<1>13. ASSUME NEW a \in Agents, NEW ok \in BOOLEAN, InlineSent(a, ok) PROVE CleanInv' /\ NoRedelivery'
  BY <1>13 DEF TypeOK, RosterInv, MailInv, CleanInv, NoRedelivery, InlineSent, Spend
<1>14. ASSUME NEW a \in Agents, LoopWake(a) PROVE CleanInv' /\ NoRedelivery'
  BY <1>14 DEF TypeOK, RosterInv, MailInv, CleanInv, NoRedelivery, LoopWake
<1>15. ASSUME NEW a \in Agents, Peek(a) PROVE CleanInv' /\ NoRedelivery'
  BY <1>15 DEF TypeOK, RosterInv, MailInv, CleanInv, NoRedelivery, Peek, Foreign
<1>16. ASSUME NEW a \in Agents, WakeFails(a) PROVE CleanInv' /\ NoRedelivery'
  BY <1>16 DEF TypeOK, RosterInv, MailInv, CleanInv, NoRedelivery, WakeFails, GiveUp, Spend
<1>17. ASSUME NEW a \in Agents, GuardHit(a) PROVE CleanInv' /\ NoRedelivery'
  BY <1>17 DEF TypeOK, RosterInv, MailInv, CleanInv, NoRedelivery, GuardHit, GiveUp
<1>18. ASSUME NEW a \in Agents, GuardPass(a) PROVE CleanInv' /\ NoRedelivery'
  BY <1>18 DEF TypeOK, RosterInv, MailInv, CleanInv, NoRedelivery, GuardPass
<1>19. ASSUME NEW a \in Agents, Claim(a) PROVE CleanInv' /\ NoRedelivery'
  <2>1. /\ UNCHANGED <<slots, unread, batch>>
        /\ faults' = 0 => faults = 0
        /\ pc[a] = "claim" /\ pc' = [pc EXCEPT ![a] = "send"]
        /\ handed' = [handed EXCEPT ![a] = @ \cup Ids(batch[a])]
        /\ rehanded' = [rehanded EXCEPT ![a] = @ \cup (handed[a] \cap Ids(batch[a]))]
    BY <1>19 DEF Claim, Spend, Hand, mailVars, bounds, TypeOK
  <2>2. ASSUME faults = 0, a \in Initial
        PROVE  /\ batch[a] \subseteq unread[a]
               /\ \A m \in unread[a] : m.id \notin handed[a]
    BY <2>1, <2>2, TeamAssumption DEF RosterInv, CleanInv
  <2>3. ASSUME faults = 0, a \in Initial PROVE handed[a] \cap Ids(batch[a]) = {}
    BY <2>2, <2>3 DEF Ids
  <2>4. NoRedelivery'
    BY <2>1, <2>3, TeamAssumption DEF NoRedelivery, TypeOK
  <2>5. ASSUME faults = 0, a \in Initial, NEW m \in unread[a], m.id \in handed'[a]
        PROVE  m \in batch[a]
    <3>1. m.id \in Ids(batch[a])
      BY <2>1, <2>2, <2>5 DEF TypeOK
    <3>2. PICK n \in batch[a] : n.id = m.id
      BY <3>1 DEF Ids
    <3>. QED BY <2>2, <2>5, <3>2, TeamAssumption DEF MailInv
  <2>6. CleanInv'
    BY <2>1, <2>2, <2>5, TeamAssumption DEF CleanInv, TypeOK
  <2>. QED BY <2>4, <2>6
<1>20. ASSUME NEW a \in Agents, NEW ok \in BOOLEAN, TurnEnds(a, ok) PROVE CleanInv' /\ NoRedelivery'
  BY <1>20 DEF TypeOK, RosterInv, MailInv, CleanInv, NoRedelivery, TurnEnds, Spend
<1>21. ASSUME NEW a \in Agents, RelayCompletes(a) PROVE CleanInv' /\ NoRedelivery'
  BY <1>21 DEF TypeOK, RosterInv, MailInv, CleanInv, NoRedelivery, RelayCompletes
<1>35. ASSUME NEW a \in Agents, AgentEnds(a) PROVE CleanInv' /\ NoRedelivery'
  BY <1>35 DEF TypeOK, RosterInv, MailInv, CleanInv, NoRedelivery, AgentEnds
<1>22. ASSUME NEW a \in Agents, MarkRead(a) PROVE CleanInv' /\ NoRedelivery'
  BY <1>22 DEF TypeOK, RosterInv, MailInv, CleanInv, NoRedelivery, MarkRead, Spend
<1>23. ASSUME NEW a \in Agents, FinalizeTurn(a) PROVE CleanInv' /\ NoRedelivery'
  BY <1>23 DEF TypeOK, RosterInv, MailInv, CleanInv, NoRedelivery, FinalizeTurn, Spend
<1>24. ASSUME NEW a \in Agents, MarkIdle(a) PROVE CleanInv' /\ NoRedelivery'
  BY <1>24 DEF TypeOK, RosterInv, MailInv, CleanInv, NoRedelivery, MarkIdle
<1>25. ASSUME NEW a \in Agents, IdleNote(a) PROVE CleanInv' /\ NoRedelivery'
  <2>1. /\ UNCHANGED <<slots, batch, handed, rehanded>>
        /\ pc[a] = "note" /\ pc' \in {[pc EXCEPT ![a] = "cascade"], [pc EXCEPT ![a] = "peek"]}
    BY <1>25 DEF IdleNote, slotVars
  <2>2. faults' = 0 => faults = 0
    BY <1>25 DEF IdleNote, Spend, TypeOK
  <2>3. NoRedelivery'
    BY <2>1, <2>2 DEF NoRedelivery
  <2>4. \A e \in Agents : /\ unread[e] \subseteq unread'[e]
                          /\ \A m \in unread'[e] \ unread[e] : m.id = nextId
    BY <1>25 DEF IdleNote, Write, TypeOK, mailVars
  <2>5. \A e \in Agents : nextId \notin handed[e]
    BY DEF MailInv, TypeOK
  <2>6. \A e \in Agents : pc[e] \in {"start", "claim", "send", "mark"} => pc'[e] = pc[e]
    BY <2>1 DEF TypeOK
  <2>7. \A e \in Agents : pc'[e] \in {"start", "claim", "send", "mark"} => pc'[e] = pc[e]
    BY <2>1 DEF TypeOK
  <2>8. CleanInv'
    BY <2>1, <2>2, <2>4, <2>5, <2>6, <2>7, TeamAssumption DEF CleanInv
  <2>. QED BY <2>3, <2>8
<1>26. ASSUME NEW a \in Agents, Cascade(a) PROVE CleanInv' /\ NoRedelivery'
  BY <1>26 DEF TypeOK, RosterInv, MailInv, CleanInv, NoRedelivery, Cascade
<1>27. ASSUME NEW a \in Agents, ChatCheck(a) PROVE CleanInv' /\ NoRedelivery'
  BY <1>27 DEF TypeOK, RosterInv, MailInv, CleanInv, NoRedelivery, ChatCheck
<1>28. ASSUME NEW a \in Agents, ChatClaim(a) PROVE CleanInv' /\ NoRedelivery'
  BY <1>28 DEF TypeOK, RosterInv, MailInv, CleanInv, NoRedelivery, ChatClaim
<1>29. ASSUME NEW a \in Agents, ChatDone(a) PROVE CleanInv' /\ NoRedelivery'
  BY <1>29 DEF TypeOK, RosterInv, MailInv, CleanInv, NoRedelivery, ChatDone
<1>30. ASSUME StopAndEnsure PROVE CleanInv' /\ NoRedelivery'
  BY <1>30 DEF TypeOK, RosterInv, MailInv, CleanInv, NoRedelivery, StopAndEnsure, SessionStart, Spend
<1>31. ASSUME CrashRestart PROVE CleanInv' /\ NoRedelivery'
  BY <1>31 DEF TypeOK, RosterInv, MailInv, CleanInv, NoRedelivery, CrashRestart, SessionStart, Spend
<1>33. ASSUME NEW a \in Agents, Park(a) PROVE CleanInv' /\ NoRedelivery'
  BY <1>33 DEF TypeOK, RosterInv, MailInv, CleanInv, NoRedelivery, Park
<1>32. CASE UNCHANGED vars
  BY <1>32 DEF vars, TypeOK, RosterInv, MailInv, CleanInv, NoRedelivery
<1>. QED
  BY <1>1, <1>2, <1>3, <1>4, <1>5, <1>6, <1>7, <1>8, <1>9, <1>10, <1>11,
     <1>12, <1>13, <1>14, <1>15, <1>16, <1>17, <1>18, <1>19, <1>20, <1>21, <1>22,
     <1>23, <1>24, <1>25, <1>26, <1>27, <1>28, <1>29, <1>30, <1>31, <1>32, <1>33, <1>34, <1>35 DEF Next

-----------------------------------------------------------------------------
(* Wakes                                                                    *)

\* Every step keeps a waiting loop's unread mail covered by a permit of its
\* Notify or by a step under way that will give one.
LEMMA NoLostWakeStep ==
    TypeOK /\ RosterInv /\ NoLostWake /\ [Next]_vars => NoLostWake'
<1> SUFFICES ASSUME TypeOK, RosterInv, NoLostWake, [Next]_vars PROVE NoLostWake'
  OBVIOUS
<1>1. ASSUME NEW a \in Agents, UserSend(a) PROVE NoLostWake'
  BY <1>1 DEF TypeOK, RosterInv, NoLostWake, Foreign, UserSend, Write
<1>2. ASSUME NEW a \in Agents, NEW targets \in SUBSET Agents, AgentSend(a, targets) PROVE NoLostWake'
  BY <1>2 DEF TypeOK, RosterInv, NoLostWake, Foreign, AgentSend, Write
<1>34. ASSUME NEW a \in Agents, NEW targets \in SUBSET Agents,
              NEW W \in SUBSET Agents, AgentSendFails(a, targets, W) PROVE NoLostWake'
  BY <1>34 DEF TypeOK, RosterInv, NoLostWake, Foreign, AgentSendFails, Spend, Write
<1>3. ASSUME NEW a \in Agents, LeadShutdown(a) PROVE NoLostWake'
  BY <1>3 DEF TypeOK, RosterInv, NoLostWake, Foreign, LeadShutdown, Write
<1>4. ASSUME NEW a \in Agents, ShutdownRejected(a) PROVE NoLostWake'
  BY <1>4 DEF TypeOK, RosterInv, NoLostWake, Foreign, ShutdownRejected, Write
<1>5. ASSUME NEW a \in Agents, ShutdownApproved(a) PROVE NoLostWake'
  BY <1>5 DEF TypeOK, RosterInv, NoLostWake, Foreign, ShutdownApproved
<1>6. ASSUME NEW a \in Agents, DeferredRemove(a) PROVE NoLostWake'
  BY <1>6 DEF TypeOK, RosterInv, NoLostWake, Foreign, DeferredRemove, RemoveSlot
<1>7. ASSUME NEW a \in Agents, RemoveAgent(a) PROVE NoLostWake'
  BY <1>7 DEF TypeOK, RosterInv, NoLostWake, Foreign, RemoveAgent, RemoveSlot
<1>8. ASSUME NEW a \in Agents, SpawnAgent(a) PROVE NoLostWake'
  BY <1>8 DEF TypeOK, RosterInv, NoLostWake, Foreign, SpawnAgent, Write
<1>9. ASSUME NEW a \in Agents, Attach(a) PROVE NoLostWake'
  BY <1>9 DEF TypeOK, RosterInv, NoLostWake, Foreign, Attach
<1>10. ASSUME NEW a \in Agents, AddAgent(a) PROVE NoLostWake'
  BY <1>10 DEF TypeOK, RosterInv, NoLostWake, Foreign, AddAgent
<1>11. ASSUME NEW a \in Agents, NEW via \in {"notify", "try_wake"}, Poke(a, via) PROVE NoLostWake'
  <2>1. /\ \A e \in Agents, v \in {"notify", "try_wake"} :
             <<e, v>> \in pokes => <<e, v>> \in pokes' \/ e = a
        /\ a \in loops => permit'[a]
        /\ \A e \in Agents : permit[e] => permit'[e]
        /\ UNCHANGED <<slots, gone, status, unread, loops, pc, stalled>>
    BY <1>11 DEF Poke, TypeOK
  <2>. QED BY <2>1 DEF NoLostWake, Foreign, RosterInv, TypeOK
<1>12. ASSUME NEW a \in Agents, InlineWake(a) PROVE NoLostWake'
  BY <1>12 DEF TypeOK, RosterInv, NoLostWake, Foreign, InlineWake
<1>13. ASSUME NEW a \in Agents, NEW ok \in BOOLEAN, InlineSent(a, ok) PROVE NoLostWake'
  BY <1>13 DEF TypeOK, RosterInv, NoLostWake, Foreign, InlineSent
<1>14. ASSUME NEW a \in Agents, LoopWake(a) PROVE NoLostWake'
  BY <1>14 DEF TypeOK, RosterInv, NoLostWake, Foreign, LoopWake
<1>15. ASSUME NEW a \in Agents, Peek(a) PROVE NoLostWake'
  BY <1>15 DEF TypeOK, RosterInv, NoLostWake, Foreign, Peek
<1>16. ASSUME NEW a \in Agents, WakeFails(a) PROVE NoLostWake'
  BY <1>16 DEF TypeOK, RosterInv, NoLostWake, Foreign, WakeFails, GiveUp
<1>17. ASSUME NEW a \in Agents, GuardHit(a) PROVE NoLostWake'
  BY <1>17 DEF TypeOK, RosterInv, NoLostWake, Foreign, GuardHit, GiveUp
<1>18. ASSUME NEW a \in Agents, GuardPass(a) PROVE NoLostWake'
  BY <1>18 DEF TypeOK, RosterInv, NoLostWake, Foreign, GuardPass
<1>19. ASSUME NEW a \in Agents, Claim(a) PROVE NoLostWake'
  BY <1>19 DEF TypeOK, RosterInv, NoLostWake, Foreign, Claim
<1>20. ASSUME NEW a \in Agents, NEW ok \in BOOLEAN, TurnEnds(a, ok) PROVE NoLostWake'
  BY <1>20 DEF TypeOK, RosterInv, NoLostWake, Foreign, TurnEnds
<1>21. ASSUME NEW a \in Agents, RelayCompletes(a) PROVE NoLostWake'
  BY <1>21 DEF TypeOK, RosterInv, NoLostWake, Foreign, RelayCompletes
<1>35. ASSUME NEW a \in Agents, AgentEnds(a) PROVE NoLostWake'
  BY <1>35 DEF TypeOK, RosterInv, NoLostWake, Foreign, AgentEnds
<1>22. ASSUME NEW a \in Agents, MarkRead(a) PROVE NoLostWake'
  BY <1>22 DEF TypeOK, RosterInv, NoLostWake, Foreign, MarkRead
<1>23. ASSUME NEW a \in Agents, FinalizeTurn(a) PROVE NoLostWake'
  BY <1>23 DEF TypeOK, RosterInv, NoLostWake, Foreign, FinalizeTurn
<1>24. ASSUME NEW a \in Agents, MarkIdle(a) PROVE NoLostWake'
  BY <1>24 DEF TypeOK, RosterInv, NoLostWake, Foreign, MarkIdle
<1>25. ASSUME NEW a \in Agents, IdleNote(a) PROVE NoLostWake'
  BY <1>25 DEF TypeOK, RosterInv, NoLostWake, Foreign, IdleNote, Write
<1>26. ASSUME NEW a \in Agents, Cascade(a) PROVE NoLostWake'
  BY <1>26 DEF TypeOK, RosterInv, NoLostWake, Foreign, Cascade
<1>27. ASSUME NEW a \in Agents, ChatCheck(a) PROVE NoLostWake'
  BY <1>27 DEF TypeOK, RosterInv, NoLostWake, Foreign, ChatCheck
<1>28. ASSUME NEW a \in Agents, ChatClaim(a) PROVE NoLostWake'
  BY <1>28 DEF TypeOK, RosterInv, NoLostWake, Foreign, ChatClaim
<1>29. ASSUME NEW a \in Agents, ChatDone(a) PROVE NoLostWake'
  BY <1>29 DEF TypeOK, RosterInv, NoLostWake, Foreign, ChatDone
<1>30. ASSUME StopAndEnsure PROVE NoLostWake'
  BY <1>30 DEF TypeOK, RosterInv, NoLostWake, Foreign, StopAndEnsure, SessionStart
<1>31. ASSUME CrashRestart PROVE NoLostWake'
  BY <1>31 DEF TypeOK, RosterInv, NoLostWake, Foreign, CrashRestart, SessionStart
<1>33. ASSUME NEW a \in Agents, Park(a) PROVE NoLostWake'
  BY <1>33 DEF TypeOK, RosterInv, NoLostWake, Foreign, Park
<1>32. CASE UNCHANGED vars
  BY <1>32 DEF vars, TypeOK, RosterInv, NoLostWake, Foreign
<1>. QED
  BY <1>1, <1>2, <1>3, <1>4, <1>5, <1>6, <1>7, <1>8, <1>9, <1>10, <1>11,
     <1>12, <1>13, <1>14, <1>15, <1>16, <1>17, <1>18, <1>19, <1>20, <1>21, <1>22,
     <1>23, <1>24, <1>25, <1>26, <1>27, <1>28, <1>29, <1>30, <1>31, <1>32, <1>33, <1>34, <1>35 DEF Next

\* Every step keeps the lead covered by a wake, or by a teammate whose turn
\* will end in one, while it has idle notifications to read.
LEMMA LeadHearsBackStep ==
    TypeOK /\ RosterInv /\ MailInv /\ StatusInv /\ LeadHearsBack /\ [Next]_vars
    => LeadHearsBack'
<1> SUFFICES ASSUME TypeOK, RosterInv, MailInv, StatusInv, LeadHearsBack, [Next]_vars
             PROVE  LeadHearsBack'
  OBVIOUS
<1>1. ASSUME NEW a \in Agents, UserSend(a) PROVE LeadHearsBack'
  BY <1>1 DEF TypeOK, RosterInv, MailInv, StatusInv, LeadHearsBack, Settled, UserSend, Write
<1>2. ASSUME NEW a \in Agents, NEW targets \in SUBSET Agents, AgentSend(a, targets) PROVE LeadHearsBack'
  BY <1>2 DEF TypeOK, RosterInv, MailInv, StatusInv, LeadHearsBack, Settled, AgentSend, Write
<1>34. ASSUME NEW a \in Agents, NEW targets \in SUBSET Agents,
              NEW W \in SUBSET Agents, AgentSendFails(a, targets, W) PROVE LeadHearsBack'
  BY <1>34 DEF TypeOK, RosterInv, MailInv, StatusInv, LeadHearsBack, Settled, AgentSendFails, Spend, Write
<1>3. ASSUME NEW a \in Agents, LeadShutdown(a) PROVE LeadHearsBack'
  BY <1>3 DEF TypeOK, RosterInv, MailInv, StatusInv, LeadHearsBack, Settled, LeadShutdown, Write
<1>4. ASSUME NEW a \in Agents, ShutdownRejected(a) PROVE LeadHearsBack'
  BY <1>4 DEF TypeOK, RosterInv, MailInv, StatusInv, LeadHearsBack, Settled, ShutdownRejected, Write
<1>5. ASSUME NEW a \in Agents, ShutdownApproved(a) PROVE LeadHearsBack'
  BY <1>5 DEF TypeOK, RosterInv, MailInv, StatusInv, LeadHearsBack, Settled, ShutdownApproved
<1>6. ASSUME NEW a \in Agents, DeferredRemove(a) PROVE LeadHearsBack'
  BY <1>6 DEF TypeOK, RosterInv, MailInv, StatusInv, LeadHearsBack, Settled, DeferredRemove, RemoveSlot
<1>7. ASSUME NEW a \in Agents, RemoveAgent(a) PROVE LeadHearsBack'
  BY <1>7 DEF TypeOK, RosterInv, MailInv, StatusInv, LeadHearsBack, Settled, RemoveAgent, RemoveSlot
<1>8. ASSUME NEW a \in Agents, SpawnAgent(a) PROVE LeadHearsBack'
  BY <1>8 DEF TypeOK, RosterInv, MailInv, StatusInv, LeadHearsBack, Settled, SpawnAgent, Write
<1>9. ASSUME NEW a \in Agents, Attach(a) PROVE LeadHearsBack'
  BY <1>9 DEF TypeOK, RosterInv, MailInv, StatusInv, LeadHearsBack, Settled, Attach
<1>10. ASSUME NEW a \in Agents, AddAgent(a) PROVE LeadHearsBack'
  BY <1>10 DEF TypeOK, RosterInv, MailInv, StatusInv, LeadHearsBack, Settled, AddAgent
<1>11. ASSUME NEW a \in Agents, NEW via \in {"notify", "try_wake"}, Poke(a, via) PROVE LeadHearsBack'
  <2>1. /\ \A e \in Agents, v \in {"notify", "try_wake"} :
             <<e, v>> \in pokes => <<e, v>> \in pokes' \/ e = a
        /\ a \in loops => permit'[a]
        /\ \A e \in Agents : permit[e] => permit'[e]
        /\ UNCHANGED <<slots, gone, status, unread, loops, pc, stalled>>
    BY <1>11 DEF Poke, TypeOK
  <2>. QED BY <2>1 DEF LeadHearsBack, Settled
<1>12. ASSUME NEW a \in Agents, InlineWake(a) PROVE LeadHearsBack'
  BY <1>12 DEF TypeOK, RosterInv, MailInv, StatusInv, LeadHearsBack, Settled, InlineWake
<1>13. ASSUME NEW a \in Agents, NEW ok \in BOOLEAN, InlineSent(a, ok) PROVE LeadHearsBack'
  BY <1>13 DEF TypeOK, RosterInv, MailInv, StatusInv, LeadHearsBack, Settled, InlineSent
<1>14. ASSUME NEW a \in Agents, LoopWake(a) PROVE LeadHearsBack'
  BY <1>14 DEF TypeOK, RosterInv, MailInv, StatusInv, LeadHearsBack, Settled, LoopWake
<1>15. ASSUME NEW a \in Agents, Peek(a) PROVE LeadHearsBack'
  BY <1>15 DEF TypeOK, RosterInv, MailInv, StatusInv, LeadHearsBack, Settled, Peek, Foreign
<1>16. ASSUME NEW a \in Agents, WakeFails(a) PROVE LeadHearsBack'
  BY <1>16 DEF TypeOK, RosterInv, MailInv, StatusInv, LeadHearsBack, Settled, WakeFails, GiveUp
<1>17. ASSUME NEW a \in Agents, GuardHit(a) PROVE LeadHearsBack'
  BY <1>17 DEF TypeOK, RosterInv, MailInv, StatusInv, LeadHearsBack, Settled, GuardHit, GiveUp
<1>18. ASSUME NEW a \in Agents, GuardPass(a) PROVE LeadHearsBack'
  BY <1>18 DEF TypeOK, RosterInv, MailInv, StatusInv, LeadHearsBack, Settled, GuardPass
<1>19. ASSUME NEW a \in Agents, Claim(a) PROVE LeadHearsBack'
  BY <1>19 DEF TypeOK, RosterInv, MailInv, StatusInv, LeadHearsBack, Settled, Claim
<1>20. ASSUME NEW a \in Agents, NEW ok \in BOOLEAN, TurnEnds(a, ok) PROVE LeadHearsBack'
  BY <1>20 DEF TypeOK, RosterInv, MailInv, StatusInv, LeadHearsBack, Settled, TurnEnds
<1>21. ASSUME NEW a \in Agents, RelayCompletes(a) PROVE LeadHearsBack'
  BY <1>21 DEF TypeOK, RosterInv, MailInv, StatusInv, LeadHearsBack, Settled, RelayCompletes
<1>35. ASSUME NEW a \in Agents, AgentEnds(a) PROVE LeadHearsBack'
  BY <1>35 DEF TypeOK, RosterInv, MailInv, StatusInv, LeadHearsBack, Settled, AgentEnds
<1>22. ASSUME NEW a \in Agents, MarkRead(a) PROVE LeadHearsBack'
  BY <1>22 DEF TypeOK, RosterInv, MailInv, StatusInv, LeadHearsBack, Settled, MarkRead
<1>23. ASSUME NEW a \in Agents, FinalizeTurn(a) PROVE LeadHearsBack'
  BY <1>23 DEF TypeOK, RosterInv, MailInv, StatusInv, LeadHearsBack, Settled, FinalizeTurn
<1>24. ASSUME NEW a \in Agents, MarkIdle(a) PROVE LeadHearsBack'
  BY <1>24 DEF TypeOK, RosterInv, MailInv, StatusInv, LeadHearsBack, Settled, MarkIdle
<1>25. ASSUME NEW a \in Agents, IdleNote(a) PROVE LeadHearsBack'
  BY <1>25 DEF TypeOK, RosterInv, MailInv, StatusInv, LeadHearsBack, Settled, IdleNote, Write
<1>26. ASSUME NEW a \in Agents, Cascade(a) PROVE LeadHearsBack'
  <2>1. /\ pc[a] = "cascade" /\ a # Lead
        /\ WakeLeader /\ Lead \in loops => permit'[Lead]
        /\ UNCHANGED <<slots, gone, status, unread, loops, pokes, stalled>>
        /\ pc'[Lead] = pc[Lead]
    BY <1>26 DEF Cascade, MailInv, TypeOK
  <2>2. SUFFICES ASSUME gone = {}, Lead \in loops, pc[Lead] \in {"drained", "wait"}, ~WakeLeader
                 PROVE  \E t \in slots \ {Lead} : ~Settled(t)
    BY <2>1 DEF LeadHearsBack, Settled
  <2>3. Lead \in slots /\ a \in slots
    BY <2>1, <2>2 DEF RosterInv
  <2>4. status[Lead] = "Idle"
    BY <2>2, <2>3 DEF StatusInv, TypeOK, Statuses
  <2>. QED BY <2>1, <2>2, <2>3, <2>4 DEF WakeLeader
<1>27. ASSUME NEW a \in Agents, ChatCheck(a) PROVE LeadHearsBack'
  BY <1>27 DEF TypeOK, RosterInv, MailInv, StatusInv, LeadHearsBack, Settled, ChatCheck
<1>28. ASSUME NEW a \in Agents, ChatClaim(a) PROVE LeadHearsBack'
  BY <1>28 DEF TypeOK, RosterInv, MailInv, StatusInv, LeadHearsBack, Settled, ChatClaim
<1>29. ASSUME NEW a \in Agents, ChatDone(a) PROVE LeadHearsBack'
  BY <1>29 DEF TypeOK, RosterInv, MailInv, StatusInv, LeadHearsBack, Settled, ChatDone
<1>30. ASSUME StopAndEnsure PROVE LeadHearsBack'
  BY <1>30 DEF TypeOK, RosterInv, MailInv, StatusInv, LeadHearsBack, Settled, StopAndEnsure, SessionStart
<1>31. ASSUME CrashRestart PROVE LeadHearsBack'
  BY <1>31 DEF TypeOK, RosterInv, MailInv, StatusInv, LeadHearsBack, Settled, CrashRestart, SessionStart
<1>33. ASSUME NEW a \in Agents, Park(a) PROVE LeadHearsBack'
  BY <1>33 DEF TypeOK, RosterInv, MailInv, StatusInv, LeadHearsBack, Settled, Park
<1>32. CASE UNCHANGED vars
  BY <1>32 DEF vars, TypeOK, RosterInv, MailInv, StatusInv, LeadHearsBack, Settled
<1>. QED
  BY <1>1, <1>2, <1>3, <1>4, <1>5, <1>6, <1>7, <1>8, <1>9, <1>10, <1>11,
     <1>12, <1>13, <1>14, <1>15, <1>16, <1>17, <1>18, <1>19, <1>20, <1>21, <1>22,
     <1>23, <1>24, <1>25, <1>26, <1>27, <1>28, <1>29, <1>30, <1>31, <1>32, <1>33, <1>34, <1>35 DEF Next

-----------------------------------------------------------------------------
(* Results                                                                  *)

\* The inductive invariant of the team session.
TeamInv ==
    /\ TypeOK /\ RosterInv /\ MailInv /\ HandedInv /\ StatusInv
    /\ CleanInv /\ NoRedelivery /\ NoLostWake /\ LeadHearsBack

\* The inductive invariant holds in every reachable state of a team session,
\* whatever the agents, the chat turns, the faults and the roster changes.
THEOREM TeamInvariant == Spec => []TeamInv
<1>1. Init => TeamInv
  <2> SUFFICES ASSUME Init PROVE TeamInv
    OBVIOUS
  <2>1. TypeOK
    BY DEF Init, TypeOK, LoopPC, Statuses
  <2>2. RosterInv /\ MailInv /\ HandedInv /\ StatusInv /\ CleanInv
    BY DEF Init, RosterInv, MailInv, HandedInv, StatusInv, CleanInv
  <2>3. NoRedelivery /\ NoLostWake /\ LeadHearsBack
    BY DEF Init, NoRedelivery, NoLostWake, LeadHearsBack, Foreign
  <2>. QED BY <2>1, <2>2, <2>3 DEF TeamInv
<1>2. TeamInv /\ [Next]_vars => TeamInv'
  BY TypeStep, RosterStep, MailStep, HandedStep, StatusStep, CleanStep,
     NoLostWakeStep, LeadHearsBackStep DEF TeamInv
<1>. QED
  BY <1>1, <1>2, PTL DEF Spec

\* No send goes unnoticed by a waiting loop (try_wake, wake_agent_in_session
\* and the drain loop of run_event_loop).
THEOREM WakesAreKept == Spec => []NoLostWake
<1>1. TeamInv => NoLostWake
  BY DEF TeamInv
<1>. QED
  BY <1>1, TeamInvariant, PTL

\* The lead is woken for the idle notifications of its settled teammates
\* (mark_idle, maybe_wake_leader_when_all_idle).
THEOREM LeadIsWoken == Spec => []LeadHearsBack
<1>1. TeamInv => LeadHearsBack
  BY DEF TeamInv
<1>. QED
  BY <1>1, TeamInvariant, PTL

\* Until the first fault every row is handed to a founding agent at most once
\* (compute_wake_input, execute_turn, mark_read_batch).
THEOREM HandedOnce == Spec => []NoRedelivery
<1>1. TeamInv => NoRedelivery
  BY DEF TeamInv
<1>. QED
  BY <1>1, TeamInvariant, PTL

\* Working never outlives a turn (set_status in execute_turn, finalize_turn).
THEOREM WorkingEnds == Spec => []WorkingHasTurn
<1>1. TeamInv => WorkingHasTurn
  BY DEF TeamInv, StatusInv, WorkingHasTurn
<1>. QED
  BY <1>1, TeamInvariant, PTL

\* No step takes a row out of a mailbox that its agent was not handed.
THEOREM NothingLostUnread == Spec => ReadOnlyWhenHanded
<1> DEFINE A == \A a \in Agents : \A m \in unread[a] \ unread'[a] : m.id \in handed[a]
<1>1. TeamInv /\ [Next]_vars => [A]_vars
  <2> SUFFICES ASSUME TypeOK, HandedInv, Next PROVE A
    BY DEF TeamInv
  <2>1. ASSUME NEW a \in Agents, MarkRead(a) PROVE A
    BY <2>1 DEF MarkRead, HandedInv, TypeOK, Ids
  <2>2. ASSUME NEW a \in Agents, NEW ok \in BOOLEAN, InlineSent(a, ok) PROVE A
    BY <2>2 DEF InlineSent, HandedInv, TypeOK, Ids
  <2>3. ASSUME NEW T \in SUBSET Agents, NEW from, NEW kind, Write(T, from, kind)
        PROVE  A
    BY <2>3 DEF Write, TypeOK
  <2>4. UNCHANGED unread => A
    OBVIOUS
  <2>5. ASSUME NEW a \in Agents,
               \/ UserSend(a) \/ LeadShutdown(a) \/ ShutdownRejected(a)
               \/ SpawnAgent(a) \/ IdleNote(a)
        PROVE  A
    BY <2>3, <2>4, <2>5
       DEF UserSend, LeadShutdown, ShutdownRejected, SpawnAgent, IdleNote
  <2>6. ASSUME NEW a \in Agents, NEW targets \in SUBSET Agents, AgentSend(a, targets)
        PROVE  A
    BY <2>3, <2>6 DEF AgentSend
  <2>11. ASSUME NEW a \in Agents, NEW targets \in SUBSET Agents,
               NEW W \in SUBSET Agents, AgentSendFails(a, targets, W)
        PROVE  A
    BY <2>3, <2>11 DEF AgentSendFails
  <2>7. ASSUME NEW a \in Agents,
               \/ ShutdownApproved(a) \/ DeferredRemove(a) \/ RemoveAgent(a)
               \/ Attach(a) \/ AddAgent(a) \/ InlineWake(a) \/ LoopWake(a) \/ Park(a)
               \/ Peek(a) \/ WakeFails(a) \/ GuardHit(a) \/ GuardPass(a)
               \/ Claim(a) \/ RelayCompletes(a) \/ AgentEnds(a) \/ FinalizeTurn(a) \/ MarkIdle(a)
               \/ Cascade(a) \/ ChatCheck(a) \/ ChatClaim(a) \/ ChatDone(a)
        PROVE  A
    BY <2>4, <2>7 DEF ShutdownApproved, DeferredRemove, RemoveAgent, RemoveSlot,
       Attach, AddAgent, InlineWake, LoopWake, Peek, Park, WakeFails, GuardHit, GiveUp,
       GuardPass, Claim, RelayCompletes, AgentEnds, FinalizeTurn, MarkIdle, Cascade,
       ChatCheck, ChatClaim, ChatDone
  <2>8. ASSUME NEW a \in Agents, NEW via \in {"notify", "try_wake"}, Poke(a, via)
        PROVE  A
    BY <2>4, <2>8 DEF Poke
  <2>9. ASSUME NEW a \in Agents, NEW ok \in BOOLEAN, TurnEnds(a, ok)
        PROVE  A
    BY <2>4, <2>9 DEF TurnEnds
  <2>10. CASE StopAndEnsure \/ CrashRestart
    BY <2>4, <2>10 DEF StopAndEnsure, CrashRestart
  <2>. QED
    BY <2>1, <2>2, <2>5, <2>6, <2>7, <2>8, <2>9, <2>10, <2>11 DEF Next
<1>. QED
  BY <1>1, TeamInvariant, PTL DEF Spec, ReadOnlyWhenHanded
-----------------------------------------------------------------------------
(* The mailbox                                                              *)

\* The ids of the rows that were ever written to an agent.
Written(a) == Ids(unread[a]) \cup handed[a]

\* A batch that is still to be handed over consists of rows written to the
\* agent: what an inline wake marked read meanwhile was handed by it.
BatchInv == \A a \in Agents : Ids(batch[a]) \subseteq Written(a)

\* What a step may do to the mailbox.
Writes == \E T \in SUBSET Agents, from \in Senders, kind \in Kinds :
              Write(T, from, kind) /\ UNCHANGED handed
Hands == \E a \in Agents : \E ids \in SUBSET Written(a) :
             /\ handed' = [handed EXCEPT ![a] = @ \cup ids]
             /\ UNCHANGED mailVars
Marks == \E a \in Agents : \E rows \in SUBSET Row :
             /\ Ids(rows) \subseteq handed[a]
             /\ unread' = [unread EXCEPT ![a] = @ \ rows]
             /\ UNCHANGED <<handed, nextId>>
Leaves == UNCHANGED <<unread, handed, nextId>>

\* Every step writes one message, hands over written rows, marks handed rows
\* read, or leaves the mailbox alone.
LEMMA MailShape ==
    ASSUME TypeOK, HandedInv, BatchInv, Next
    PROVE  Writes \/ Hands \/ Marks \/ Leaves
<1>1. ASSUME NEW a \in Agents,
             \/ UserSend(a) \/ LeadShutdown(a) \/ ShutdownRejected(a) \/ SpawnAgent(a)
      PROVE  Writes
  <2>1. User \in Senders /\ a \in Senders /\ Lead \in Senders
    BY TeamAssumption DEF Senders
  <2>2. {"message", "shutdown_request", "declined"} \subseteq Kinds
    BY DEF Kinds
  <2>3. {a} \in SUBSET Agents /\ {Lead} \in SUBSET Agents
    BY TeamAssumption
  <2>. QED
    BY <1>1, <2>1, <2>2, <2>3
       DEF UserSend, LeadShutdown, ShutdownRejected, SpawnAgent, Writes, history
<1>2. ASSUME NEW a \in Agents, NEW targets \in SUBSET Agents, AgentSend(a, targets)
      PROVE  Writes
  BY <1>2 DEF AgentSend, Writes, Senders, Kinds, history
<1>2b. ASSUME NEW a \in Agents, NEW targets \in SUBSET Agents,
               NEW W \in SUBSET Agents, AgentSendFails(a, targets, W)
      PROVE  Writes
  BY <1>2b DEF AgentSendFails, Writes, Senders, Kinds, history
<1>3. ASSUME NEW a \in Agents, IdleNote(a) PROVE Writes \/ Leaves
  <2>1. {Lead} \in SUBSET Agents /\ a \in Senders /\ "idle_notification" \in Kinds
    BY TeamAssumption DEF Senders, Kinds
  <2>. QED BY <1>3, <2>1 DEF IdleNote, Writes, Leaves, mailVars
<1>4. ASSUME NEW a \in Agents, InlineWake(a) PROVE Hands \/ Leaves
  <2>1. Ids(Foreign(a)) \subseteq Written(a)
    BY DEF Ids, Foreign, Written
  <2>. QED BY <1>4, <2>1 DEF InlineWake, Hand, Hands, Leaves, mailVars
<1>5. ASSUME NEW a \in Agents, Claim(a) PROVE Hands
  BY <1>5 DEF Claim, Hand, Hands, BatchInv, mailVars
<1>6. ASSUME NEW a \in Agents, NEW ok \in BOOLEAN, InlineSent(a, ok) PROVE Marks \/ Leaves
  <2>1. inlineBatch[a] \in SUBSET Row /\ Ids(inlineBatch[a]) \subseteq handed[a]
    BY <1>6 DEF TypeOK, HandedInv, InlineSent
  <2>. QED BY <1>6, <2>1 DEF InlineSent, Marks, Leaves
<1>7. ASSUME NEW a \in Agents, MarkRead(a) PROVE Marks \/ Leaves
  <2>1. batch[a] \in SUBSET Row /\ Ids(batch[a]) \subseteq handed[a]
    BY <1>7 DEF TypeOK, HandedInv, MarkRead
  <2>. QED BY <1>7, <2>1 DEF MarkRead, Marks, Leaves, history
<1>8. ASSUME NEW a \in Agents,
             \/ ShutdownApproved(a) \/ DeferredRemove(a) \/ RemoveAgent(a)
             \/ Attach(a) \/ AddAgent(a) \/ LoopWake(a) \/ Park(a)
             \/ Peek(a) \/ WakeFails(a) \/ GuardHit(a) \/ GuardPass(a)
             \/ RelayCompletes(a) \/ AgentEnds(a) \/ FinalizeTurn(a) \/ MarkIdle(a)
             \/ Cascade(a) \/ ChatCheck(a) \/ ChatClaim(a) \/ ChatDone(a)
      PROVE  Leaves
  BY <1>8 DEF ShutdownApproved, DeferredRemove, RemoveAgent, RemoveSlot,
     Attach, AddAgent, LoopWake, Peek, Park, WakeFails, GuardHit, GiveUp,
     GuardPass, RelayCompletes, AgentEnds, FinalizeTurn, MarkIdle, Cascade,
     ChatCheck, ChatClaim, ChatDone, Leaves, mailVars, history
<1>9. ASSUME NEW a \in Agents, NEW via \in {"notify", "try_wake"}, Poke(a, via)
      PROVE  Leaves
  BY <1>9 DEF Poke, Leaves, mailVars, history
<1>10. ASSUME NEW a \in Agents, NEW ok \in BOOLEAN, TurnEnds(a, ok) PROVE Leaves
  BY <1>10 DEF TurnEnds, Leaves, mailVars
<1>11. CASE StopAndEnsure \/ CrashRestart
  BY <1>11 DEF StopAndEnsure, CrashRestart, Leaves, mailVars
<1>. QED
  BY <1>1, <1>2, <1>2b, <1>3, <1>4, <1>5, <1>6, <1>7, <1>8, <1>9, <1>10, <1>11 DEF Next

\* No step forgets a row that was written to an agent.
LEMMA WrittenGrows ==
    ASSUME TypeOK, Writes \/ Hands \/ Marks \/ Leaves, NEW a \in Agents
    PROVE  Written(a) \subseteq Written(a)'
<1>1. CASE Writes
  BY <1>1 DEF Writes, Write, Written, Ids
<1>2. CASE Hands
  BY <1>2 DEF Hands, Written, Ids, mailVars, TypeOK
<1>3. CASE Marks
  BY <1>3 DEF Marks, Written, Ids, TypeOK
<1>4. CASE Leaves
  BY <1>4 DEF Leaves, Written, Ids
<1>. QED BY <1>1, <1>2, <1>3, <1>4

\* A loop's batch is what Peek found unread, until it is dropped.
LEMMA BatchStep ==
    TypeOK /\ HandedInv /\ BatchInv /\ [Next]_vars => BatchInv'
<1> SUFFICES ASSUME TypeOK, HandedInv, BatchInv, [Next]_vars PROVE BatchInv'
  OBVIOUS
<1>1. CASE UNCHANGED vars
  BY <1>1 DEF vars, mailVars, loopVars, history, BatchInv, Written, Ids
<1>2. CASE Next
  <2>1. \A a \in Agents : Written(a) \subseteq Written(a)'
    BY <1>2, MailShape, WrittenGrows
  <2>2. \A a \in Agents : batch'[a] = batch[a] \/ batch'[a] = {} \/ batch'[a] = Foreign(a)
    <3>1. ASSUME NEW a \in Agents,
                 \/ UserSend(a) \/ LeadShutdown(a) \/ ShutdownRejected(a) \/ SpawnAgent(a)
                 \/ ShutdownApproved(a) \/ Attach(a) \/ AddAgent(a) \/ LoopWake(a) \/ Park(a)
                 \/ GuardPass(a) \/ Claim(a) \/ InlineWake(a)
                 \/ RelayCompletes(a) \/ AgentEnds(a) \/ FinalizeTurn(a) \/ MarkIdle(a) \/ IdleNote(a)
                 \/ Cascade(a) \/ ChatCheck(a) \/ ChatClaim(a) \/ ChatDone(a)
          PROVE  UNCHANGED batch
      BY <3>1 DEF UserSend, LeadShutdown, ShutdownRejected, SpawnAgent,
         ShutdownApproved, Attach, AddAgent, LoopWake, Park, GuardPass, Claim,
         InlineWake, RelayCompletes, AgentEnds, FinalizeTurn, MarkIdle, IdleNote, Cascade,
         ChatCheck, ChatClaim, ChatDone, loopVars
    <3>2. ASSUME NEW a \in Agents, NEW targets \in SUBSET Agents, AgentSend(a, targets)
          PROVE  UNCHANGED batch
      BY <3>2 DEF AgentSend, loopVars
    <3>2b. ASSUME NEW a \in Agents, NEW targets \in SUBSET Agents,
               NEW W \in SUBSET Agents, AgentSendFails(a, targets, W)
          PROVE  UNCHANGED batch
      BY <3>2b DEF AgentSendFails, loopVars
    <3>3. ASSUME NEW a \in Agents, NEW via \in {"notify", "try_wake"}, Poke(a, via)
          PROVE  UNCHANGED batch
      BY <3>3 DEF Poke
    <3>4. ASSUME NEW a \in Agents, NEW ok \in BOOLEAN, InlineSent(a, ok) \/ TurnEnds(a, ok)
          PROVE  UNCHANGED batch
      BY <3>4 DEF InlineSent, TurnEnds, loopVars
    <3>5. ASSUME NEW a \in Agents,
                 \/ DeferredRemove(a) \/ RemoveAgent(a) \/ WakeFails(a) \/ GuardHit(a)
                 \/ MarkRead(a)
          PROVE  batch' = [batch EXCEPT ![a] = {}]
      BY <3>5 DEF DeferredRemove, RemoveAgent, RemoveSlot, WakeFails, GuardHit, GiveUp, MarkRead
    <3>6. ASSUME NEW a \in Agents, Peek(a)
          PROVE  batch' = [batch EXCEPT ![a] = {}] \/ batch' = [batch EXCEPT ![a] = Foreign(a)]
      BY <3>6 DEF Peek
    <3>7. CASE StopAndEnsure \/ CrashRestart
      BY <3>7 DEF StopAndEnsure, CrashRestart, SessionStart
    <3>8. batch \in [Agents -> SUBSET Row]
      BY DEF TypeOK
    <3>9. UNCHANGED batch
          \/ (\E a \in Agents : \/ batch' = [batch EXCEPT ![a] = {}]
                               \/ batch' = [batch EXCEPT ![a] = Foreign(a)])
          \/ (StopAndEnsure \/ CrashRestart)
      BY <1>2, <3>1, <3>2, <3>2b, <3>3, <3>4, <3>5, <3>6 DEF Next
    <3>. QED BY <3>7, <3>8, <3>9
  <2>3. \A a \in Agents : Ids(Foreign(a)) \subseteq Written(a) /\ Ids({}) = {}
    BY DEF Ids, Foreign, Written
  <2>4. \A a \in Agents : Ids(batch'[a]) \subseteq Written(a)
    BY <2>2, <2>3 DEF BatchInv
  <2>5. \A a \in Agents : Ids(batch[a])' = Ids(batch'[a])
    BY DEF Ids
  <2>. QED BY <2>1, <2>4, <2>5 DEF BatchInv
<1>. QED BY <1>1, <1>2

\* The team session implements the mailbox specification: rows are written
\* once, never lost, and read only after they were handed to their agent
\* (Mailbox::write, peek_unread and mark_read_batch as the session uses them).
THEOREM TeamImplementsMailbox == Spec => ImplementsMailbox
<1>1. Init => BatchInv
  BY DEF Init, BatchInv, Written, Ids
<1>2. Init => MailboxSpec!Init
  BY DEF Init, MailboxSpec!Init, Ids
<1>3. TeamInv /\ BatchInv /\ [Next]_vars => [MailboxSpec!Next]_(MailboxSpec!vars)
  <2> SUFFICES ASSUME TypeOK, MailInv, HandedInv, BatchInv, [Next]_vars
               PROVE  [MailboxSpec!Next]_(MailboxSpec!vars)
    BY DEF TeamInv
  <2>1. CASE Leaves
    BY <2>1 DEF Leaves, MailboxSpec!vars
  <2>2. CASE UNCHANGED vars
    <3>1. Leaves
      BY <2>2 DEF vars, mailVars, history, Leaves
    <3>. QED BY <2>1, <3>1
  <2>3. CASE Writes
    <3>1. PICK T \in SUBSET Agents, from \in Senders, kind \in Kinds :
              Write(T, from, kind) /\ UNCHANGED handed
      BY <2>3 DEF Writes
    <3>2. \A a \in Agents : Ids(unread'[a]) =
              IF a \in T THEN Ids(unread[a]) \cup {nextId} ELSE Ids(unread[a])
      <4>1. PICK r : r.id = nextId /\ \A a \in Agents :
                unread'[a] = IF a \in T THEN unread[a] \cup {r} ELSE unread[a]
        BY <3>1 DEF Write
      <4>2. \A a \in Agents : Ids(unread[a] \cup {r}) = Ids(unread[a]) \cup {r.id}
        BY DEF Ids
      <4>. QED BY <4>1, <4>2
    <3>3. \A a \in Agents : nextId \notin handed[a]
      BY DEF MailInv, TypeOK
    <3>4. MailboxSpec!Write(T)
      BY <3>1, <3>2, <3>3 DEF Write, MailboxSpec!Write
    <3>. QED BY <3>4 DEF MailboxSpec!Next
  <2>4. CASE Hands
    <3>0. PICK a \in Agents : \E ids \in SUBSET Written(a) :
              handed' = [handed EXCEPT ![a] = @ \cup ids] /\ UNCHANGED mailVars
      BY <2>4 DEF Hands
    <3>1. PICK ids \in SUBSET Written(a) :
              handed' = [handed EXCEPT ![a] = @ \cup ids] /\ UNCHANGED mailVars
      BY <3>0
    <3>2. handed \in [Agents -> SUBSET Nat] /\ UNCHANGED <<unread, nextId>>
      BY <3>1 DEF TypeOK, mailVars
    <3>3. MailboxSpec!Deliver(a)
      BY <3>1, <3>2 DEF Written, MailboxSpec!Deliver
    <3>. QED BY <3>3 DEF MailboxSpec!Next
  <2>5. CASE Marks
    <3>1. PICK a \in Agents, rows \in SUBSET Row :
              /\ Ids(rows) \subseteq handed[a]
              /\ unread' = [unread EXCEPT ![a] = @ \ rows]
              /\ UNCHANGED <<handed, nextId>>
      BY <2>5 DEF Marks
    <3>2. /\ Ids(unread'[a]) \subseteq Ids(unread[a])
          /\ Ids(unread[a]) \subseteq Ids(unread'[a]) \cup handed[a]
          /\ \A b \in Agents \ {a} : unread'[b] = unread[b]
      BY <3>1 DEF TypeOK, Ids
    <3>3. MailboxSpec!MarkRead(a)
      BY <3>1, <3>2 DEF MailboxSpec!MarkRead
    <3>. QED BY <3>3 DEF MailboxSpec!Next
  <2>. QED
    BY <2>1, <2>2, <2>3, <2>4, <2>5, MailShape
<1>4. TeamInv /\ BatchInv /\ [Next]_vars => BatchInv'
  BY BatchStep DEF TeamInv
<1>. QED
  BY <1>1, <1>2, <1>3, <1>4, TeamInvariant, PTL DEF Spec, ImplementsMailbox, MailboxSpec!Spec
=============================================================================
