------------------------ MODULE RemotePromptsProofs ------------------------
(* Proofs about the prompts of a remote conversation, for any sets of       *)
(* permissions, questions, approvals and elicitations and any bounds.       *)
EXTENDS RemotePrompts, SequenceTheorems, TLAPS

\* Call ids and the prompts they belong to.
LEMMA CallFacts ==
    /\ \A c \in Calls : c[1] \in Prompts /\ c \in CallsOf(c[1])
    /\ \A p \in Prompts : CallsOf(p) \subseteq Calls /\ CallsOf(p) # {}
    /\ \A p \in Prompts : \A c \in CallsOf(p) : c[1] = p
    /\ \A p \in Prompts \ Questions : CallsOf(p) = {<<p, 1>>} /\ <<p, 1>> \in Calls
    /\ \A p \in Questions : <<p, 1>> \in CallsOf(p) /\ <<p, 1>> \in Calls
    /\ NoCall \notin Calls
<1>1. ASSUME NEW p \in Prompts, NEW c \in CallsOf(p)
      PROVE  c[1] = p /\ c \in Calls
  <2>1. c[1] = p
    BY DEF CallsOf
  <2>2. c \in Calls
    BY DEF Calls
  <2>. QED BY <2>1, <2>2
<1>2. ASSUME NEW c \in Calls
      PROVE  c[1] \in Prompts /\ c \in CallsOf(c[1])
  <2>1. PICK p \in Prompts : c \in CallsOf(p)
    BY DEF Calls
  <2>2. c[1] = p
    BY <1>1, <2>1
  <2>. QED BY <2>1, <2>2
<1>3. \A p \in Prompts : <<p, 1>> \in CallsOf(p)
  BY DEF CallsOf
<1>4. \A p \in Prompts \ Questions : CallsOf(p) = {<<p, 1>>}
  BY DEF CallsOf
<1>5. Questions \subseteq Prompts
  BY DEF Prompts
<1>6. NoCall \notin Calls
  BY PromptAssumption
<1>7. \A p \in Prompts : <<p, 1>> \in Calls /\ CallsOf(p) \subseteq Calls /\ CallsOf(p) # {}
  BY <1>1, <1>3
<1>8. /\ \A c \in Calls : c[1] \in Prompts /\ c \in CallsOf(c[1])
      /\ \A p \in Prompts : \A c \in CallsOf(p) : c[1] = p
  BY <1>1, <1>2
<1>. QED BY <1>3, <1>4, <1>5, <1>6, <1>7, <1>8, Zenon

\* Which prompts are whose.
LEMMA Kinds ==
    /\ Permissions \subseteq Prompts /\ Questions \subseteq Prompts /\ Remote \subseteq Prompts
    /\ Approvals \subseteq Prompts /\ Elicitations \subseteq Prompts
    /\ \A p \in Prompts : p \in Remote <=> p \in Permissions \cup Questions
    /\ \A p \in Permissions : p \notin Questions \cup Approvals \cup Elicitations /\ p \in Remote
    /\ \A p \in Questions : p \notin Permissions \cup Approvals \cup Elicitations /\ p \in Remote
    /\ \A p \in Approvals : p \notin Permissions \cup Questions \cup Elicitations \cup Remote
    /\ \A p \in Elicitations : p \notin Permissions \cup Questions \cup Approvals \cup Remote
BY PromptAssumption DEF Prompts, Remote

\* All but questions have one call id.
LEMMA OneCall ==
    ASSUME NEW c \in Calls, c[1] \notin Questions
    PROVE  c[1] \in Prompts /\ CallsOf(c[1]) = {c} /\ c = <<c[1], 1>>
<1>1. c[1] \in Prompts /\ c \in CallsOf(c[1])
  BY CallFacts
<1>2. CallsOf(c[1]) = {<<c[1], 1>>}
  BY <1>1, CallFacts
<1>. QED BY <1>1, <1>2

\* Events are appended and read in order.
LEMMA NewsFacts ==
    ASSUME NEW s \in Seq({"asked", "replied"})
    PROVE  /\ \A e \in {"asked", "replied"} :
                 /\ Append(s, e) \in Seq({"asked", "replied"})
                 /\ \E i \in DOMAIN Append(s, e) : Append(s, e)[i] = e
                 /\ \A f : (\E i \in DOMAIN s : s[i] = f)
                           => \E i \in DOMAIN Append(s, e) : Append(s, e)[i] = f
                 /\ \A f : f # e /\ (\E i \in DOMAIN Append(s, e) : Append(s, e)[i] = f)
                           => \E i \in DOMAIN s : s[i] = f
           /\ s # <<>> => /\ Tail(s) \in Seq({"asked", "replied"})
                          /\ \A f : (\E i \in DOMAIN Tail(s) : Tail(s)[i] = f)
                                    => \E i \in DOMAIN s : s[i] = f
                          /\ \A f : f # Head(s) /\ (\E i \in DOMAIN s : s[i] = f)
                                    => \E i \in DOMAIN Tail(s) : Tail(s)[i] = f
<1>1. ASSUME NEW e \in {"asked", "replied"}
      PROVE  /\ Append(s, e) \in Seq({"asked", "replied"})
             /\ Len(Append(s, e)) = Len(s) + 1 /\ Append(s, e)[Len(s) + 1] = e
             /\ \A i \in 1 .. Len(s) : Append(s, e)[i] = s[i]
  OBVIOUS
<1>2. ASSUME s # <<>>
      PROVE  /\ Tail(s) \in Seq({"asked", "replied"}) /\ Len(s) \in Nat \ {0}
             /\ Len(Tail(s)) = Len(s) - 1 /\ Head(s) = s[1]
             /\ \A i \in 1 .. Len(Tail(s)) : Tail(s)[i] = s[i + 1]
  BY <1>2
<1>3. DOMAIN s = 1 .. Len(s) /\ Len(s) \in Nat
  OBVIOUS
<1>4. ASSUME NEW e \in {"asked", "replied"}
      PROVE  DOMAIN Append(s, e) = 1 .. (Len(s) + 1)
  BY <1>1, <1>3
<1>5. ASSUME s # <<>> PROVE DOMAIN Tail(s) = 1 .. (Len(s) - 1)
  BY <1>2, <1>5
<1>6. ASSUME NEW e \in {"asked", "replied"}
      PROVE  /\ Append(s, e) \in Seq({"asked", "replied"})
             /\ \E i \in DOMAIN Append(s, e) : Append(s, e)[i] = e
             /\ \A f : (\E i \in DOMAIN s : s[i] = f)
                       => \E i \in DOMAIN Append(s, e) : Append(s, e)[i] = f
             /\ \A f : f # e /\ (\E i \in DOMAIN Append(s, e) : Append(s, e)[i] = f)
                       => \E i \in DOMAIN s : s[i] = f
  <2>1. \E i \in DOMAIN Append(s, e) : Append(s, e)[i] = e
    BY <1>1, <1>3, <1>4
  <2>2. ASSUME NEW f, NEW i \in DOMAIN s, s[i] = f
        PROVE  \E j \in DOMAIN Append(s, e) : Append(s, e)[j] = f
    BY <2>2, <1>1, <1>3, <1>4
  <2>3. ASSUME NEW f, f # e, NEW i \in DOMAIN Append(s, e), Append(s, e)[i] = f
        PROVE  \E j \in DOMAIN s : s[j] = f
    BY <2>3, <1>1, <1>3, <1>4
  <2>. QED BY <1>1, <2>1, <2>2, <2>3
<1>7. ASSUME s # <<>>
      PROVE  /\ Tail(s) \in Seq({"asked", "replied"})
             /\ \A f : (\E i \in DOMAIN Tail(s) : Tail(s)[i] = f) => \E i \in DOMAIN s : s[i] = f
             /\ \A f : f # Head(s) /\ (\E i \in DOMAIN s : s[i] = f)
                       => \E i \in DOMAIN Tail(s) : Tail(s)[i] = f
  <2>1. ASSUME NEW f, NEW i \in DOMAIN Tail(s), Tail(s)[i] = f
        PROVE  \E j \in DOMAIN s : s[j] = f
    <3>1. i + 1 \in DOMAIN s /\ s[i + 1] = f
      BY <2>1, <1>2, <1>3, <1>5, <1>7
    <3>. QED BY <3>1
  <2>2. ASSUME NEW f, f # Head(s), NEW i \in DOMAIN s, s[i] = f
        PROVE  \E j \in DOMAIN Tail(s) : Tail(s)[j] = f
    <3>1. i # 1 /\ i \in 1 .. Len(s)
      BY <2>2, <1>2, <1>3, <1>7
    <3>2. i - 1 \in DOMAIN Tail(s) /\ Tail(s)[i - 1] = f
      BY <2>2, <3>1, <1>2, <1>3, <1>5, <1>7
    <3>. QED BY <3>2
  <2>. QED BY <1>2, <1>7, <2>1, <2>2
<1>. QED BY <1>6, <1>7

\* The steps of the composition, one by one.
LEMMA Steps ==
    ASSUME [Next]_vars
    PROVE  \/ UNCHANGED vars
           \/ \E p \in Prompts : \/ Ask(p) \/ AskAgain(p) \/ RequestApproval(p)
                                 \/ RequestElicitation(p) \/ ApprovalTimesOut(p)
                                 \/ ApprovalCleansUp(p)
                                 \/ \E how \in {"allowed", "rejected"} : OtherClient(p, how)
           \/ \E p \in Remote : \/ AutoAccept(p) \/ PermissionAsked(p) \/ QuestionAsked(p)
                                \/ Replied(p)
           \/ QueueCard \/ TimeoutReject \/ StreamLost
           \/ \E c \in Calls : \/ SweepExpired(c) \/ RejectQuestion(c) \/ AnswerQuestion(c)
                               \/ \E r \in Replies : \/ ConfirmLocal(c, r)
                                                     \/ ConfirmPermission(c, r)
                                                     \/ ConfirmLocked(c, r)
           \/ \E k \in clicks : Bless(k) \/ Suppress(k) \/ PostReply(k)
           \/ \E m \in posts \cup acked : PostApplied(m) \/ PostDelivered(m) \/ PostFails(m)
           \/ RejectPending
BY Zenon DEF Next, Confirm, ReadEvents, Continue, Deliver, Approve

\* Replies are made from a call id.
LEMMA PostMade ==
    \A c \in Calls, r \in {"allowed", "rejected"} :
        /\ \A b \in {"confirm", "blind", "auto"} : [call |-> c, reply |-> r, by |-> b] \in Post
        /\ c[1] \in Questions => \A b \in {"answer", "dismiss"} :
                                   [call |-> c, reply |-> r, by |-> b] \in Post
<1>1. ASSUME NEW c \in Calls, c[1] \in Questions PROVE c \in Questions \X {1, 2}
  BY <1>1, CallFacts DEF CallsOf
<1>. QED BY <1>1 DEF Post

\* What replies hold,
LEMMA PostFields ==
    ASSUME NEW m \in Post
    PROVE  /\ m.call \in Calls /\ m.call[1] \in Prompts
           /\ m.reply \in {"allowed", "rejected"}
           /\ Pending(m) => m.call[1] \in Remote /\ wait[m.call[1]] = "waiting"
           /\ m.by \in {"answer", "dismiss"} => m.call[1] \in Questions
<1>1. Questions \X {1, 2} \subseteq Calls
  BY DEF Calls, CallsOf, Prompts
<1>2. m.call \in Calls /\ m.reply \in {"allowed", "rejected"}
  BY <1>1 DEF Post
<1>3. m.by \in {"answer", "dismiss"} => m.call[1] \in Questions
  BY DEF Post
<1>4. m.call[1] \in Prompts
  BY <1>2, CallFacts
<1>. QED BY <1>2, <1>3, <1>4 DEF Pending, Remote

\* and what answers hold.
LEMMA ClickFields ==
    ASSUME NEW k \in Click
    PROVE  k.call \in Calls /\ k.call[1] \in Prompts /\ k.drained \subseteq Calls
BY CallFacts DEF Click

\* Every step keeps the types.
LEMMA TypeStep ==
    ASSUME TypeOK, [Next]_vars
    PROVE  TypeOK'
<1>. USE DEF queue, buffers, stamps, consent, reader, replies, accidents
<1>0. posts \subseteq Post /\ acked \subseteq Post /\ clicks \subseteq Click
  BY DEF TypeOK
<1>1. ASSUME NEW p \in Prompts, Ask(p) PROVE TypeOK'
  BY <1>1, CallFacts, Kinds, NewsFacts DEF TypeOK, Ask, Unasked, Outcomes
<1>2. ASSUME NEW p \in Prompts, AskAgain(p) PROVE TypeOK'
  BY <1>2, CallFacts, Kinds, NewsFacts DEF TypeOK, AskAgain, Trouble, Outcomes
<1>3. ASSUME NEW p \in Prompts, NEW how \in {"allowed", "rejected"}, OtherClient(p, how) PROVE TypeOK'
  BY <1>3, CallFacts, Kinds, NewsFacts DEF TypeOK, OtherClient, Trouble, Outcomes
<1>4. ASSUME NEW p \in Prompts, RequestApproval(p) PROVE TypeOK'
  BY <1>4, CallFacts, Kinds, NewsFacts DEF TypeOK, RequestApproval, Unasked, Show, Outcomes, Kind
<1>5. ASSUME NEW p \in Prompts, RequestElicitation(p) PROVE TypeOK'
  BY <1>5, CallFacts, Kinds, NewsFacts DEF TypeOK, RequestElicitation, Unasked, Show, Outcomes
<1>6. ASSUME NEW p \in Prompts, ApprovalTimesOut(p) PROVE TypeOK'
  BY <1>6, CallFacts, Kinds, NewsFacts DEF TypeOK, ApprovalTimesOut, Outcomes
<1>7. ASSUME NEW p \in Prompts, ApprovalCleansUp(p) PROVE TypeOK'
  BY <1>7, CallFacts, Kinds, NewsFacts DEF TypeOK, ApprovalCleansUp, Outcomes
<1>8. ASSUME NEW p \in Remote, AutoAccept(p) PROVE TypeOK'
  <2>1. [call |-> <<p, 1>>, reply |-> "allowed", by |-> "auto"] \in Post
    BY PostMade, CallFacts, Kinds
  <2>2. posts' \subseteq Post
    BY <1>0, <1>8, <2>1 DEF AutoAccept
  <2>. QED BY <1>8, CallFacts, Kinds, NewsFacts, <2>1, <2>2
           DEF TypeOK, AutoAccept, Receives, Reading, Outcomes
<1>9. ASSUME NEW p \in Remote, PermissionAsked(p) PROVE TypeOK'
  BY <1>9, CallFacts, Kinds, NewsFacts DEF TypeOK, PermissionAsked, Receives, Reading, Outcomes
<1>10. ASSUME NEW p \in Remote, QuestionAsked(p) PROVE TypeOK'
  BY <1>10, CallFacts, Kinds, NewsFacts DEF TypeOK, QuestionAsked, Receives, Reading, Show, Outcomes
<1>11. ASSUME NEW p \in Remote, Replied(p) PROVE TypeOK'
  BY <1>11, CallFacts, Kinds, NewsFacts DEF TypeOK, Replied, Receives, Reading, Outcomes
<1>12. ASSUME QueueCard PROVE TypeOK'
  BY <1>12, CallFacts, Kinds, NewsFacts DEF TypeOK, QueueCard, Show, Outcomes
<1>13. ASSUME NEW c \in Calls, SweepExpired(c) PROVE TypeOK'
  BY <1>13, CallFacts, Kinds, NewsFacts DEF TypeOK, SweepExpired, Reading, Outcomes
<1>14. ASSUME TimeoutReject PROVE TypeOK'
  <2>1. sweeping \in Calls
    BY <1>14 DEF TypeOK, TimeoutReject
  <2>2. /\ [call |-> sweeping, reply |-> "rejected", by |-> "auto"] \in Post
        /\ sweeping[1] \in Questions =>
             [call |-> sweeping, reply |-> "rejected", by |-> "dismiss"] \in Post
    BY <2>1, PostMade
  <2>3. posts' \subseteq Post
    <3>1. PICK free \in BOOLEAN :
            posts' = IF free /\ sweeping[1] \in parked \cap (Approvals \cup Elicitations)
                     THEN posts
                     ELSE posts \cup {[call |-> sweeping, reply |-> "rejected",
                            by |-> IF free /\ sweeping[1] \in Questions THEN "dismiss" ELSE "auto"]}
      BY <1>14 DEF TimeoutReject
    <3>2. CASE free /\ sweeping[1] \in Questions
      BY <1>0, <2>2, <3>1, <3>2
    <3>3. CASE ~(free /\ sweeping[1] \in Questions)
      BY <1>0, <2>2, <3>1, <3>3
    <3>. QED BY <3>2, <3>3
  <2>. QED BY <1>14, CallFacts, Kinds, <2>1, <2>2, <2>3
           DEF TypeOK, TimeoutReject, TryWrite, Trouble, Told, Outcomes
<1>15. ASSUME NEW c \in Calls, NEW r \in Replies, ConfirmLocal(c, r) PROVE TypeOK'
  BY <1>15, CallFacts, Kinds, NewsFacts DEF TypeOK, ConfirmLocal, Answer, Told, Outcomes, Kind
<1>16. ASSUME NEW c \in Calls, RejectQuestion(c) PROVE TypeOK'
  <2>1. [call |-> c, reply |-> "rejected", by |-> "dismiss"] \in Post
    BY <1>16, PostMade DEF RejectQuestion
  <2>2. posts' \subseteq Post
    BY <1>0, <1>16, <2>1 DEF RejectQuestion
  <2>. QED BY <1>16, CallFacts, Kinds, <2>1, <2>2 DEF TypeOK, RejectQuestion, Answer, Outcomes
<1>17. ASSUME NEW c \in Calls, AnswerQuestion(c) PROVE TypeOK'
  <2>1. [call |-> c, reply |-> "allowed", by |-> "answer"] \in Post
    BY <1>17, PostMade DEF AnswerQuestion
  <2>2. posts' \subseteq Post
    BY <1>0, <1>17, <2>1 DEF AnswerQuestion
  <2>. QED BY <1>17, CallFacts, Kinds, <2>1, <2>2
           DEF TypeOK, AnswerQuestion, Answer, Complete, Outcomes
<1>18. ASSUME NEW c \in Calls, NEW r \in Replies, ConfirmPermission(c, r) PROVE TypeOK'
  <2>1. [call |-> c, reply |-> r, card |-> c \in cards, drained |-> {}, at |-> Later(r)] \in Click
    BY DEF Click, Later
  <2>2. clicks' \subseteq Click
    BY <1>0, <1>18, <2>1 DEF ConfirmPermission
  <2>. QED BY <1>18, CallFacts, Kinds, <2>1, <2>2
           DEF TypeOK, ConfirmPermission, Answer, Later, Outcomes
<1>19. ASSUME NEW c \in Calls, NEW r \in Replies, ConfirmLocked(c, r) PROVE TypeOK'
  <2>1. [call |-> c, reply |-> r, card |-> FALSE, drained |-> {}, at |-> Later(r)] \in Click
    BY DEF Click, Later
  <2>2. clicks' \subseteq Click
    BY <1>0, <1>19, <2>1 DEF ConfirmLocked
  <2>. QED BY <1>19, CallFacts, Kinds, <2>1, <2>2 DEF TypeOK, ConfirmLocked, Answer, Later, Outcomes
<1>20. ASSUME NEW k \in clicks, Bless(k) PROVE TypeOK'
  <2>1. \A d \in SUBSET Calls : [k EXCEPT !.at = "dedup", !.drained = d] \in Click
    BY <1>0 DEF Click
  <2>2. cards \subseteq Calls
    BY DEF TypeOK
  <2>3. clicks' \subseteq Click
    <3>1. PICK d \in SUBSET Calls :
            clicks' = (clicks \ {k}) \cup {[k EXCEPT !.at = "dedup", !.drained = d]}
      BY <1>20, <2>2 DEF Bless
    <3>. QED BY <1>0, <2>1, <3>1
  <2>4. cards' \subseteq Calls /\ replied' \subseteq Calls
    BY <2>2, <1>20 DEF Bless, TypeOK
  <2>5. blessed' \subseteq Blessings /\ inputs' \in Nat
    <3>1. PICK free \in BOOLEAN :
            blessed' = (IF free THEN blessed \cup {k.reply} ELSE blessed) /\ TryWrite(free)
      BY <1>20 DEF Bless
    <3>2. inputs' \in Nat
      BY <3>1 DEF TryWrite, Trouble, TypeOK
    <3>3. k.reply \in Blessings
      BY <1>0, <1>20 DEF Bless, Click
    <3>. QED BY <3>1, <3>2, <3>3 DEF TypeOK
  <2>6. mistaken' \subseteq Prompts
    <3>1. mistaken' \subseteq mistaken \cup {x[1] : x \in cards}
      BY <1>20 DEF Bless
    <3>2. \A x \in cards : x[1] \in Prompts
      BY <2>2, CallFacts
    <3>. QED BY <3>1, <3>2 DEF TypeOK
  <2>7. UNCHANGED <<wait, news, expiry, buffers, closed, requeued, memory, reader, leaving,
                   replies, shown, abandoned, missed, restored, approved>>
    BY <1>20 DEF Bless
  <2>. QED BY <2>3, <2>4, <2>5, <2>6, <2>7 DEF TypeOK
<1>21. ASSUME NEW k \in clicks, Suppress(k) PROVE TypeOK'
  <2>1. k.drained \subseteq Calls /\ \A d \in k.drained : d[1] \in Prompts
    BY <1>0, ClickFields, CallFacts
  <2>. QED BY <1>21, CallFacts, Kinds, <2>1 DEF TypeOK, Suppress, Outcomes
<1>22. ASSUME NEW k \in clicks, PostReply(k) PROVE TypeOK'
  <2>1. k.call \in Calls /\ k.drained \subseteq Calls
    BY <1>0, ClickFields
  <2>2. \A c \in Calls : [call |-> c, reply |-> "allowed", by |-> "auto"] \in Post
    BY PostMade
  <2>3. [call |-> k.call, reply |-> IF k.reply = "reject" THEN "rejected" ELSE "allowed",
        by |-> IF k.card THEN "confirm" ELSE "blind"] \in Post
    BY <2>1, PostMade
  <2>4. posts' \subseteq Post
    BY <1>0, <1>22, <2>1, <2>2, <2>3 DEF PostReply
  <2>. QED BY <1>22, CallFacts, Kinds, <2>1, <2>2, <2>3, <2>4
           DEF TypeOK, PostReply, TryWrite, Trouble, Outcomes
<1>23. ASSUME NEW m \in posts \cup acked, PostApplied(m) PROVE TypeOK'
  <2>1. m \in Post /\ m.call[1] \in Remote /\ m.reply \in {"allowed", "rejected"}
    BY <1>0, <1>23, PostFields DEF PostApplied
  <2>2. posts' \subseteq Post /\ acked' \subseteq Post
    BY <1>0, <1>23, <2>1 DEF PostApplied
  <2>. QED BY <1>23, Kinds, NewsFacts, <2>1, <2>2 DEF TypeOK, PostApplied, Apply, Outcomes
<1>24. ASSUME NEW m \in posts \cup acked, PostDelivered(m) \/ PostFails(m) PROVE TypeOK'
  <2>1. m.call \in Calls /\ m.call[1] \in Prompts
    BY <1>0, PostFields
  <2>2. CASE PostDelivered(m)
    BY <2>1, <2>2 DEF TypeOK, PostDelivered
  <2>3. CASE PostFails(m)
    BY <2>1, <2>3 DEF TypeOK, PostFails, Retry, Show
  <2>. QED BY <1>24, <2>2, <2>3
<1>27. ASSUME StreamLost PROVE TypeOK'
  <2>1. news' \in [Remote -> Seq({"asked", "replied"})]
    BY <1>27 DEF StreamLost
  <2>. QED BY <1>27, <2>1 DEF TypeOK, StreamLost, Trouble
<1>25. ASSUME RejectPending PROVE TypeOK'
  <2>1. \A c \in Calls : [call |-> c, reply |-> "rejected", by |-> "auto"] \in Post
    BY PostMade
  <2>2. \A q \in Questions : [call |-> <<q, 1>>, reply |-> "rejected", by |-> "dismiss"] \in Post
    BY PostMade, CallFacts, Kinds
  <2>3. posts' \subseteq Post
    BY <1>0, <1>25, <2>1, <2>2 DEF RejectPending, TypeOK
  <2>4. wait' \in [Prompts -> Outcomes]
    BY <1>25, Kinds DEF RejectPending, TypeOK, Told, Outcomes
  <2>. QED BY <1>25, Kinds, <2>3, <2>4 DEF TypeOK, RejectPending
<1>26. ASSUME UNCHANGED vars PROVE TypeOK'
  BY <1>26 DEF vars, TypeOK
<1>. QED BY Steps, <1>1, <1>2, <1>3, <1>4, <1>5, <1>6, <1>7, <1>8, <1>9, <1>10, <1>11, <1>12,
         <1>13, <1>14, <1>15, <1>16, <1>17, <1>18, <1>19, <1>20, <1>21, <1>22, <1>23, <1>24,
         <1>25, <1>26, <1>27, Zenon

\* An asked or a replied event of p is still to be read.
Asked(p) == \E i \in DOMAIN news[p] : news[p][i] = "asked"

Reported(p) == \E i \in DOMAIN news[p] : news[p][i] = "replied"

\* What reading an event does to the events to come.
LEMMA ReadOne ==
    ASSUME TypeOK, NEW p \in Remote, NEW e \in {"asked", "replied"}, Receives(p, e)
    PROVE  \A r \in Remote :
             /\ Asked(r)' => Asked(r)
             /\ Reported(r)' => Reported(r)
             /\ Asked(r) /\ ~(r = p /\ e = "asked") => Asked(r)'
             /\ Reported(r) /\ ~(r = p /\ e = "replied") => Reported(r)'
<1>. SUFFICES ASSUME NEW r \in Remote
     PROVE /\ Asked(r)' => Asked(r)
           /\ Reported(r)' => Reported(r)
           /\ Asked(r) /\ ~(r = p /\ e = "asked") => Asked(r)'
           /\ Reported(r) /\ ~(r = p /\ e = "replied") => Reported(r)'
  OBVIOUS
<1>1. news[p] \in Seq({"asked", "replied"}) /\ news[p] # <<>> /\ Head(news[p]) = e
  BY DEF TypeOK, Receives
<1>2. news' = [news EXCEPT ![p] = Tail(news[p])]
  BY DEF Receives
<1>3. CASE r # p
  BY <1>2, <1>3 DEF TypeOK, Asked, Reported
<1>4. CASE r = p
  <2>1. news'[p] = Tail(news[p])
    BY <1>2 DEF TypeOK
  <2>2. ASSUME NEW f
        PROVE  /\ (\E i \in DOMAIN Tail(news[p]) : Tail(news[p])[i] = f)
                  => \E i \in DOMAIN news[p] : news[p][i] = f
               /\ f # e /\ (\E i \in DOMAIN news[p] : news[p][i] = f)
                  => \E i \in DOMAIN Tail(news[p]) : Tail(news[p])[i] = f
    BY <1>1, NewsFacts
  <2>3. (Asked(p)' => Asked(p)) /\ ("asked" # e /\ Asked(p) => Asked(p)')
    BY <2>1, <2>2, Zenon DEF Asked
  <2>4. (Reported(p)' => Reported(p)) /\ ("replied" # e /\ Reported(p) => Reported(p)')
    BY <2>1, <2>2, Zenon DEF Reported
  <2>. QED BY <1>4, <2>3, <2>4
<1>. QED BY <1>3, <1>4

\* What a new event does to the events to come.
LEMMA SendOne ==
    ASSUME TypeOK, NEW p \in Remote, NEW e \in {"asked", "replied"},
           news' = [news EXCEPT ![p] = Append(news[p], e)]
    PROVE  /\ e = "asked" => Asked(p)'
           /\ e = "replied" => Reported(p)'
           /\ \A r \in Remote :
                /\ Asked(r) => Asked(r)'
                /\ Reported(r) => Reported(r)'
                /\ Reported(r)' => Reported(r) \/ (r = p /\ e = "replied")
<1>1. news[p] \in Seq({"asked", "replied"}) /\ news'[p] = Append(news[p], e)
  BY DEF TypeOK
<1>2. \E i \in DOMAIN news'[p] : news'[p][i] = e
  BY <1>1, NewsFacts
<1>4. ASSUME NEW f
      PROVE  /\ (\E i \in DOMAIN news[p] : news[p][i] = f)
                => \E i \in DOMAIN news'[p] : news'[p][i] = f
             /\ f # e /\ (\E i \in DOMAIN news'[p] : news'[p][i] = f)
                => \E i \in DOMAIN news[p] : news[p][i] = f
  BY <1>1, NewsFacts
<1>5. /\ Asked(p) => Asked(p)'
      /\ Reported(p) => Reported(p)'
      /\ "replied" # e /\ Reported(p)' => Reported(p)
  BY <1>4, Zenon DEF Asked, Reported
<1>6. (e = "asked" => Asked(p)') /\ (e = "replied" => Reported(p)')
  BY <1>2, Zenon DEF Asked, Reported
<1>3. ASSUME NEW r \in Remote, r # p PROVE news'[r] = news[r]
  BY <1>3 DEF TypeOK
<1>7. ASSUME NEW r \in Remote, r # p
      PROVE  (Asked(r) <=> Asked(r)') /\ (Reported(r) <=> Reported(r)')
  BY <1>3, <1>7 DEF Asked, Reported
<1>. QED BY <1>5, <1>6, <1>7

\* Every card has a deadline, was put back after a failed reply, or belongs to
\* an approval that still waits or is about to clean up.
Gone(c) ==
    \/ c \in expiry \cup restored
    \/ c[1] \in leaving
    \/ c[1] \in Approvals /\ wait[c[1]] = "waiting"

Swept == \A c \in cards : Gone(c)

\* Every step keeps Swept.
LEMMA SweptStep ==
    ASSUME TypeOK, Swept, [Next]_vars
    PROVE  Swept'
<1>. USE DEF queue, buffers, stamps, consent, reader, replies, accidents
<1>. SUFFICES ASSUME NEW d \in cards', d \in Calls PROVE Gone(d)'
  <2>1. cards' \subseteq Calls
    BY TypeStep DEF TypeOK
  <2>. QED BY <2>1 DEF Swept, Gone
<1>a. d \in cards => Gone(d)
  BY DEF Swept
<1>b. d[1] \in Prompts /\ d \in CallsOf(d[1])
  BY CallFacts
<1>c. ASSUME d[1] \in Approvals => wait'[d[1]] = wait[d[1]], d \in cards, expiry \subseteq expiry',
             restored \subseteq restored', leaving' = leaving
      PROVE  Gone(d)'
  BY <1>a, <1>c DEF Gone
<1>1. ASSUME NEW p \in Prompts,
             Ask(p) \/ AskAgain(p) \/ \E how \in {"allowed", "rejected"} : OtherClient(p, how)
      PROVE  Gone(d)'
  <2>1. p \in Remote /\ (wait' = wait \/ \E w \in Outcomes : wait' = [wait EXCEPT ![p] = w])
    BY <1>1 DEF Ask, AskAgain, OtherClient, Outcomes
  <2>2. d[1] \in Approvals => wait'[d[1]] = wait[d[1]]
    BY <2>1, Kinds DEF TypeOK
  <2>. QED BY <1>1, <1>c, <2>2 DEF Ask, AskAgain, OtherClient
<1>2. ASSUME NEW p \in Prompts, RequestApproval(p) PROVE Gone(d)'
  <2>1. wait[p] = "none" /\ CallsOf(p) = {<<p, 1>>} /\ p \in Approvals
    BY <1>2, CallFacts, Kinds DEF RequestApproval, Unasked
  <2>2. CASE d \in cards
    <3>1. wait[d[1]] = "waiting" => d[1] # p /\ wait'[d[1]] = wait[d[1]]
      BY <1>2, <1>b, <2>1 DEF RequestApproval, TypeOK
    <3>. QED BY <1>2, <1>a, <2>2, <3>1 DEF RequestApproval, Gone
  <2>3. CASE d \notin cards
    <3>1. d = <<p, 1>> /\ wait' = [wait EXCEPT ![p] = "waiting"]
      BY <1>2, <2>3 DEF RequestApproval, Show
    <3>. QED BY <2>1, <3>1 DEF Gone, TypeOK
  <2>. QED BY <2>2, <2>3
<1>3. ASSUME NEW p \in Prompts, RequestElicitation(p) PROVE Gone(d)'
  <2>1. d[1] \in Approvals => wait'[d[1]] = wait[d[1]]
    BY <1>3, Kinds DEF RequestElicitation, TypeOK
  <2>2. d \in cards \/ d \in expiry'
    BY <1>3 DEF RequestElicitation, Show
  <2>. QED BY <1>3, <1>c, <2>1, <2>2 DEF RequestElicitation, Gone
<1>4. ASSUME NEW p \in Prompts, ApprovalTimesOut(p) PROVE Gone(d)'
  BY <1>4, <1>a, <1>b DEF ApprovalTimesOut, Gone, TypeOK
<1>5. ASSUME NEW p \in Prompts, ApprovalCleansUp(p) PROVE Gone(d)'
  <2>1. CallsOf(p) = {<<p, 1>>}
    BY <1>5, CallFacts, Kinds DEF ApprovalCleansUp, TypeOK
  <2>2. d[1] # p /\ d \in cards
    BY <1>5, <1>b, <2>1 DEF ApprovalCleansUp
  <2>. QED BY <1>5, <1>a, <2>2 DEF ApprovalCleansUp, Gone
<1>6. ASSUME NEW p \in Remote, AutoAccept(p) \/ PermissionAsked(p) \/ Replied(p) PROVE Gone(d)'
  BY <1>6, <1>c DEF AutoAccept, PermissionAsked, Replied
<1>7. ASSUME NEW p \in Remote, QuestionAsked(p) PROVE Gone(d)'
  <2>1. expiry \subseteq expiry' /\ (d \in cards \/ d \in expiry')
    BY <1>7 DEF QuestionAsked, Show
  <2>. QED BY <1>7, <1>c, <2>1 DEF QuestionAsked, Gone
<1>8. ASSUME QueueCard PROVE Gone(d)'
  <2>1. expiry \subseteq expiry' /\ (d \in cards \/ d \in expiry')
    BY <1>8 DEF QueueCard, Show
  <2>. QED BY <1>8, <1>c, <2>1 DEF QueueCard, Gone
<1>9. ASSUME TimeoutReject PROVE Gone(d)'
  <2>1. PICK free \in BOOLEAN :
          /\ cards' = IF free THEN cards \ CallsOf(sweeping[1]) ELSE cards
          /\ expiry' = IF free THEN expiry \ {sweeping} ELSE expiry
          /\ wait' = IF free /\ sweeping[1] \in parked \cap (Approvals \cup Elicitations)
                     THEN Told(sweeping[1], "rejected") ELSE wait
    BY <1>9 DEF TimeoutReject
  <2>2. sweeping \in Calls /\ sweeping \in CallsOf(sweeping[1])
    BY <1>9, CallFacts DEF TimeoutReject, TypeOK
  <2>3. restored' = restored /\ leaving' = leaving
    BY <1>9 DEF TimeoutReject
  <2>4. CASE free
    <3>1. d \in cards /\ d[1] # sweeping[1] /\ d # sweeping
      BY <1>b, <2>1, <2>2, <2>4
    <3>2. wait'[d[1]] = wait[d[1]]
      BY <1>b, <2>1, <3>1 DEF Told, TypeOK
    <3>. QED BY <1>a, <2>1, <2>3, <3>1, <3>2 DEF Gone
  <2>5. CASE ~free
    BY <1>c, <2>1, <2>3, <2>5
  <2>. QED BY <2>4, <2>5
<1>10. ASSUME NEW c \in Calls, NEW r \in Replies, ConfirmLocal(c, r) PROVE Gone(d)'
  <2>1. c[1] \in Prompts \ Questions /\ CallsOf(c[1]) = {c}
    BY <1>10, OneCall, Kinds DEF ConfirmLocal
  <2>2. d \in cards /\ d[1] # c[1]
    BY <1>10, <1>b, <2>1 DEF ConfirmLocal
  <2>3. wait'[d[1]] = wait[d[1]]
    BY <1>10, <2>2 DEF ConfirmLocal, Told, TypeOK
  <2>. QED BY <1>10, <1>c, <2>2, <2>3 DEF ConfirmLocal
<1>11. ASSUME NEW m \in posts \cup acked, PostApplied(m) PROVE Gone(d)'
  <2>1. m.call[1] \in Remote
    BY <1>11, PostFields DEF PostApplied, TypeOK
  <2>2. d[1] \in Approvals => wait'[d[1]] = wait[d[1]]
    BY <1>11, <2>1, Kinds DEF PostApplied, Apply, TypeOK
  <2>. QED BY <1>11, <1>c, <2>2 DEF PostApplied
<1>12. ASSUME NEW m \in posts \cup acked, PostDelivered(m) PROVE Gone(d)'
  BY <1>12, <1>c DEF PostDelivered
<1>13. ASSUME NEW m \in posts \cup acked, PostFails(m) PROVE Gone(d)'
  <2>1. restored \subseteq restored' /\ (d \in cards \/ d \in restored')
    BY <1>13 DEF PostFails, Show
  <2>. QED BY <1>13, <1>c, <2>1 DEF PostFails, Gone
<1>14. ASSUME NEW c \in Calls,
              \/ SweepExpired(c) \/ RejectQuestion(c) \/ AnswerQuestion(c)
              \/ \E r \in Replies : ConfirmPermission(c, r) \/ ConfirmLocked(c, r)
       PROVE Gone(d)'
  BY <1>14, <1>c DEF SweepExpired, RejectQuestion, AnswerQuestion, ConfirmPermission, ConfirmLocked
<1>15. ASSUME NEW k \in clicks, Bless(k) \/ Suppress(k) \/ PostReply(k) PROVE Gone(d)'
  <2>1. cards' \subseteq cards
    BY <1>15 DEF Bless, Suppress, PostReply
  <2>. QED BY <1>15, <1>c, <2>1 DEF Bless, Suppress, PostReply
<1>16. CASE RejectPending
  BY <1>16 DEF RejectPending
<1>17. CASE StreamLost \/ UNCHANGED vars
  BY <1>17, <1>c DEF StreamLost, vars
<1>. QED BY Steps, <1>1, <1>2, <1>3, <1>4, <1>5, <1>6, <1>7, <1>8, <1>9, <1>10, <1>11, <1>12,
            <1>13, <1>14, <1>15, <1>16, <1>17, Zenon

\* Consent to prompt p: for each of its calls, or by a blessing.
Backed(p) == CallsOf(p) \subseteq approved \/ Covered(p, blessed)

\* A reply the server would obey.
Heard(m) == m.by \in {"answer", "dismiss"} \/ m.call[1] \in Permissions

PostsBacked ==
    \A m \in posts :
        m.reply = "allowed" /\ Heard(m) => Backed(m.call[1]) \/ m.call[1] \in mistaken

ClicksBacked ==
    \A k \in clicks :
        /\ k.reply \in {"allow", "always"} \cup Blessings => k.call \in approved
        /\ k.reply = "cancel" => k.call[1] \in Elicitations
        /\ \A d \in k.drained : Covered(d[1], blessed) \/ d[1] \in mistaken

\* What is remembered for a kind of approvals was allowed for one of them.
Remembered == \A kind \in memory : \E a \in Approvals : Kind(a) = kind /\ <<a, 1>> \in approved

\* Consent goes with an answer from the card to the buffers, the memory, the
\* answers under way and the replies on their way.
Consented ==
    answered \subseteq approved /\ PostsBacked /\ ClicksBacked /\ Remembered

\* Consent is never taken back.
LEMMA ConsentGrows ==
    ASSUME [Next]_vars
    PROVE  /\ approved \subseteq approved' /\ blessed \subseteq blessed'
           /\ memory \subseteq memory' /\ mistaken \subseteq mistaken'
<1>. USE DEF queue, buffers, stamps, consent, reader, replies, accidents
<1>1. ASSUME NEW p \in Prompts,
             \/ Ask(p) \/ AskAgain(p) \/ RequestApproval(p) \/ RequestElicitation(p)
             \/ ApprovalTimesOut(p) \/ ApprovalCleansUp(p)
             \/ \E how \in {"allowed", "rejected"} : OtherClient(p, how)
      PROVE  approved \subseteq approved' /\ UNCHANGED <<blessed, memory, mistaken>>
  BY <1>1 DEF Ask, AskAgain, RequestApproval, RequestElicitation, ApprovalTimesOut,
              ApprovalCleansUp, OtherClient
<1>2. ASSUME NEW p \in Remote,
             AutoAccept(p) \/ PermissionAsked(p) \/ QuestionAsked(p) \/ Replied(p)
      PROVE  UNCHANGED <<approved, blessed, memory, mistaken>>
  BY <1>2 DEF AutoAccept, PermissionAsked, QuestionAsked, Replied
<1>3. ASSUME QueueCard \/ TimeoutReject \/ StreamLost \/ RejectPending
      PROVE  UNCHANGED <<approved, blessed, memory, mistaken>>
  BY <1>3 DEF QueueCard, TimeoutReject, StreamLost, RejectPending
<1>4. ASSUME NEW c \in Calls,
             \/ SweepExpired(c) \/ RejectQuestion(c) \/ AnswerQuestion(c)
             \/ \E r \in Replies : ConfirmLocked(c, r)
      PROVE  approved \subseteq approved' /\ UNCHANGED <<blessed, memory, mistaken>>
  BY <1>4 DEF SweepExpired, RejectQuestion, AnswerQuestion, ConfirmLocked, Answer
<1>5. ASSUME NEW c \in Calls, NEW r \in Replies, ConfirmLocal(c, r) \/ ConfirmPermission(c, r)
      PROVE  /\ approved \subseteq approved' /\ memory \subseteq memory'
             /\ UNCHANGED <<blessed, mistaken>>
  BY <1>5 DEF ConfirmLocal, ConfirmPermission, Answer
<1>6. ASSUME NEW k \in clicks, Bless(k) \/ Suppress(k) \/ PostReply(k)
      PROVE  /\ blessed \subseteq blessed' /\ mistaken \subseteq mistaken'
             /\ UNCHANGED <<approved, memory>>
  <2>1. CASE Bless(k)
    <3>1. approved' = approved /\ memory' = memory
      BY <2>1 DEF Bless
    <3>2. PICK free \in BOOLEAN : blessed' = IF free THEN blessed \cup {k.reply} ELSE blessed
      BY <2>1 DEF Bless
    <3>3. mistaken \subseteq mistaken'
      BY <2>1 DEF Bless
    <3>. QED BY <3>1, <3>2, <3>3
  <2>2. CASE Suppress(k) \/ PostReply(k)
    BY <2>2 DEF Suppress, PostReply
  <2>. QED BY <1>6, <2>1, <2>2
<1>7. ASSUME NEW m \in posts \cup acked,
              PostApplied(m) \/ PostDelivered(m) \/ PostFails(m)
      PROVE  UNCHANGED <<approved, blessed, memory, mistaken>>
  BY <1>7 DEF PostApplied, PostDelivered, PostFails
<1>8. CASE UNCHANGED vars
  BY <1>8 DEF vars
<1>. QED BY Steps, <1>1, <1>2, <1>3, <1>4, <1>5, <1>6, <1>7, <1>8

\* What the blessing of a confirm does.
LEMMA BlessEffect ==
    ASSUME TypeOK, NEW k \in clicks, Bless(k)
    PROVE  \E n \in clicks' :
             /\ clicks' = (clicks \ {k}) \cup {n}
             /\ n.call = k.call /\ n.reply = k.reply /\ n.at = "dedup"
             /\ n.drained \subseteq cards
             /\ \A d \in n.drained : Covered(d[1], blessed') \/ d[1] \in mistaken'
             /\ cards' \subseteq cards /\ cards \subseteq cards' \cup n.drained \cup {k.call}
             /\ replied' = replied \cup n.drained
<1>1. PICK free \in BOOLEAN :
        LET given == IF free THEN blessed \cup {k.reply} ELSE blessed
            drained == IF free THEN {d \in cards : Resembles(d[1], given)} \ {k.call} ELSE {}
        IN  /\ blessed' = given
            /\ cards' = IF free THEN cards \ (drained \cup {k.call}) ELSE cards
            /\ replied' = replied \cup drained
            /\ clicks' = (clicks \ {k}) \cup {[k EXCEPT !.at = "dedup", !.drained = drained]}
            /\ mistaken' = mistaken \cup {d[1] : d \in {x \in drained : ~Covered(x[1], given)}}
  BY DEF Bless
<1>. DEFINE drained == IF free THEN {d \in cards : Resembles(d[1], blessed')} \ {k.call} ELSE {}
            n == [k EXCEPT !.at = "dedup", !.drained = drained]
<1>2. k \in Click
  BY DEF TypeOK
<1>3. n.call = k.call /\ n.reply = k.reply /\ n.at = "dedup" /\ n.drained = drained
  BY <1>2 DEF Click
<1>6. drained \subseteq cards
  OBVIOUS
<1>7. mistaken' = mistaken \cup {d[1] : d \in {x \in drained : ~Covered(x[1], blessed')}}
  BY <1>1
<1>5. /\ n \in clicks' /\ clicks' = (clicks \ {k}) \cup {n} /\ replied' = replied \cup drained
      /\ cards' \subseteq cards /\ cards \subseteq cards' \cup drained \cup {k.call}
  BY <1>1
<1>. HIDE DEF n, drained
<1>4. \A d \in drained : Covered(d[1], blessed') \/ d[1] \in mistaken'
  BY <1>7
<1>. QED BY <1>3, <1>4, <1>5, <1>6

\* Every step keeps Consented.
LEMMA ConsentedStep ==
    ASSUME TypeOK, Consented, [Next]_vars
    PROVE  Consented'
<1>. USE DEF queue, buffers, stamps, consent, reader, replies, accidents
<1>a. approved \subseteq approved' /\ blessed \subseteq blessed' /\ mistaken \subseteq mistaken'
  BY ConsentGrows
<1>v. \A p : Covered(p, blessed) => Covered(p, blessed')
  BY <1>a DEF Covered
<1>b. \A p : Backed(p) => Backed(p)'
  BY <1>a, <1>v DEF Backed
<1>c. ASSUME \A m \in posts' : \/ m \in posts \/ m.reply # "allowed" \/ ~Heard(m)
                               \/ Backed(m.call[1])' \/ m.call[1] \in mistaken'
      PROVE  PostsBacked'
  BY <1>a, <1>b, <1>c DEF Consented, PostsBacked, Heard
<1>d. ASSUME clicks' \subseteq clicks PROVE ClicksBacked'
  BY <1>a, <1>v, <1>d DEF Consented, ClicksBacked
<1>r. ASSUME memory' \subseteq memory PROVE Remembered'
  <2>1. \A kind \in memory : \E a \in Approvals : Kind(a) = kind /\ <<a, 1>> \in approved
    BY DEF Consented, Remembered
  <2>. QED BY <1>a, <1>r, <2>1 DEF Remembered
<1>e. ASSUME posts' \subseteq posts, clicks' \subseteq clicks, answered' \subseteq answered,
             memory' \subseteq memory
      PROVE  Consented'
  <2>1. PostsBacked'
    BY <1>c, <1>e
  <2>2. answered' \subseteq approved'
    BY <1>a, <1>e DEF Consented
  <2>. QED BY <1>d, <1>e, <1>r, <2>1, <2>2 DEF Consented
<1>1. ASSUME NEW p \in Prompts,
             \/ Ask(p) \/ AskAgain(p) \/ RequestApproval(p) \/ RequestElicitation(p)
             \/ ApprovalTimesOut(p) \/ ApprovalCleansUp(p)
             \/ \E how \in {"allowed", "rejected"} : OtherClient(p, how)
      PROVE  Consented'
  BY <1>1, <1>e DEF Ask, AskAgain, RequestApproval, RequestElicitation, ApprovalTimesOut,
                    ApprovalCleansUp, OtherClient
<1>2. ASSUME NEW p \in Remote, AutoAccept(p) PROVE Consented'
  <2>1. Backed(p)'
    BY <1>2, <1>v DEF AutoAccept, Backed
  <2>2. PostsBacked'
    BY <1>2, <1>c, <2>1 DEF AutoAccept
  <2>. QED BY <1>2, <1>a, <1>d, <1>r, <2>2 DEF AutoAccept, Consented
<1>3. ASSUME NEW p \in Remote, PermissionAsked(p) \/ QuestionAsked(p) \/ Replied(p)
      PROVE  Consented'
  BY <1>3, <1>e DEF PermissionAsked, QuestionAsked, Replied
<1>4. ASSUME QueueCard \/ StreamLost PROVE Consented'
  BY <1>4, <1>e DEF QueueCard, StreamLost
<1>5. ASSUME TimeoutReject PROVE Consented'
  <2>1. \A m \in posts' : m \in posts \/ m.reply = "rejected"
    BY <1>5 DEF TimeoutReject
  <2>2. PostsBacked'
    BY <1>c, <2>1
  <2>. QED BY <1>5, <1>a, <1>d, <1>r, <2>2 DEF TimeoutReject, Consented
<1>6. ASSUME RejectPending PROVE Consented'
  <2>1. \A m \in posts' : m \in posts \/ m.reply = "rejected"
    BY <1>6 DEF RejectPending
  <2>2. PostsBacked'
    BY <1>c, <2>1
  <2>. QED BY <1>6, <1>d, <1>r, <2>2 DEF RejectPending, Consented
<1>7. ASSUME NEW c \in Calls, SweepExpired(c) PROVE Consented'
  BY <1>7, <1>e DEF SweepExpired
<1>8. ASSUME NEW c \in Calls, RejectQuestion(c) PROVE Consented'
  <2>1. \A m \in posts' : m \in posts \/ m.reply = "rejected"
    BY <1>8 DEF RejectQuestion
  <2>2. PostsBacked'
    BY <1>c, <2>1
  <2>. QED BY <1>8, <1>a, <1>d, <1>r, <2>2 DEF RejectQuestion, Consented
<1>9. ASSUME NEW c \in Calls, AnswerQuestion(c) PROVE Consented'
  <2>1. c \in approved' /\ answered' \subseteq answered \cup {c}
    BY <1>9 DEF AnswerQuestion, Answer
  <2>2. answered' \subseteq approved'
    BY <1>a, <2>1 DEF Consented
  <2>3. Complete(c) => Backed(c[1])'
    BY <1>a, <2>1 DEF Complete, Backed, Consented
  <2>4. PostsBacked'
    BY <1>9, <1>c, <2>3 DEF AnswerQuestion
  <2>. QED BY <1>9, <1>d, <1>r, <2>2, <2>4 DEF AnswerQuestion, Consented
<1>m. ASSUME NEW c \in Calls, NEW r \in Replies, Answer(c, r),
             \A kind \in memory' : \/ kind \in memory
                                   \/ r = "always" /\ c[1] \in Approvals /\ kind = Kind(c[1])
      PROVE  Remembered'
  <2>1. \A kind \in memory : \E a \in Approvals : Kind(a) = kind /\ <<a, 1>> \in approved
    BY DEF Consented, Remembered
  <2>2. r = "always" /\ c[1] \in Approvals => c = <<c[1], 1>> /\ c \in approved'
    <3>1. c[1] \in Approvals => c = <<c[1], 1>>
      BY OneCall, Kinds
    <3>2. r = "always" => c \in approved'
      BY <1>m DEF Answer
    <3>. QED BY <3>1, <3>2
  <2>. QED BY <1>a, <1>m, <2>1, <2>2 DEF Remembered
<1>l. ASSUME NEW c \in Calls, NEW r \in Replies, Answer(c, r)
      PROVE  r = "always" => c[1] \in Approvals
  <2>1. c[1] \in Prompts /\ r \in Offers(c)
    BY <1>l, CallFacts DEF Answer
  <2>. QED BY <2>1, Kinds DEF Offers, Blessings
<1>10. ASSUME NEW c \in Calls, NEW r \in Replies, ConfirmLocal(c, r) PROVE Consented'
  <2>1. Answer(c, r) /\ \A kind \in memory' : kind \in memory \/ (r = "always" /\ kind = Kind(c[1]))
    BY <1>10 DEF ConfirmLocal
  <2>2. Remembered'
    BY <1>l, <1>m, <2>1
  <2>3. /\ posts' = posts /\ clicks' = clicks /\ answered' = answered
    BY <1>10 DEF ConfirmLocal
  <2>4. PostsBacked' /\ answered' \subseteq approved'
    BY <1>a, <1>c, <2>3 DEF Consented
  <2>. QED BY <1>d, <2>2, <2>3, <2>4 DEF Consented
<1>11. ASSUME NEW c \in Calls, NEW r \in Replies,
              ConfirmPermission(c, r) \/ ConfirmLocked(c, r)
       PROVE  Consented'
  <2>0. Answer(c, r) /\ c[1] \in Prompts
    BY <1>11, CallFacts DEF ConfirmPermission, ConfirmLocked
  <2>1. /\ r \in {"allow", "always"} \cup Blessings => c \in approved'
        /\ r = "cancel" => c[1] \in Elicitations
    BY <2>0, Kinds DEF Answer, Offers, Prompts, Blessings
  <2>2. \A k \in clicks' : k \in clicks \/ (k.call = c /\ k.reply = r /\ k.drained = {})
    BY <1>11 DEF ConfirmPermission, ConfirmLocked
  <2>3. ClicksBacked'
    <3>1. \A k \in clicks :
             /\ k.reply \in {"allow", "always"} \cup Blessings => k.call \in approved'
             /\ k.reply = "cancel" => k.call[1] \in Elicitations
             /\ \A d \in k.drained : Covered(d[1], blessed') \/ d[1] \in mistaken'
      BY <1>a, <1>v DEF Consented, ClicksBacked
    <3>. QED BY <2>1, <2>2, <3>1 DEF ClicksBacked
  <2>4. PostsBacked' /\ answered' \subseteq approved'
    BY <1>11, <1>a, <1>c DEF ConfirmPermission, ConfirmLocked, Consented
  <2>5. \A kind \in memory' : kind \in memory \/ (r = "always" /\ c[1] \notin FsOps /\ kind = "shell")
    BY <1>11 DEF ConfirmPermission, ConfirmLocked
  <2>6. c[1] \notin FsOps => Kind(c[1]) = "shell"
    BY DEF Kind
  <2>7. Remembered'
    BY <1>l, <1>m, <2>0, <2>5, <2>6
  <2>. QED BY <2>3, <2>4, <2>7 DEF Consented
<1>12. ASSUME NEW k \in clicks, Bless(k) PROVE Consented'
  <2>1. PICK n \in clicks' : /\ clicks' \subseteq clicks \cup {n}
                             /\ n.call = k.call /\ n.reply = k.reply
                             /\ \A d \in n.drained : Covered(d[1], blessed') \/ d[1] \in mistaken'
    BY <1>12, BlessEffect
  <2>2. ClicksBacked'
    BY <1>12, <1>a, <1>v, <2>1 DEF Consented, ClicksBacked
  <2>4. posts' = posts /\ answered' = answered /\ memory' = memory
    BY <1>12 DEF Bless
  <2>3. PostsBacked' /\ answered' \subseteq approved' /\ Remembered'
    BY <1>a, <1>c, <1>r, <2>4 DEF Consented
  <2>. QED BY <2>2, <2>3 DEF Consented
<1>13. ASSUME NEW k \in clicks, Suppress(k) PROVE Consented'
  BY <1>13, <1>e DEF Suppress
<1>14. ASSUME NEW k \in clicks, PostReply(k) PROVE Consented'
  <2>1. k \in Click /\ k.call \in Calls /\ k.reply \in Replies /\ k.call \in CallsOf(k.call[1])
    BY CallFacts DEF TypeOK, Click
  <2>2. ASSUME k.reply # "reject", k.call[1] \in Permissions PROVE Backed(k.call[1])'
    <3>1. k.call \in approved
      BY <2>1, <2>2, Kinds DEF Consented, ClicksBacked, Replies, Blessings
    <3>2. CallsOf(k.call[1]) = {k.call}
      BY <2>1, <2>2, OneCall, Kinds
    <3>. QED BY <1>a, <3>1, <3>2 DEF Backed
  <2>3. \A m \in posts' : \/ m \in posts
                          \/ m.reply = "allowed" /\ m.call \in k.drained
                          \/ /\ m.call = k.call
                             /\ m.reply = IF k.reply = "reject" THEN "rejected" ELSE "allowed"
                             /\ m.by \in {"confirm", "blind"}
    BY <1>14 DEF PostReply
  <2>4. \A d \in k.drained : Backed(d[1])' \/ d[1] \in mistaken'
    BY <1>a, <1>v DEF Consented, ClicksBacked, Backed
  <2>5. PostsBacked'
    BY <1>c, <2>2, <2>3, <2>4 DEF Heard
  <2>. QED BY <1>14, <1>a, <1>d, <1>r, <2>5 DEF PostReply, Consented
<1>15. ASSUME NEW m \in posts \cup acked,
              PostApplied(m) \/ PostDelivered(m) \/ PostFails(m)
      PROVE  Consented'
  BY <1>15, <1>e DEF PostApplied, PostDelivered, PostFails
<1>16. CASE UNCHANGED vars
  BY <1>16, <1>e DEF vars
<1>. QED BY Steps, <1>1, <1>2, <1>3, <1>4, <1>5, <1>6, <1>7, <1>8, <1>9, <1>10, <1>11, <1>12,
            <1>13, <1>14, <1>15, <1>16, Zenon

\* Why an asker may be told that it is allowed.
Allowable(p) ==
    \/ Backed(p)
    \/ p \in Approvals /\ \E a \in Approvals : Kind(a) = Kind(p) /\ <<a, 1>> \in approved

\* With consent behind every answer under way, every step keeps
\* AllowedOnlyIfApproved.
LEMMA AllowedStep ==
    ASSUME TypeOK, Consented, AllowedOnlyIfApproved, [Next]_vars
    PROVE  AllowedOnlyIfApproved'
<1>. USE DEF queue, buffers, stamps, consent, reader, replies, accidents
<1>a. /\ approved \subseteq approved' /\ blessed \subseteq blessed'
      /\ memory \subseteq memory' /\ mistaken \subseteq mistaken'
  BY ConsentGrows
<1>. SUFFICES ASSUME NEW a \in Prompts \ Elicitations, a \notin mistaken, wait'[a] = "allowed"
     PROVE  Allowable(a)'
  BY <1>a DEF AllowedOnlyIfApproved, Allowable, Backed
<1>b. (Backed(a) => Backed(a)') /\ (Allowable(a) => Allowable(a)')
  BY <1>a DEF Backed, Allowable, Covered
<1>c. ASSUME wait[a] = "allowed" PROVE Allowable(a)'
  BY <1>b, <1>c DEF AllowedOnlyIfApproved, Allowable, Backed
<1>d. ASSUME wait' = wait PROVE Allowable(a)'
  BY <1>c, <1>d
<1>1. ASSUME NEW p \in Prompts,
             \/ Ask(p) \/ RequestElicitation(p) \/ ApprovalTimesOut(p)
      PROVE  Allowable(a)'
  BY <1>1, <1>c DEF Ask, RequestElicitation, ApprovalTimesOut, TypeOK
<1>2. ASSUME NEW p \in Prompts, AskAgain(p) \/ ApprovalCleansUp(p)
      PROVE  Allowable(a)'
  BY <1>2, <1>d DEF AskAgain, ApprovalCleansUp
<1>3. ASSUME NEW p \in Prompts, RequestApproval(p)
      PROVE  Allowable(a)'
  <2>1. a = p \/ wait[a] = "allowed"
    BY <1>3 DEF RequestApproval, TypeOK
  <2>2. a = p => Kind(a) \in memory /\ a \in Approvals
    BY <1>3 DEF RequestApproval, TypeOK
  <2>3. a = p => Allowable(a)
    BY <2>2 DEF Consented, Remembered, Allowable
  <2>. QED BY <1>b, <1>c, <2>1, <2>3
<1>4. ASSUME NEW p \in Prompts, NEW how \in {"allowed", "rejected"}, OtherClient(p, how)
      PROVE  Allowable(a)'
  <2>1. wait[a] = "allowed" \/ (a = p /\ how = "allowed")
    BY <1>4 DEF OtherClient, TypeOK
  <2>2. a = p /\ how = "allowed" => Allowable(a)'
    BY <1>4 DEF OtherClient, Backed, Allowable
  <2>. QED BY <1>c, <2>1, <2>2
<1>5. ASSUME NEW p \in Remote,
             AutoAccept(p) \/ PermissionAsked(p) \/ QuestionAsked(p) \/ Replied(p)
      PROVE  Allowable(a)'
  BY <1>5, <1>d DEF AutoAccept, PermissionAsked, QuestionAsked, Replied
<1>6. ASSUME QueueCard \/ StreamLost PROVE Allowable(a)'
  BY <1>6, <1>d DEF QueueCard, StreamLost
<1>7. ASSUME TimeoutReject \/ RejectPending
      PROVE  Allowable(a)'
  <2>1. wait[a] = "allowed"
    BY <1>7 DEF TimeoutReject, RejectPending, Told, TypeOK
  <2>. QED BY <1>c, <2>1
<1>8. ASSUME NEW c \in Calls,
             \/ SweepExpired(c) \/ RejectQuestion(c) \/ AnswerQuestion(c)
             \/ \E r \in Replies : ConfirmPermission(c, r) \/ ConfirmLocked(c, r)
      PROVE  Allowable(a)'
  BY <1>8, <1>d DEF SweepExpired, RejectQuestion, AnswerQuestion, ConfirmPermission,
                    ConfirmLocked
<1>9. ASSUME NEW c \in Calls, NEW r \in Replies, ConfirmLocal(c, r)
      PROVE  Allowable(a)'
  <2>1. wait[a] = "allowed" \/ (a = c[1] /\ r # "reject")
    BY <1>9 DEF ConfirmLocal, Told, TypeOK
  <2>2. ASSUME a = c[1], r # "reject" PROVE Allowable(a)'
    <3>1. c[1] \in Approvals /\ CallsOf(a) = {c}
      BY <1>9, <2>2, OneCall, Kinds DEF ConfirmLocal
    <3>2. r \in Offers(c)
      BY <1>9 DEF ConfirmLocal, Answer
    <3>3. r \in {"allow", "always"}
      BY <2>2, <3>1, <3>2, Kinds DEF Offers
    <3>. QED BY <1>9, <3>1, <3>3 DEF ConfirmLocal, Answer, Backed, Allowable
  <2>. QED BY <1>c, <2>1, <2>2
<1>10. ASSUME NEW k \in clicks, Bless(k) \/ Suppress(k) \/ PostReply(k)
       PROVE  Allowable(a)'
  BY <1>10, <1>d DEF Bless, Suppress, PostReply
<1>11. ASSUME NEW m \in posts \cup acked,
              PostApplied(m) \/ PostDelivered(m) \/ PostFails(m)
       PROVE  Allowable(a)'
  <2>1. wait' = wait \/ (m \in posts /\ Pending(m) /\ Apply(m))
    BY <1>11 DEF PostApplied, PostDelivered, PostFails
  <2>2. ASSUME m \in posts, Pending(m), Apply(m), wait[a] # "allowed" PROVE Allowable(a)
    <3>1. a = m.call[1] /\ m.reply = "allowed"
      BY <2>2 DEF Apply, TypeOK
    <3>2. Heard(m)
      BY <2>2 DEF Pending, Heard
    <3>. QED BY <2>2, <3>1, <3>2 DEF Consented, PostsBacked, Allowable
  <2>. QED BY <1>b, <1>c, <1>d, <2>1, <2>2
<1>12. CASE UNCHANGED vars
  BY <1>12, <1>d DEF vars
<1>. QED BY Steps, <1>1, <1>2, <1>3, <1>4, <1>5, <1>6, <1>7, <1>8, <1>9, <1>10, <1>11, <1>12,
            Zenon

\* Nothing is known about a prompt that was not asked.
AskedFirst ==
    /\ \A c \in cards \cup expiry \cup shown \cup replied : wait[c[1]] # "none"
    /\ \A p \in parked \cup closed : wait[p] # "none"
    /\ \A p \in Remote : wait[p] = "none" => ~Asked(p) /\ ~Reported(p)
    /\ \A c \in {handling, sweeping} : c # NoCall => wait[c[1]] # "none"
    /\ \A m \in posts \cup acked : wait[m.call[1]] # "none"
    /\ \A k \in clicks : \A c \in k.drained \cup {k.call} : wait[c[1]] # "none"

\* What the server reports as replied is no longer parked there.
ReportsTrue == \A p \in Remote : Reported(p) => wait[p] \notin {"none", "waiting"}

\* A blessing drains the queue once.
DrainsOnce == \A k \in clicks : k.at = "bless" => k.drained = {}

\* A buffered question has all its deadlines, and a waiting elicitation its
\* channel and its deadline.
Stamped ==
    /\ \A q \in parked \cap Questions : CallsOf(q) \subseteq expiry
    /\ \A p \in Elicitations : wait[p] = "waiting" => p \in parked /\ <<p, 1>> \in expiry

\* A waiting permission that counts as replied has a reply under way.
StampHonest ==
    \A p \in Permissions :
        <<p, 1>> \in replied /\ wait[p] = "waiting" /\ p \notin abandoned =>
            \/ \E m \in posts : m.call = <<p, 1>>
            \/ \E k \in clicks : <<p, 1>> \in k.drained

\* An answer is to a card that was shown, and only a permission's own event has
\* a card that is still to be queued.
SeenFirst ==
    /\ handling # NoCall => handling[1] \in Permissions
    /\ \A k \in clicks : k.call \in shown
    /\ \A m \in posts \cup acked : m.by = "confirm" => m.call \in shown

\* Somebody comes back to a waiting permission that was shown, and to one that
\* was not, unless its event was lost;
PermissionHeld ==
    \A p \in Permissions :
        wait[p] = "waiting" /\ p \notin abandoned =>
            \/ <<p, 1>> \notin shown /\ (Asked(p) \/ p \in missed)
            \/ handling = <<p, 1>> \/ <<p, 1>> \in cards
            \/ \E m \in posts : m.call = <<p, 1>>
            \/ \E k \in clicks : <<p, 1>> = k.call \/ <<p, 1>> \in k.drained

\* and the same for a waiting question.
QuestionHeld ==
    \A q \in Questions :
        wait[q] = "waiting" /\ q \notin abandoned =>
            \/ q \in parked
            \/ \E m \in posts : m.by \in {"answer", "dismiss"} /\ m.call[1] = q
            \/ q \notin closed /\ CallsOf(q) \cap shown = {} /\ (Asked(q) \/ q \in missed)

\* A prompt is asked once, and a reply that was lost stays lost.
LEMMA WaitMoves ==
    ASSUME TypeOK, [Next]_vars
    PROVE  /\ \A p \in Prompts :
                /\ wait[p] # "none" => wait'[p] # "none"
                /\ wait'[p] = "waiting" => \/ wait[p] = "waiting"
                                          \/ Ask(p) \/ RequestApproval(p) \/ RequestElicitation(p)
           /\ abandoned \subseteq abandoned'
<1>. USE DEF queue, buffers, stamps, consent, reader, replies, accidents
<1>. DEFINE Moves(p) == /\ wait[p] # "none" => wait'[p] # "none"
                        /\ wait'[p] = "waiting" => \/ wait[p] = "waiting"
                               \/ Ask(p) \/ RequestApproval(p) \/ RequestElicitation(p)
<1>a. ASSUME wait' = wait PROVE \A p \in Prompts : Moves(p)
  BY <1>a
<1>1. ASSUME NEW p \in Prompts, Ask(p) \/ RequestApproval(p) \/ RequestElicitation(p)
      PROVE  (\A r \in Prompts : Moves(r)) /\ abandoned' = abandoned
  <2>1. abandoned' = abandoned /\ wait[p] = "none"
    BY <1>1 DEF Ask, RequestApproval, RequestElicitation, Unasked
  <2>2. \A r \in Prompts : r # p => wait'[r] = wait[r]
    BY <1>1 DEF Ask, RequestApproval, RequestElicitation, TypeOK
  <2>. QED BY <1>1, <2>1, <2>2
<1>2. ASSUME NEW p \in Prompts,
             ApprovalTimesOut(p) \/ \E how \in {"allowed", "rejected"} : OtherClient(p, how)
      PROVE  (\A r \in Prompts : Moves(r)) /\ abandoned' = abandoned
  <2>1. abandoned' = abandoned /\ wait'[p] \in {"timedout", "allowed", "rejected"}
    BY <1>2 DEF ApprovalTimesOut, OtherClient, TypeOK
  <2>2. \A r \in Prompts : r # p => wait'[r] = wait[r]
    BY <1>2 DEF ApprovalTimesOut, OtherClient, TypeOK
  <2>. QED BY <2>1, <2>2
<1>3. ASSUME NEW p \in Prompts, AskAgain(p) \/ ApprovalCleansUp(p)
      PROVE  wait' = wait /\ abandoned' = abandoned
  BY <1>3 DEF AskAgain, ApprovalCleansUp
<1>4. ASSUME NEW p \in Remote,
             AutoAccept(p) \/ PermissionAsked(p) \/ QuestionAsked(p) \/ Replied(p)
      PROVE  wait' = wait /\ abandoned' = abandoned
  BY <1>4 DEF AutoAccept, PermissionAsked, QuestionAsked, Replied
<1>5. ASSUME QueueCard \/ StreamLost PROVE wait' = wait /\ abandoned' = abandoned
  BY <1>5 DEF QueueCard, StreamLost
<1>6. ASSUME TimeoutReject \/ RejectPending
      PROVE  (\A p \in Prompts : Moves(p)) /\ abandoned' = abandoned
  <2>1. abandoned' = abandoned
    BY <1>6 DEF TimeoutReject, RejectPending
  <2>2. \A p \in Prompts : wait'[p] = wait[p] \/ wait'[p] = "rejected"
    BY <1>6 DEF TimeoutReject, RejectPending, Told, TypeOK
  <2>. QED BY <2>1, <2>2
<1>7. ASSUME NEW c \in Calls,
             \/ SweepExpired(c) \/ RejectQuestion(c) \/ AnswerQuestion(c)
             \/ \E r \in Replies : ConfirmPermission(c, r) \/ ConfirmLocked(c, r)
      PROVE  wait' = wait /\ abandoned' = abandoned
  BY <1>7 DEF SweepExpired, RejectQuestion, AnswerQuestion, ConfirmPermission, ConfirmLocked
<1>8. ASSUME NEW c \in Calls, NEW r \in Replies, ConfirmLocal(c, r)
      PROVE  (\A p \in Prompts : Moves(p)) /\ abandoned' = abandoned
  <2>1. abandoned' = abandoned
    BY <1>8 DEF ConfirmLocal
  <2>2. \A p \in Prompts : wait'[p] = wait[p] \/ wait'[p] \in {"allowed", "rejected"}
    BY <1>8 DEF ConfirmLocal, Told, TypeOK
  <2>. QED BY <2>1, <2>2
<1>9. ASSUME NEW k \in clicks, Bless(k) \/ Suppress(k) \/ PostReply(k)
      PROVE  wait' = wait /\ abandoned \subseteq abandoned'
  BY <1>9 DEF Bless, Suppress, PostReply
<1>10. ASSUME NEW m \in posts \cup acked,
              PostApplied(m) \/ PostDelivered(m) \/ PostFails(m)
       PROVE  (\A p \in Prompts : Moves(p)) /\ abandoned \subseteq abandoned'
  <2>1. abandoned \subseteq abandoned'
    BY <1>10 DEF PostApplied, PostDelivered, PostFails
  <2>2. wait' = wait \/ wait' = [wait EXCEPT ![m.call[1]] = m.reply]
    BY <1>10 DEF PostApplied, PostDelivered, PostFails, Apply
  <2>3. m.reply \in {"allowed", "rejected"}
    BY PostFields DEF TypeOK
  <2>4. \A p \in Prompts : wait'[p] = wait[p] \/ wait'[p] \in {"allowed", "rejected"}
    BY <2>2, <2>3 DEF TypeOK
  <2>. QED BY <2>1, <2>4
<1>11. CASE UNCHANGED vars
  BY <1>11 DEF vars
<1>. QED BY Steps, <1>a, <1>1, <1>2, <1>3, <1>4, <1>5, <1>6, <1>7, <1>8, <1>9, <1>10, <1>11,
            Zenon

\* What was shown stays known, and what was missed too.
LEMMA SeenGrows ==
    ASSUME [Next]_vars
    PROVE  shown \subseteq shown' /\ missed \subseteq missed'
<1>. USE DEF queue, buffers, stamps, consent, reader, replies, accidents
<1>1. ASSUME NEW p \in Prompts,
             \/ Ask(p) \/ AskAgain(p) \/ RequestApproval(p) \/ RequestElicitation(p)
             \/ ApprovalTimesOut(p) \/ ApprovalCleansUp(p)
             \/ \E how \in {"allowed", "rejected"} : OtherClient(p, how)
      PROVE  shown \subseteq shown' /\ missed \subseteq missed'
  BY <1>1 DEF Ask, AskAgain, RequestApproval, RequestElicitation, ApprovalTimesOut,
              ApprovalCleansUp, OtherClient, Show
<1>2. ASSUME NEW p \in Remote,
             AutoAccept(p) \/ PermissionAsked(p) \/ QuestionAsked(p) \/ Replied(p)
      PROVE  shown \subseteq shown' /\ missed \subseteq missed'
  BY <1>2 DEF AutoAccept, PermissionAsked, QuestionAsked, Replied, Show
<1>3. ASSUME QueueCard \/ TimeoutReject \/ StreamLost \/ RejectPending \/ UNCHANGED vars
      PROVE  shown \subseteq shown' /\ missed \subseteq missed'
  BY <1>3 DEF QueueCard, TimeoutReject, StreamLost, RejectPending, Show, vars
<1>4. ASSUME NEW c \in Calls,
             \/ SweepExpired(c) \/ RejectQuestion(c) \/ AnswerQuestion(c)
             \/ \E r \in Replies : \/ ConfirmLocal(c, r) \/ ConfirmPermission(c, r)
                                   \/ ConfirmLocked(c, r)
      PROVE  shown \subseteq shown' /\ missed \subseteq missed'
  BY <1>4 DEF SweepExpired, RejectQuestion, AnswerQuestion, ConfirmLocal, ConfirmPermission,
              ConfirmLocked
<1>5. ASSUME NEW k \in clicks, Bless(k) \/ Suppress(k) \/ PostReply(k)
      PROVE  shown \subseteq shown' /\ missed \subseteq missed'
  BY <1>5 DEF Bless, Suppress, PostReply
<1>6. ASSUME NEW m \in posts \cup acked,
              PostApplied(m) \/ PostDelivered(m) \/ PostFails(m)
      PROVE  shown \subseteq shown' /\ missed \subseteq missed'
  BY <1>6 DEF PostApplied, PostDelivered, PostFails, Show
<1>. QED BY Steps, <1>1, <1>2, <1>3, <1>4, <1>5, <1>6

\* Every step keeps SeenFirst.
LEMMA SeenFirstStep ==
    ASSUME TypeOK, SeenFirst, [Next]_vars
    PROVE  SeenFirst'
<1>. USE DEF queue, buffers, stamps, consent, reader, replies, accidents
<1>a. shown \subseteq shown'
  BY SeenGrows
<1>b. ASSUME handling' # NoCall => handling'[1] \in Permissions,
             \A k \in clicks' : k \in clicks \/ k.call \in shown,
             \A m \in posts' \cup acked' :
                 m \in posts \cup acked \/ m.by # "confirm" \/ m.call \in shown
      PROVE  SeenFirst'
  BY <1>a, <1>b DEF SeenFirst
<1>c. handling' = handling => (handling' # NoCall => handling'[1] \in Permissions)
  BY DEF SeenFirst
<1>1. ASSUME NEW p \in Prompts,
             \/ Ask(p) \/ AskAgain(p) \/ RequestApproval(p) \/ RequestElicitation(p)
             \/ ApprovalTimesOut(p) \/ ApprovalCleansUp(p)
             \/ \E how \in {"allowed", "rejected"} : OtherClient(p, how)
      PROVE  SeenFirst'
  BY <1>1, <1>b, <1>c DEF Ask, AskAgain, RequestApproval, RequestElicitation, ApprovalTimesOut,
                          ApprovalCleansUp, OtherClient
<1>2. ASSUME NEW p \in Remote, QuestionAsked(p) \/ Replied(p) PROVE SeenFirst'
  BY <1>2, <1>b, <1>c DEF QuestionAsked, Replied
<1>3. ASSUME NEW p \in Remote, PermissionAsked(p) PROVE SeenFirst'
  BY <1>3, <1>b DEF PermissionAsked
<1>4. ASSUME NEW p \in Remote, AutoAccept(p) PROVE SeenFirst'
  <2>1. \A m \in posts' \cup acked' : m \in posts \cup acked \/ m.by = "auto"
    BY <1>4 DEF AutoAccept
  <2>. QED BY <1>4, <1>b, <1>c, <2>1 DEF AutoAccept
<1>5. ASSUME QueueCard PROVE SeenFirst'
  BY <1>5, <1>b DEF QueueCard
<1>6. ASSUME TimeoutReject PROVE SeenFirst'
  <2>1. \A m \in posts' \cup acked' : m \in posts \cup acked \/ m.by \in {"dismiss", "auto"}
    BY <1>6 DEF TimeoutReject
  <2>. QED BY <1>6, <1>b, <1>c, <2>1 DEF TimeoutReject
<1>7. ASSUME RejectPending PROVE SeenFirst'
  <2>1. \A m \in posts' \cup acked' : m \in posts \cup acked \/ m.by \in {"dismiss", "auto"}
    BY <1>7 DEF RejectPending
  <2>. QED BY <1>7, <1>b, <1>c, <2>1 DEF RejectPending
<1>8. ASSUME StreamLost \/ UNCHANGED vars PROVE SeenFirst'
  BY <1>8, <1>b, <1>c DEF StreamLost, vars
<1>9. ASSUME NEW c \in Calls,
             SweepExpired(c) \/ \E r \in Replies : ConfirmLocal(c, r)
      PROVE  SeenFirst'
  BY <1>9, <1>b, <1>c DEF SweepExpired, ConfirmLocal
<1>10. ASSUME NEW c \in Calls, RejectQuestion(c) \/ AnswerQuestion(c) PROVE SeenFirst'
  <2>1. \A m \in posts' \cup acked' : m \in posts \cup acked \/ m.by \in {"dismiss", "answer"}
    BY <1>10 DEF RejectQuestion, AnswerQuestion
  <2>. QED BY <1>10, <1>b, <1>c, <2>1 DEF RejectQuestion, AnswerQuestion
<1>11. ASSUME NEW c \in Calls, NEW r \in Replies,
              ConfirmPermission(c, r) \/ ConfirmLocked(c, r)
       PROVE  SeenFirst'
  <2>1. c \in shown /\ \A k \in clicks' : k \in clicks \/ k.call = c
    BY <1>11 DEF ConfirmPermission, ConfirmLocked, Answer
  <2>. QED BY <1>11, <1>b, <1>c, <2>1 DEF ConfirmPermission, ConfirmLocked
<1>12. ASSUME NEW k \in clicks, Bless(k) PROVE SeenFirst'
  <2>1. \A n \in clicks' : n \in clicks \/ n.call = k.call
    BY <1>12, BlessEffect
  <2>2. k.call \in shown
    BY DEF SeenFirst
  <2>. QED BY <1>12, <1>b, <1>c, <2>1, <2>2 DEF Bless
<1>13. ASSUME NEW k \in clicks, Suppress(k) PROVE SeenFirst'
  BY <1>13, <1>b, <1>c DEF Suppress
<1>14. ASSUME NEW k \in clicks, PostReply(k) PROVE SeenFirst'
  <2>1. \A m \in posts' \cup acked' : m \in posts \cup acked \/ m.by = "auto" \/ m.call = k.call
    BY <1>14 DEF PostReply
  <2>2. k.call \in shown
    BY DEF SeenFirst
  <2>. QED BY <1>14, <1>b, <1>c, <2>1, <2>2 DEF PostReply
<1>15. ASSUME NEW m \in posts \cup acked,
              PostApplied(m) \/ PostDelivered(m) \/ PostFails(m)
       PROVE  SeenFirst'
  <2>1. posts' \cup acked' \subseteq posts \cup acked
    BY <1>15 DEF PostApplied, PostDelivered, PostFails
  <2>. QED BY <1>15, <1>b, <1>c, <2>1 DEF PostApplied, PostDelivered, PostFails
<1>. QED BY Steps, <1>1, <1>2, <1>3, <1>4, <1>5, <1>6, <1>7, <1>8, <1>9, <1>10, <1>11, <1>12,
            <1>13, <1>14, <1>15, Zenon

\* Every step keeps ReportsTrue.
LEMMA ReportsTrueStep ==
    ASSUME TypeOK, ReportsTrue, [Next]_vars
    PROVE  ReportsTrue'
<1>. USE DEF queue, buffers, stamps, consent, reader, replies, accidents
<1>. SUFFICES ASSUME NEW r \in Remote, Reported(r)' PROVE wait'[r] \notin {"none", "waiting"}
  BY DEF ReportsTrue
<1>a. ASSUME Reported(r) PROVE wait'[r] \notin {"none", "waiting"}
  <2>1. wait[r] \notin {"none", "waiting"} /\ r \in Prompts
    BY <1>a, Kinds DEF ReportsTrue
  <2>2. ~Ask(r) /\ ~RequestApproval(r) /\ ~RequestElicitation(r)
    BY <2>1 DEF Ask, RequestApproval, RequestElicitation, Unasked
  <2>. QED BY <2>1, <2>2, WaitMoves
<1>b. ASSUME news' = news PROVE wait'[r] \notin {"none", "waiting"}
  BY <1>a, <1>b DEF Reported
<1>1. ASSUME NEW p \in Prompts, Ask(p) PROVE wait'[r] \notin {"none", "waiting"}
  <2>1. r # p => news'[r] = news[r]
    BY <1>1 DEF Ask, TypeOK
  <2>2. r # p
    <3>1. ASSUME r = p PROVE news'[r] = <<"asked">>
      BY <1>1, <3>1 DEF Ask, TypeOK
    <3>2. ~\E i \in DOMAIN <<"asked">> : <<"asked">>[i] = "replied"
      OBVIOUS
    <3>. QED BY <3>1, <3>2 DEF Reported
  <2>. QED BY <1>a, <2>1, <2>2 DEF Reported
<1>2. ASSUME NEW p \in Prompts, AskAgain(p) PROVE wait'[r] \notin {"none", "waiting"}
  BY <1>2, <1>a, SendOne DEF AskAgain
<1>3. ASSUME NEW p \in Prompts, NEW how \in {"allowed", "rejected"}, OtherClient(p, how)
      PROVE  wait'[r] \notin {"none", "waiting"}
  <2>1. Reported(r) \/ r = p
    BY <1>3, SendOne DEF OtherClient
  <2>2. wait'[p] = how
    BY <1>3 DEF OtherClient, TypeOK
  <2>. QED BY <1>a, <2>1, <2>2
<1>4. ASSUME NEW p \in Prompts,
             \/ RequestApproval(p) \/ RequestElicitation(p) \/ ApprovalTimesOut(p)
             \/ ApprovalCleansUp(p)
      PROVE  wait'[r] \notin {"none", "waiting"}
  BY <1>4, <1>b DEF RequestApproval, RequestElicitation, ApprovalTimesOut, ApprovalCleansUp
<1>5. ASSUME NEW p \in Remote,
             AutoAccept(p) \/ PermissionAsked(p) \/ QuestionAsked(p) \/ Replied(p)
      PROVE  wait'[r] \notin {"none", "waiting"}
  BY <1>5, <1>a, ReadOne DEF AutoAccept, PermissionAsked, QuestionAsked, Replied
<1>6. ASSUME QueueCard \/ TimeoutReject \/ RejectPending
      PROVE  wait'[r] \notin {"none", "waiting"}
  BY <1>6, <1>b DEF QueueCard, TimeoutReject, RejectPending
<1>7. ASSUME NEW c \in Calls,
             \/ SweepExpired(c) \/ RejectQuestion(c) \/ AnswerQuestion(c)
             \/ \E x \in Replies : \/ ConfirmLocal(c, x) \/ ConfirmPermission(c, x)
                                   \/ ConfirmLocked(c, x)
      PROVE  wait'[r] \notin {"none", "waiting"}
  BY <1>7, <1>b DEF SweepExpired, RejectQuestion, AnswerQuestion, ConfirmLocal,
                    ConfirmPermission, ConfirmLocked
<1>8. ASSUME NEW k \in clicks, Bless(k) \/ Suppress(k) \/ PostReply(k)
      PROVE  wait'[r] \notin {"none", "waiting"}
  BY <1>8, <1>b DEF Bless, Suppress, PostReply
<1>9. ASSUME NEW m \in posts \cup acked,
              PostApplied(m) \/ PostDelivered(m) \/ PostFails(m)
      PROVE  wait'[r] \notin {"none", "waiting"}
  <2>1. news' = news \/ (Pending(m) /\ Apply(m))
    BY <1>9 DEF PostApplied, PostDelivered, PostFails
  <2>2. ASSUME Pending(m), Apply(m) PROVE wait'[r] \notin {"none", "waiting"}
    <3>1. m.call[1] \in Remote /\ m.reply \in {"allowed", "rejected"}
      BY <2>2, PostFields DEF TypeOK
    <3>2. Reported(r) \/ r = m.call[1]
      BY <2>2, <3>1, SendOne DEF Apply
    <3>3. wait'[m.call[1]] = m.reply
      BY <2>2, <3>1, Kinds DEF Apply, TypeOK
    <3>. QED BY <1>a, <3>1, <3>2, <3>3
  <2>. QED BY <1>b, <2>1, <2>2
<1>10. CASE UNCHANGED vars
  BY <1>10, <1>b DEF vars
<1>11. ASSUME StreamLost PROVE wait'[r] \notin {"none", "waiting"}
  <2>1. news'[r] = <<>>
    BY <1>11 DEF StreamLost
  <2>. QED BY <2>1 DEF Reported
<1>. QED BY Steps, <1>1, <1>2, <1>3, <1>4, <1>5, <1>6, <1>7, <1>8, <1>9, <1>10, <1>11, Zenon

\* Every step keeps AskedFirst.
LEMMA AskedFirstStep ==
    ASSUME TypeOK, AskedFirst, [Next]_vars
    PROVE  AskedFirst'
<1>. USE DEF queue, buffers, stamps, consent, reader, replies, accidents
<1>a. \A p \in Prompts : wait[p] # "none" => wait'[p] # "none"
  BY WaitMoves
<1>b. /\ \A c \in cards \cup expiry \cup shown \cup replied : wait'[c[1]] # "none"
      /\ \A p \in parked \cup closed : wait'[p] # "none"
      /\ \A c \in {handling, sweeping} : c # NoCall => wait'[c[1]] # "none"
  BY <1>a, CallFacts, Kinds DEF AskedFirst, TypeOK
<1>c. \A m \in posts \cup acked : wait'[m.call[1]] # "none"
  BY <1>a, PostFields DEF AskedFirst, TypeOK
<1>d. \A k \in clicks : \A c \in k.drained \cup {k.call} : wait'[c[1]] # "none"
  BY <1>a, ClickFields, CallFacts DEF AskedFirst, TypeOK
<1>e. ASSUME news' = news
      PROVE  \A p \in Remote : wait'[p] = "none" => ~Asked(p)' /\ ~Reported(p)'
  BY <1>a, <1>e, Kinds DEF AskedFirst, Asked, Reported
<1>1. ASSUME NEW p \in Prompts, Ask(p) PROVE AskedFirst'
  <2>1. /\ p \in Remote /\ wait'[p] = "waiting"
        /\ \A r \in Remote : r # p => news'[r] = news[r] /\ wait'[r] = wait[r]
    BY <1>1, Kinds DEF Ask, TypeOK
  <2>2. \A r \in Remote : wait'[r] = "none" => ~Asked(r)' /\ ~Reported(r)'
    BY <2>1 DEF AskedFirst, Asked, Reported
  <2>. QED BY <1>1, <1>b, <1>c, <1>d, <2>2 DEF Ask, AskedFirst
<1>2. ASSUME NEW p \in Prompts,
             AskAgain(p) \/ \E how \in {"allowed", "rejected"} : OtherClient(p, how)
      PROVE  AskedFirst'
  <2>1. p \in Remote /\ wait[p] = "waiting"
    BY <1>2 DEF AskAgain, OtherClient
  <2>2. \A r \in Remote : r # p => news'[r] = news[r]
    BY <1>2 DEF AskAgain, OtherClient, TypeOK
  <2>3. \A r \in Remote : wait'[r] = "none" => ~Asked(r)' /\ ~Reported(r)'
    BY <1>a, <2>1, <2>2, Kinds DEF AskedFirst, Asked, Reported
  <2>. QED BY <1>2, <1>b, <1>c, <1>d, <2>3 DEF AskAgain, OtherClient, AskedFirst
<1>3. ASSUME NEW p \in Prompts, RequestApproval(p) \/ RequestElicitation(p) PROVE AskedFirst'
  <2>1. wait'[p] # "none" /\ news' = news
    BY <1>3 DEF RequestApproval, RequestElicitation, TypeOK
  <2>2. \A c \in {<<p, 1>>} : wait'[c[1]] # "none"
    BY <2>1
  <2>. QED BY <1>3, <1>b, <1>c, <1>d, <1>e, <2>1, <2>2
           DEF RequestApproval, RequestElicitation, Show, AskedFirst
<1>4. ASSUME NEW p \in Prompts, ApprovalTimesOut(p) \/ ApprovalCleansUp(p) PROVE AskedFirst'
  BY <1>4, <1>b, <1>c, <1>d, <1>e DEF ApprovalTimesOut, ApprovalCleansUp, AskedFirst
<1>f. ASSUME NEW p \in Remote, NEW e \in {"asked", "replied"}, Receives(p, e)
      PROVE  /\ wait'[p] # "none"
             /\ \A c \in CallsOf(p) : wait'[c[1]] # "none"
             /\ <<p, 1>> \in CallsOf(p)
             /\ \A r \in Remote : wait'[r] = "none" => ~Asked(r)' /\ ~Reported(r)'
  <2>1. Asked(p) \/ Reported(p)
    <3>1. news[p] \in Seq({"asked", "replied"}) /\ news[p] # <<>> /\ Head(news[p]) = e
      BY <1>f DEF Receives, TypeOK
    <3>2. 1 \in DOMAIN news[p] /\ news[p][1] = e
      BY <3>1
    <3>. QED BY <3>2 DEF Asked, Reported
  <2>2. wait'[p] # "none"
    BY <1>a, <2>1, Kinds DEF AskedFirst
  <2>3. \A c \in CallsOf(p) : c[1] = p
    BY CallFacts, Kinds
  <2>4. <<p, 1>> \in CallsOf(p)
    BY CallFacts, Kinds
  <2>5. \A r \in Remote : wait'[r] = "none" => ~Asked(r)' /\ ~Reported(r)'
    BY <1>a, <1>f, ReadOne, Kinds DEF AskedFirst
  <2>. QED BY <2>2, <2>3, <2>4, <2>5
<1>5. ASSUME NEW p \in Remote, AutoAccept(p) PROVE AskedFirst'
  <2>1. \A m \in posts' \cup acked' : m \in posts \cup acked \/ m.call = <<p, 1>>
    BY <1>5 DEF AutoAccept
  <2>2. \A m \in posts' \cup acked' : wait'[m.call[1]] # "none"
    BY <1>5, <1>c, <1>f, <2>1 DEF AutoAccept
  <2>. QED BY <1>5, <1>b, <1>d, <1>f, <2>2 DEF AutoAccept, AskedFirst
<1>6. ASSUME NEW p \in Remote, PermissionAsked(p) PROVE AskedFirst'
  BY <1>6, <1>b, <1>c, <1>d, <1>f DEF PermissionAsked, AskedFirst
<1>7. ASSUME NEW p \in Remote, QuestionAsked(p) PROVE AskedFirst'
  BY <1>7, <1>b, <1>c, <1>d, <1>f DEF QuestionAsked, Show, AskedFirst
<1>8. ASSUME NEW p \in Remote, Replied(p) PROVE AskedFirst'
  BY <1>8, <1>b, <1>c, <1>d, <1>f DEF Replied, AskedFirst
<1>9. ASSUME QueueCard PROVE AskedFirst'
  BY <1>9, <1>b, <1>c, <1>d, <1>e DEF QueueCard, Show, AskedFirst
<1>10. ASSUME TimeoutReject PROVE AskedFirst'
  <2>1. wait'[sweeping[1]] # "none" /\ sweeping # NoCall
    BY <1>10, <1>b DEF TimeoutReject
  <2>2. /\ cards' \subseteq cards /\ expiry' \subseteq expiry /\ shown' = shown
        /\ replied' \subseteq replied \cup {sweeping} /\ parked' \subseteq parked
        /\ closed' \subseteq closed \cup {sweeping[1]} /\ news' = news /\ clicks' = clicks
        /\ handling' = handling /\ sweeping' = NoCall
    BY <1>10 DEF TimeoutReject
  <2>3. \A m \in posts' \cup acked' : m \in posts \cup acked \/ m.call = sweeping
    BY <1>10 DEF TimeoutReject
  <2>. QED BY <1>b, <1>c, <1>d, <1>e, <2>1, <2>2, <2>3 DEF AskedFirst
<1>11. ASSUME RejectPending PROVE AskedFirst'
  <2>1. \A m \in posts' \cup acked' :
            m \in posts \cup acked \/ m.call \in cards \/ m.call[1] \in parked
    BY <1>11 DEF RejectPending
  <2>. QED BY <1>11, <1>b, <1>c, <1>d, <1>e, <2>1 DEF RejectPending, AskedFirst
<1>12. ASSUME NEW c \in Calls, SweepExpired(c) PROVE AskedFirst'
  BY <1>12, <1>b, <1>c, <1>d, <1>e DEF SweepExpired, AskedFirst
<1>13. ASSUME NEW c \in Calls, RejectQuestion(c) \/ AnswerQuestion(c) PROVE AskedFirst'
  <2>1. c \in shown
    BY <1>13 DEF RejectQuestion, AnswerQuestion, Answer
  <2>2. \A m \in posts' \cup acked' : m \in posts \cup acked \/ m.call = c
    BY <1>13 DEF RejectQuestion, AnswerQuestion
  <2>3. parked' \cup closed' \subseteq parked \cup closed \cup {c[1]} /\ cards' \subseteq cards
    BY <1>13 DEF RejectQuestion, AnswerQuestion
  <2>. QED BY <1>13, <1>b, <1>c, <1>d, <1>e, <2>1, <2>2, <2>3
           DEF RejectQuestion, AnswerQuestion, AskedFirst
<1>14. ASSUME NEW c \in Calls, NEW r \in Replies, ConfirmLocal(c, r) PROVE AskedFirst'
  BY <1>14, <1>b, <1>c, <1>d, <1>e DEF ConfirmLocal, AskedFirst
<1>15. ASSUME NEW c \in Calls, NEW r \in Replies,
              ConfirmPermission(c, r) \/ ConfirmLocked(c, r)
       PROVE  AskedFirst'
  <2>1. c \in shown
    BY <1>15 DEF ConfirmPermission, ConfirmLocked, Answer
  <2>2. \A k \in clicks' : k \in clicks \/ (k.call = c /\ k.drained = {})
    BY <1>15 DEF ConfirmPermission, ConfirmLocked
  <2>. QED BY <1>15, <1>b, <1>c, <1>d, <1>e, <2>1, <2>2
           DEF ConfirmPermission, ConfirmLocked, AskedFirst
<1>16. ASSUME NEW k \in clicks, Bless(k) PROVE AskedFirst'
  <2>2. \A n \in clicks' : n \in clicks \/ (n.call = k.call /\ n.drained \subseteq cards)
    BY <1>16, BlessEffect
  <2>3. cards' \subseteq cards /\ replied' \subseteq replied \cup cards
    BY <1>16, BlessEffect
  <2>. QED BY <1>16, <1>b, <1>c, <1>d, <1>e, <2>2, <2>3 DEF Bless, AskedFirst
<1>17. ASSUME NEW k \in clicks, Suppress(k) PROVE AskedFirst'
  BY <1>17, <1>b, <1>c, <1>d, <1>e DEF Suppress, AskedFirst
<1>18. ASSUME NEW k \in clicks, PostReply(k) PROVE AskedFirst'
  <2>1. \A m \in posts' \cup acked' :
            m \in posts \cup acked \/ m.call = k.call \/ m.call \in k.drained
    BY <1>18 DEF PostReply
  <2>. QED BY <1>18, <1>b, <1>c, <1>d, <1>e, <2>1 DEF PostReply, AskedFirst
<1>19. ASSUME NEW m \in posts \cup acked,
              PostApplied(m) \/ PostDelivered(m) \/ PostFails(m)
       PROVE  AskedFirst'
  <2>1. /\ cards' \cup shown' \subseteq cards \cup shown \cup {m.call}
        /\ replied' \subseteq replied /\ closed' \subseteq closed
        /\ posts' \cup acked' \subseteq posts \cup acked
        /\ UNCHANGED <<expiry, buffers, reader, clicks>>
    BY <1>19 DEF PostApplied, PostDelivered, PostFails, Show
  <2>2. \A r \in Remote : wait'[r] = "none" => ~Asked(r)' /\ ~Reported(r)'
    <3>1. news' = news \/ (Pending(m) /\ Apply(m))
      BY <1>19 DEF PostApplied, PostDelivered, PostFails
    <3>2. ASSUME Pending(m), Apply(m), NEW r \in Remote, wait'[r] = "none"
          PROVE  news'[r] = news[r] /\ wait[r] = "none"
      <4>1. wait[m.call[1]] = "waiting"
        BY <3>2 DEF Pending
      <4>2. wait[r] = "none"
        BY <1>a, <3>2, Kinds
      <4>. QED BY <3>2, <4>1, <4>2 DEF Apply, TypeOK
    <3>. QED BY <1>e, <3>1, <3>2 DEF AskedFirst, Asked, Reported
  <2>. QED BY <1>b, <1>c, <1>d, <2>1, <2>2 DEF AskedFirst
<1>20. CASE UNCHANGED vars
  BY <1>20, <1>b, <1>c, <1>d, <1>e DEF vars, AskedFirst
<1>21. ASSUME StreamLost PROVE AskedFirst'
  <2>1. \A r \in Remote : news'[r] = <<>>
    BY <1>21 DEF StreamLost
  <2>2. \A r \in Remote : ~Asked(r)' /\ ~Reported(r)'
    BY <2>1 DEF Asked, Reported
  <2>. QED BY <1>21, <1>b, <1>c, <1>d, <2>2 DEF StreamLost, AskedFirst
<1>. QED BY Steps, <1>1, <1>2, <1>3, <1>4, <1>5, <1>6, <1>7, <1>8, <1>9, <1>10, <1>11, <1>12,
            <1>13, <1>14, <1>15, <1>16, <1>17, <1>18, <1>19, <1>20, <1>21, Zenon

\* Every step keeps DrainsOnce.
LEMMA DrainsOnceStep ==
    ASSUME TypeOK, DrainsOnce, [Next]_vars
    PROVE  DrainsOnce'
<1>1. ASSUME NEW c \in Calls, NEW r \in Replies,
             ConfirmPermission(c, r) \/ ConfirmLocked(c, r)
      PROVE  \A k \in clicks' : k \in clicks \/ k.drained = {}
  BY <1>1 DEF ConfirmPermission, ConfirmLocked
<1>2. ASSUME NEW k \in clicks, Bless(k) PROVE \A n \in clicks' : n \in clicks \/ n.at = "dedup"
  BY <1>2, BlessEffect
<1>3. ASSUME NEW k \in clicks, Suppress(k) \/ PostReply(k) PROVE clicks' \subseteq clicks
  BY <1>3 DEF Suppress, PostReply
<1>4. ASSUME NEW p \in Prompts,
             \/ Ask(p) \/ AskAgain(p) \/ RequestApproval(p) \/ RequestElicitation(p)
             \/ ApprovalTimesOut(p) \/ ApprovalCleansUp(p)
             \/ \E how \in {"allowed", "rejected"} : OtherClient(p, how)
      PROVE  clicks' = clicks
  BY <1>4 DEF Ask, AskAgain, RequestApproval, RequestElicitation, ApprovalTimesOut,
              ApprovalCleansUp, OtherClient
<1>5. ASSUME NEW p \in Remote,
             AutoAccept(p) \/ PermissionAsked(p) \/ QuestionAsked(p) \/ Replied(p)
      PROVE  clicks' = clicks
  BY <1>5 DEF AutoAccept, PermissionAsked, QuestionAsked, Replied
<1>6. ASSUME QueueCard \/ TimeoutReject \/ StreamLost \/ RejectPending \/ UNCHANGED vars
      PROVE  clicks' = clicks
  BY <1>6 DEF QueueCard, TimeoutReject, StreamLost, RejectPending, vars
<1>7. ASSUME NEW c \in Calls,
             \/ SweepExpired(c) \/ RejectQuestion(c) \/ AnswerQuestion(c)
             \/ \E r \in Replies : ConfirmLocal(c, r)
      PROVE  clicks' = clicks
  BY <1>7 DEF SweepExpired, RejectQuestion, AnswerQuestion, ConfirmLocal
<1>8. ASSUME NEW m \in posts \cup acked,
              PostApplied(m) \/ PostDelivered(m) \/ PostFails(m)
      PROVE  clicks' = clicks
  BY <1>8 DEF PostApplied, PostDelivered, PostFails
<1>9. \A k \in clicks' : k \in clicks \/ k.drained = {} \/ k.at = "dedup"
  BY Steps, <1>1, <1>2, <1>3, <1>4, <1>5, <1>6, <1>7, <1>8
<1>. QED BY <1>9 DEF DrainsOnce

\* Every step keeps Stamped.
LEMMA StampedStep ==
    ASSUME TypeOK, Stamped, [Next]_vars
    PROVE  Stamped'
<1>. USE DEF queue, buffers, stamps, consent, reader, replies, accidents
<1>a. ASSUME NEW e \in Elicitations, wait'[e] = "waiting", ~RequestElicitation(e)
      PROVE  e \in parked /\ <<e, 1>> \in expiry /\ wait[e] = "waiting"
  <2>1. ~Ask(e) /\ ~RequestApproval(e) /\ e \in Prompts
    BY Kinds DEF Ask, RequestApproval
  <2>. QED BY <1>a, <2>1, WaitMoves DEF Stamped
<1>b. ASSUME parked' \cap Questions \subseteq parked, expiry \subseteq expiry',
             parked \cap Elicitations \subseteq parked',
             \A e \in Elicitations : ~RequestElicitation(e)
      PROVE  Stamped'
  <2>1. \A q \in parked' \cap Questions : CallsOf(q) \subseteq expiry'
    BY <1>b DEF Stamped
  <2>2. \A p \in Elicitations : wait'[p] = "waiting" => p \in parked' /\ <<p, 1>> \in expiry'
    BY <1>a, <1>b
  <2>. QED BY <2>1, <2>2 DEF Stamped
<1>c. ASSUME ~\E e \in Elicitations : RequestElicitation(e),
             parked' = parked, expiry \subseteq expiry'
      PROVE  Stamped'
  BY <1>b, <1>c
<1>1. ASSUME NEW p \in Prompts, RequestElicitation(p) PROVE Stamped'
  <2>1. \A q \in parked' \cap Questions : q \in parked
    BY <1>1, Kinds DEF RequestElicitation
  <2>2. \A q \in parked' \cap Questions : CallsOf(q) \subseteq expiry'
    BY <1>1, <2>1 DEF RequestElicitation, Stamped
  <2>3. ASSUME NEW e \in Elicitations, wait'[e] = "waiting", e # p
        PROVE  e \in parked /\ <<e, 1>> \in expiry
    <3>1. wait[e] = "waiting"
      BY <1>1, <2>3 DEF RequestElicitation, TypeOK
    <3>. QED BY <3>1 DEF Stamped
  <2>4. \A e \in Elicitations : wait'[e] = "waiting" => e \in parked' /\ <<e, 1>> \in expiry'
    BY <1>1, <2>3 DEF RequestElicitation
  <2>. QED BY <2>2, <2>4 DEF Stamped
<1>d. ASSUME \E e \in Elicitations : RequestElicitation(e) PROVE Stamped'
  BY <1>1, <1>d, Kinds
<1>. SUFFICES ASSUME ~\E e \in Elicitations : RequestElicitation(e) PROVE Stamped'
  BY <1>d
<1>2. ASSUME NEW p \in Prompts,
             \/ Ask(p) \/ AskAgain(p) \/ RequestApproval(p) \/ ApprovalTimesOut(p)
             \/ ApprovalCleansUp(p) \/ \E how \in {"allowed", "rejected"} : OtherClient(p, how)
      PROVE  Stamped'
  <2>1. expiry' = expiry
    BY <1>2 DEF Ask, AskAgain, RequestApproval, ApprovalTimesOut, ApprovalCleansUp, OtherClient
  <2>2. parked' = parked \/ (p \in Approvals /\ parked' \in {parked \cup {p}, parked \ {p}})
    BY <1>2 DEF Ask, AskAgain, RequestApproval, ApprovalTimesOut, ApprovalCleansUp, OtherClient,
                TypeOK
  <2>3. parked' \cap Questions \subseteq parked /\ parked \cap Elicitations \subseteq parked'
    BY <2>2, Kinds
  <2>. QED BY <1>b, <2>1, <2>3
<1>3. ASSUME NEW p \in Remote, AutoAccept(p) \/ PermissionAsked(p) PROVE Stamped'
  BY <1>3, <1>c DEF AutoAccept, PermissionAsked
<1>4. ASSUME NEW p \in Remote, QuestionAsked(p) PROVE Stamped'
  <2>1. /\ expiry \subseteq expiry' /\ parked \subseteq parked' /\ parked' \subseteq parked \cup {p}
        /\ p \in parked' \ parked => CallsOf(p) \subseteq expiry'
    BY <1>4 DEF QuestionAsked
  <2>2. \A q \in parked' \cap Questions : CallsOf(q) \subseteq expiry'
    BY <2>1 DEF Stamped
  <2>3. \A e \in Elicitations : wait'[e] = "waiting" => e \in parked' /\ <<e, 1>> \in expiry'
    BY <1>a, <2>1
  <2>. QED BY <2>2, <2>3 DEF Stamped
<1>5. ASSUME NEW p \in Remote, Replied(p) PROVE Stamped'
  <2>1. parked \cap Elicitations \subseteq parked' /\ parked' \subseteq parked /\ expiry' = expiry
    BY <1>5, Kinds DEF Replied
  <2>. QED BY <1>b, <2>1
<1>6. ASSUME QueueCard \/ StreamLost PROVE Stamped'
  BY <1>6, <1>c DEF QueueCard, StreamLost
<1>7. ASSUME TimeoutReject PROVE Stamped'
  <2>1. PICK free \in BOOLEAN :
          /\ wait' = IF free /\ sweeping[1] \in parked \cap (Approvals \cup Elicitations)
                     THEN Told(sweeping[1], "rejected") ELSE wait
          /\ parked' = IF free /\ (\/ sweeping[1] \in parked \cap (Approvals \cup Elicitations)
                                   \/ sweeping[1] \in Questions)
                       THEN parked \ {sweeping[1]} ELSE parked
          /\ expiry' = IF free THEN expiry \ {sweeping} ELSE expiry
    BY <1>7 DEF TimeoutReject
  <2>2. sweeping \in Calls /\ sweeping[1] \in Prompts
    BY <1>7, CallFacts DEF TimeoutReject, TypeOK
  <2>3. CASE ~free
    BY <1>c, <2>1, <2>3
  <2>4. CASE free
    <3>1. ASSUME NEW q \in parked' \cap Questions PROVE CallsOf(q) \subseteq expiry'
      <4>1. q # sweeping[1] /\ q \in parked
        BY <2>1, <2>4, <3>1
      <4>2. sweeping \notin CallsOf(q)
        BY <4>1, CallFacts, Kinds
      <4>. QED BY <2>1, <2>4, <4>1, <4>2 DEF Stamped
    <3>2. ASSUME NEW e \in Elicitations, wait'[e] = "waiting"
          PROVE  e \in parked' /\ <<e, 1>> \in expiry'
      <4>1. e \in parked /\ <<e, 1>> \in expiry /\ wait[e] = "waiting" /\ e \in Prompts
        BY <1>a, <3>2, Kinds
      <4>2. e # sweeping[1]
        BY <2>1, <2>4, <3>2, <4>1 DEF Told, TypeOK
      <4>3. <<e, 1>> # sweeping
        BY <4>2
      <4>. QED BY <2>1, <2>4, <4>1, <4>2, <4>3
    <3>. QED BY <3>1, <3>2 DEF Stamped
  <2>. QED BY <2>3, <2>4
<1>8. ASSUME RejectPending PROVE Stamped'
  <2>1. ASSUME NEW e \in Elicitations PROVE wait'[e] # "waiting"
    <3>1. ASSUME wait'[e] = "waiting" PROVE FALSE
      <4>1. e \in parked /\ wait[e] = "waiting" /\ e \in Prompts
        BY <1>a, <3>1, Kinds
      <4>. QED BY <1>8, <3>1, <4>1 DEF RejectPending, Told, TypeOK
    <3>. QED BY <3>1
  <2>. QED BY <1>8, <2>1 DEF RejectPending, Stamped
<1>9. ASSUME NEW c \in Calls,
             \/ SweepExpired(c)
             \/ \E r \in Replies : ConfirmPermission(c, r) \/ ConfirmLocked(c, r)
      PROVE  Stamped'
  BY <1>9, <1>c DEF SweepExpired, ConfirmPermission, ConfirmLocked
<1>10. ASSUME NEW c \in Calls, RejectQuestion(c) \/ AnswerQuestion(c) PROVE Stamped'
  <2>1. expiry' = expiry /\ parked' \subseteq parked /\ parked \subseteq parked' \cup {c[1]}
    BY <1>10 DEF RejectQuestion, AnswerQuestion
  <2>2. c[1] \in Questions
    BY <1>10 DEF RejectQuestion, AnswerQuestion
  <2>. QED BY <1>b, <2>1, <2>2, Kinds
<1>11. ASSUME NEW c \in Calls, NEW r \in Replies, ConfirmLocal(c, r) PROVE Stamped'
  <2>1. \A q \in parked' \cap Questions : CallsOf(q) \subseteq expiry'
    BY <1>11 DEF ConfirmLocal, Stamped
  <2>2. ASSUME NEW e \in Elicitations, wait'[e] = "waiting"
        PROVE  e \in parked' /\ <<e, 1>> \in expiry'
    <3>1. e \in parked /\ <<e, 1>> \in expiry /\ wait[e] = "waiting" /\ e \in Prompts
      BY <1>a, <2>2, Kinds
    <3>2. e # c[1]
      BY <1>11, <2>2, <3>1 DEF ConfirmLocal, Told, TypeOK
    <3>. QED BY <1>11, <3>1, <3>2 DEF ConfirmLocal
  <2>. QED BY <2>1, <2>2 DEF Stamped
<1>12. ASSUME NEW k \in clicks, Bless(k) \/ Suppress(k) \/ PostReply(k) PROVE Stamped'
  BY <1>12, <1>c DEF Bless, Suppress, PostReply
<1>13. ASSUME NEW m \in posts \cup acked,
              PostApplied(m) \/ PostDelivered(m) \/ PostFails(m)
       PROVE  Stamped'
  BY <1>13, <1>c DEF PostApplied, PostDelivered, PostFails
<1>14. CASE UNCHANGED vars
  BY <1>14, <1>c DEF vars
<1>. QED BY Steps, <1>1, <1>2, <1>3, <1>4, <1>5, <1>6, <1>7, <1>8, <1>9, <1>10, <1>11, <1>12,
            <1>13, <1>14, Zenon

\* The end of a reply to a permission that is still waiting afterwards: it was
\* lost, and either the card is back or the permission is given up.
LEMMA ReplyLost ==
    ASSUME TypeOK, NEW m \in posts \cup acked, PostApplied(m) \/ PostFails(m),
           NEW p \in Permissions, m.call = <<p, 1>>,
           wait[p] = "waiting", wait'[p] = "waiting", p \notin abandoned'
    PROVE  <<p, 1>> \in cards' /\ <<p, 1>> \notin replied'
<1>1. m.call[1] = p /\ p \in Prompts
  BY Kinds
<1>2. Pending(m)
  BY <1>1 DEF Pending
<1>3. m.reply \in {"allowed", "rejected"}
  BY PostFields DEF TypeOK
<1>4. ~Apply(m)
  BY <1>1, <1>3 DEF Apply, TypeOK
<1>5. PostFails(m) /\ Retry(m)
  BY <1>1, <1>2, <1>4 DEF PostApplied, PostFails
<1>. QED BY <1>5 DEF PostFails, Retry, Show

\* The replies a confirm posts.
LEMMA RepliesPosted ==
    ASSUME NEW k, PostReply(k), NEW d \in k.drained \cup {k.call}
    PROVE  \E m \in posts' : m.call = d
<1>1. CASE d \in k.drained
  <2>. DEFINE m == [call |-> d, reply |-> "allowed", by |-> "auto"]
  <2>1. m \in posts'
    BY <1>1 DEF PostReply
  <2>2. m.call = d
    OBVIOUS
  <2>. QED BY <2>1, <2>2
<1>2. CASE d = k.call
  <2>. DEFINE m == [call |-> k.call,
                    reply |-> IF k.reply = "reject" THEN "rejected" ELSE "allowed",
                    by |-> IF k.card THEN "confirm" ELSE "blind"]
  <2>1. m \in posts'
    BY DEF PostReply
  <2>2. m.call = d
    BY <1>2
  <2>. QED BY <2>1, <2>2
<1>. QED BY <1>1, <1>2

\* What the sweep of an expired prompt does to a prompt of the server.
LEMMA SweepEffect ==
    ASSUME TypeOK, TimeoutReject, sweeping[1] \in Remote
    PROVE  \/ UNCHANGED <<cards, parked, replied, closed>>
           \/ \E m \in posts' : /\ m.call = sweeping
                                /\ sweeping[1] \in Questions => m.by = "dismiss"
<1>1. PICK free \in BOOLEAN :
        /\ ~free => UNCHANGED <<cards, parked, replied, closed>>
        /\ free /\ sweeping[1] \notin parked \cap (Approvals \cup Elicitations) =>
             [call |-> sweeping, reply |-> "rejected",
              by |-> IF free /\ sweeping[1] \in Questions THEN "dismiss" ELSE "auto"] \in posts'
  BY DEF TimeoutReject
<1>2. CASE ~free
  BY <1>1, <1>2
<1>3. CASE free
  <2>. DEFINE m == [call |-> sweeping, reply |-> "rejected",
                    by |-> IF free /\ sweeping[1] \in Questions THEN "dismiss" ELSE "auto"]
  <2>1. m \in posts'
    BY <1>1, <1>3, Kinds DEF Remote
  <2>2. m.call = sweeping /\ (sweeping[1] \in Questions => m.by = "dismiss")
    BY <1>3
  <2>. QED BY <2>1, <2>2
<1>. QED BY <1>2, <1>3

\* The first event of p is the one that is read.
LEMMA HeadReported ==
    ASSUME TypeOK, NEW p \in Remote, Receives(p, "replied")
    PROVE  Reported(p)
<1>1. news[p] \in Seq({"asked", "replied"}) /\ news[p] # <<>> /\ Head(news[p]) = "replied"
  BY DEF Receives, TypeOK
<1>2. 1 \in DOMAIN news[p] /\ news[p][1] = "replied"
  BY <1>1
<1>. QED BY <1>2 DEF Reported

\* Every step keeps StampHonest.
LEMMA StampHonestStep ==
    ASSUME TypeOK, AskedFirst, ReportsTrue, DrainsOnce, StampHonest, [Next]_vars
    PROVE  StampHonest'
<1>. USE DEF queue, buffers, stamps, consent, reader, replies, accidents
<1>. SUFFICES ASSUME NEW p \in Permissions, <<p, 1>> \in replied', wait'[p] = "waiting",
                     p \notin abandoned'
              PROVE  \/ \E m \in posts' : m.call = <<p, 1>>
                     \/ \E k \in clicks' : <<p, 1>> \in k.drained
  BY DEF StampHonest
<1>. DEFINE c == <<p, 1>>
            Sent == (\E m \in posts' : m.call = c) \/ (\E k \in clicks' : c \in k.drained)
<1>a. p \in Prompts /\ p \in Remote /\ p \notin Questions /\ p \notin abandoned /\ c[1] = p
  BY WaitMoves, Kinds
<1>1. ASSUME NEW r \in Prompts, Ask(r) PROVE Sent
  <2>1. c \in replied /\ r # p
    BY <1>1, <1>a DEF Ask, Unasked, AskedFirst
  <2>2. wait[p] = "waiting"
    BY <1>1, <1>a, <2>1 DEF Ask, TypeOK
  <2>. QED BY <1>1, <1>a, <2>1, <2>2 DEF Ask, StampHonest
<1>b. wait[p] = "waiting" \/ Ask(p)
  <2>1. ~RequestApproval(p) /\ ~RequestElicitation(p)
    BY Kinds DEF RequestApproval, RequestElicitation
  <2>. QED BY <1>a, <2>1, WaitMoves
<1>. SUFFICES ASSUME wait[p] = "waiting" PROVE Sent
  BY <1>1, <1>a, <1>b
<1>c. ASSUME c \in replied
      PROVE  (\E m \in posts : m.call = c) \/ (\E k \in clicks : c \in k.drained)
  BY <1>a, <1>c DEF StampHonest
<1>d. ASSUME replied' = replied, posts \subseteq posts', clicks \subseteq clicks' PROVE Sent
  BY <1>c, <1>d
<1>2. ASSUME NEW r \in Prompts,
             \/ AskAgain(r) \/ RequestApproval(r) \/ RequestElicitation(r)
             \/ ApprovalTimesOut(r) \/ ApprovalCleansUp(r)
             \/ \E how \in {"allowed", "rejected"} : OtherClient(r, how)
      PROVE  Sent
  BY <1>2, <1>d DEF AskAgain, RequestApproval, RequestElicitation, ApprovalTimesOut,
                    ApprovalCleansUp, OtherClient
<1>3. ASSUME NEW r \in Remote, AutoAccept(r) PROVE Sent
  <2>1. [call |-> <<r, 1>>, reply |-> "allowed", by |-> "auto"] \in posts'
    BY <1>3 DEF AutoAccept
  <2>2. c = <<r, 1>> \/ c \in replied
    BY <1>3 DEF AutoAccept
  <2>3. CASE c = <<r, 1>>
    <3>. DEFINE m == [call |-> <<r, 1>>, reply |-> "allowed", by |-> "auto"]
    <3>1. m.call = c
      BY <2>3
    <3>. QED BY <2>1, <3>1
  <2>4. CASE c \in replied
    BY <1>3, <1>c, <2>4 DEF AutoAccept
  <2>. QED BY <2>2, <2>3, <2>4
<1>4. ASSUME NEW r \in Remote, PermissionAsked(r) \/ QuestionAsked(r) PROVE Sent
  BY <1>4, <1>d DEF PermissionAsked, QuestionAsked
<1>5. ASSUME NEW r \in Remote, Replied(r) PROVE Sent
  <2>1. Reported(r)
    BY <1>5, HeadReported DEF Replied
  <2>2. r # p
    BY <1>a, <2>1 DEF ReportsTrue
  <2>3. c \in replied
    BY <1>5, <2>2 DEF Replied
  <2>. QED BY <1>5, <1>c, <2>3 DEF Replied
<1>6. ASSUME QueueCard \/ StreamLost PROVE Sent
  BY <1>6, <1>d DEF QueueCard, StreamLost
<1>7. ASSUME TimeoutReject PROVE Sent
  <2>1. posts \subseteq posts' /\ clicks' = clicks /\ replied' \subseteq replied \cup {sweeping}
    BY <1>7 DEF TimeoutReject
  <2>2. c \notin replied => sweeping = c /\ \E m \in posts' : m.call = sweeping
    BY <1>7, <1>a, <2>1, SweepEffect
  <2>. QED BY <1>c, <2>1, <2>2
<1>8. ASSUME RejectPending PROVE Sent
  BY <1>8, <1>d DEF RejectPending
<1>9. ASSUME NEW x \in Calls,
             \/ SweepExpired(x) \/ RejectQuestion(x) \/ AnswerQuestion(x)
             \/ \E r \in Replies : \/ ConfirmLocal(x, r) \/ ConfirmPermission(x, r)
                                   \/ ConfirmLocked(x, r)
      PROVE  Sent
  BY <1>9, <1>d DEF SweepExpired, RejectQuestion, AnswerQuestion, ConfirmLocal,
                    ConfirmPermission, ConfirmLocked
<1>10. ASSUME NEW k \in clicks, Bless(k) PROVE Sent
  <2>1. PICK n \in clicks' : clicks' = (clicks \ {k}) \cup {n} /\ replied' = replied \cup n.drained
    BY <1>10, BlessEffect
  <2>2. k.drained = {}
    BY <1>10 DEF Bless, DrainsOnce
  <2>3. posts' = posts
    BY <1>10 DEF Bless
  <2>. QED BY <1>c, <2>1, <2>2, <2>3
<1>11. ASSUME NEW k \in clicks, Suppress(k) PROVE Sent
  <2>1. c \notin k.drained
    BY <1>11, <1>a DEF Suppress
  <2>. QED BY <1>11, <1>c, <2>1 DEF Suppress
<1>12. ASSUME NEW k \in clicks, PostReply(k) PROVE Sent
  <2>1. /\ posts \subseteq posts' /\ replied' \subseteq replied \cup {k.call} /\ clicks' = clicks \ {k}
    BY <1>12 DEF PostReply
  <2>2. \A d \in k.drained \cup {k.call} : \E m \in posts' : m.call = d
    BY <1>12, RepliesPosted
  <2>. QED BY <1>c, <2>1, <2>2
<1>13. ASSUME NEW m \in posts \cup acked, PostApplied(m) \/ PostFails(m) PROVE Sent
  <2>1. m.call # c
    BY <1>13, <1>a, ReplyLost
  <2>2. clicks' = clicks /\ posts \ {m} \subseteq posts' /\ replied' \subseteq replied
    BY <1>13 DEF PostApplied, PostFails
  <2>. QED BY <1>c, <2>1, <2>2
<1>15. ASSUME NEW m \in posts \cup acked, PostDelivered(m) PROVE Sent
  BY <1>15, <1>c DEF PostDelivered
<1>14. CASE UNCHANGED vars
  BY <1>14, <1>d DEF vars
<1>. QED BY Steps, <1>1, <1>2, <1>3, <1>4, <1>5, <1>6, <1>7, <1>8, <1>9, <1>10, <1>11, <1>12,
            <1>13, <1>14, <1>15, Zenon

\* Every step keeps PermissionHeld.
LEMMA PermissionHeldStep ==
    ASSUME TypeOK, AskedFirst, ReportsTrue, DrainsOnce, StampHonest, PermissionHeld, [Next]_vars
    PROVE  PermissionHeld'
<1>. USE DEF queue, buffers, stamps, consent, reader, replies, accidents
<1>. SUFFICES ASSUME NEW p \in Permissions, wait'[p] = "waiting", p \notin abandoned'
              PROVE  \/ <<p, 1>> \notin shown' /\ (Asked(p)' \/ p \in missed')
                     \/ handling' = <<p, 1>> \/ <<p, 1>> \in cards'
                     \/ \E m \in posts' : m.call = <<p, 1>>
                     \/ \E k \in clicks' : <<p, 1>> = k.call \/ <<p, 1>> \in k.drained
  BY DEF PermissionHeld
<1>. DEFINE c == <<p, 1>>
            Posted == \E m \in posts' : m.call = c
            Clicked == \E k \in clicks' : c = k.call \/ c \in k.drained
            Unshown == c \notin shown' /\ (Asked(p)' \/ p \in missed')
            Held == Unshown \/ handling' = c \/ c \in cards' \/ Posted \/ Clicked
<1>a. p \in Prompts /\ p \in Remote /\ p \notin Questions /\ p \notin abandoned /\ c[1] = p
      /\ p \notin Approvals /\ p \notin Elicitations
  BY WaitMoves, Kinds
<1>m. missed \subseteq missed'
  BY SeenGrows
<1>1. ASSUME NEW r \in Prompts, Ask(r) PROVE Held
  <2>1. CASE r = p
    <3>1. news'[p] = <<"asked">>
      BY <1>1, <1>a, <2>1 DEF Ask, TypeOK
    <3>2. \E i \in DOMAIN <<"asked">> : <<"asked">>[i] = "asked"
      OBVIOUS
    <3>3. c \notin shown'
      BY <1>1, <1>a, <2>1 DEF Ask, Unasked, AskedFirst
    <3>. QED BY <3>1, <3>2, <3>3 DEF Asked
  <2>2. CASE r # p
    <3>1. wait[p] = "waiting" /\ news'[p] = news[p]
      BY <1>1, <1>a, <2>2 DEF Ask, TypeOK
    <3>. QED BY <1>1, <1>a, <3>1 DEF Ask, PermissionHeld, Asked
  <2>. QED BY <2>1, <2>2
<1>b. wait[p] = "waiting" \/ Ask(p)
  <2>1. ~RequestApproval(p) /\ ~RequestElicitation(p)
    BY Kinds DEF RequestApproval, RequestElicitation
  <2>. QED BY <1>a, <2>1, WaitMoves
<1>. SUFFICES ASSUME wait[p] = "waiting" PROVE Held
  BY <1>1, <1>a, <1>b
<1>c. \/ c \notin shown /\ (Asked(p) \/ p \in missed)
      \/ handling = c \/ c \in cards \/ \E m \in posts : m.call = c
      \/ \E k \in clicks : c = k.call \/ c \in k.drained
  BY <1>a DEF PermissionHeld
<1>d. ASSUME Asked(p) => Asked(p)', c \in shown' => c \in shown \cup cards',
             handling' = handling, c \in cards => c \in cards',
             posts \subseteq posts', clicks \subseteq clicks'
      PROVE  Held
  BY <1>c, <1>d, <1>m
<1>e. ASSUME news' = news PROVE Asked(p) => Asked(p)'
  BY <1>e DEF Asked
<1>2. ASSUME NEW r \in Prompts,
             AskAgain(r) \/ \E how \in {"allowed", "rejected"} : OtherClient(r, how)
      PROVE  Held
  <2>1. Asked(p) => Asked(p)'
    BY <1>2, <1>a, SendOne DEF AskAgain, OtherClient
  <2>. QED BY <1>2, <1>d, <2>1 DEF AskAgain, OtherClient
<1>3. ASSUME NEW r \in Prompts,
             RequestApproval(r) \/ RequestElicitation(r) \/ ApprovalTimesOut(r)
      PROVE  Held
  BY <1>3, <1>d, <1>e DEF RequestApproval, RequestElicitation, ApprovalTimesOut, Show
<1>4. ASSUME NEW r \in Prompts, ApprovalCleansUp(r) PROVE Held
  <2>1. r # p
    BY <1>4, <1>a DEF ApprovalCleansUp, TypeOK
  <2>. QED BY <1>4, <1>d, <1>e, <2>1 DEF ApprovalCleansUp
<1>5. ASSUME NEW r \in Remote, AutoAccept(r) PROVE Held
  <2>1. CASE r = p
    <3>. DEFINE m == [call |-> <<r, 1>>, reply |-> "allowed", by |-> "auto"]
    <3>1. m \in posts'
      BY <1>5 DEF AutoAccept
    <3>2. m.call = c
      BY <2>1
    <3>. QED BY <3>1, <3>2
  <2>2. CASE r # p
    <3>1. Asked(p) => Asked(p)'
      BY <1>5, <1>a, <2>2, ReadOne DEF AutoAccept
    <3>. QED BY <1>5, <1>d, <3>1 DEF AutoAccept
  <2>. QED BY <2>1, <2>2
<1>6. ASSUME NEW r \in Remote, PermissionAsked(r) PROVE Held
  <2>1. CASE r = p
    BY <1>6, <2>1 DEF PermissionAsked
  <2>2. CASE r # p
    <3>1. Asked(p) => Asked(p)'
      BY <1>6, <1>a, <2>2, ReadOne DEF PermissionAsked
    <3>2. handling # c
      <4>1. c \in Calls
        BY <1>a, CallFacts
      <4>. QED BY <1>6, <4>1, CallFacts DEF PermissionAsked, Receives, Reading
    <3>. QED BY <1>6, <1>c, <1>m, <3>1, <3>2 DEF PermissionAsked
  <2>. QED BY <2>1, <2>2
<1>7. ASSUME NEW r \in Remote, QuestionAsked(r) PROVE Held
  <2>1. Asked(p) => Asked(p)'
    BY <1>7, <1>a, ReadOne DEF QuestionAsked
  <2>. QED BY <1>7, <1>d, <2>1 DEF QuestionAsked, Show
<1>8. ASSUME NEW r \in Remote, Replied(r) PROVE Held
  <2>1. r # p
    BY <1>8, <1>a, HeadReported DEF ReportsTrue, Replied
  <2>2. Asked(p) => Asked(p)'
    BY <1>8, <1>a, ReadOne DEF Replied
  <2>3. c \notin CallsOf(r)
    BY <2>1, CallFacts, Kinds
  <2>. QED BY <1>8, <1>d, <2>2, <2>3 DEF Replied
<1>9. ASSUME QueueCard PROVE Held
  BY <1>9, <1>c, <1>e, <1>m DEF QueueCard, Show
<1>10. ASSUME TimeoutReject PROVE Held
  <2>1. /\ posts \subseteq posts' /\ clicks' = clicks /\ handling' = handling /\ news' = news
        /\ shown' = shown /\ cards \ CallsOf(sweeping[1]) \subseteq cards'
    BY <1>10 DEF TimeoutReject
  <2>2. sweeping \in Calls /\ sweeping[1] \in Prompts
    BY <1>10, CallFacts DEF TimeoutReject, TypeOK
  <2>3. CASE sweeping[1] = p
    <3>1. sweeping = c
      BY <2>2, <2>3, <1>a, OneCall
    <3>2. cards' = cards \/ Posted
      BY <1>10, <1>a, <2>3, <3>1, SweepEffect
    <3>. QED BY <1>d, <1>e, <2>1, <3>2
  <2>4. CASE sweeping[1] # p
    <3>1. c \notin CallsOf(sweeping[1])
      BY <2>2, <2>4, CallFacts
    <3>. QED BY <1>d, <1>e, <2>1, <3>1
  <2>. QED BY <2>3, <2>4
<1>11. ASSUME RejectPending PROVE Held
  <2>1. /\ posts \subseteq posts' /\ clicks' = clicks /\ handling' = handling /\ news' = news
        /\ shown' = shown
    BY <1>11 DEF RejectPending
  <2>2. ASSUME c \in cards PROVE Posted
    <3>. DEFINE m == [call |-> c, reply |-> "rejected", by |-> "auto"]
    <3>1. m \in posts'
      BY <1>11, <1>a, <2>2 DEF RejectPending
    <3>2. m.call = c
      OBVIOUS
    <3>. QED BY <3>1, <3>2
  <2>. QED BY <1>c, <1>e, <1>m, <2>1, <2>2
<1>12. ASSUME NEW x \in Calls, SweepExpired(x) \/ \E r \in Replies : ConfirmLocked(x, r) PROVE Held
  BY <1>12, <1>d, <1>e DEF SweepExpired, ConfirmLocked
<1>13. ASSUME NEW x \in Calls,
              RejectQuestion(x) \/ AnswerQuestion(x) \/ \E r \in Replies : ConfirmLocal(x, r)
       PROVE  Held
  <2>1. x[1] # p /\ x # c
    BY <1>13, <1>a DEF RejectQuestion, AnswerQuestion, ConfirmLocal
  <2>2. c \notin CallsOf(x[1])
    BY <2>1, CallFacts
  <2>. QED BY <1>13, <1>d, <1>e, <2>1, <2>2 DEF RejectQuestion, AnswerQuestion, ConfirmLocal
<1>14. ASSUME NEW x \in Calls, NEW r \in Replies, ConfirmPermission(x, r) PROVE Held
  <2>1. /\ clicks \subseteq clicks' /\ cards' = cards \ {x} /\ posts' = posts
        /\ handling' = handling /\ news' = news /\ shown' = shown
    BY <1>14 DEF ConfirmPermission
  <2>2. \E k \in clicks' : k.call = x
    <3>. DEFINE k == [call |-> x, reply |-> r, card |-> x \in cards, drained |-> {},
                      at |-> Later(r)]
    <3>1. k \in clicks'
      BY <1>14 DEF ConfirmPermission
    <3>2. k.call = x
      OBVIOUS
    <3>. QED BY <3>1, <3>2
  <2>3. CASE x = c
    BY <2>2, <2>3
  <2>4. CASE x # c
    BY <1>d, <1>e, <2>1, <2>4
  <2>. QED BY <2>3, <2>4
<1>15. ASSUME NEW k \in clicks, Bless(k) PROVE Held
  <2>1. PICK n \in clicks' :
          /\ clicks' = (clicks \ {k}) \cup {n} /\ n.call = k.call
          /\ cards \subseteq cards' \cup n.drained \cup {k.call}
    BY <1>15, BlessEffect
  <2>2. k.drained = {}
    BY <1>15 DEF Bless, DrainsOnce
  <2>3. posts' = posts /\ handling' = handling /\ news' = news /\ shown' = shown
    BY <1>15 DEF Bless
  <2>. QED BY <1>c, <1>e, <1>m, <2>1, <2>2, <2>3
<1>16. ASSUME NEW k \in clicks, Suppress(k) PROVE Held
  <2>1. /\ clicks' = clicks \ {k} /\ UNCHANGED <<posts, cards, handling, news, shown>>
        /\ k.call \in replied
    BY <1>16 DEF Suppress
  <2>2. c \notin k.drained
    BY <1>16, <1>a DEF Suppress
  <2>3. CASE k.call = c
    <3>1. (\E m \in posts : m.call = c) \/ (\E n \in clicks : c \in n.drained)
      BY <1>a, <2>1, <2>3 DEF StampHonest
    <3>. QED BY <2>1, <2>2, <3>1
  <2>4. CASE k.call # c
    BY <1>c, <1>e, <1>m, <2>1, <2>2, <2>4
  <2>. QED BY <2>3, <2>4
<1>17. ASSUME NEW k \in clicks, PostReply(k) PROVE Held
  <2>1. /\ clicks' = clicks \ {k} /\ posts \subseteq posts'
        /\ UNCHANGED <<cards, handling, news, shown>>
    BY <1>17 DEF PostReply
  <2>2. \A d \in k.drained \cup {k.call} : \E m \in posts' : m.call = d
    BY <1>17, RepliesPosted
  <2>. QED BY <1>c, <1>e, <1>m, <2>1, <2>2
<1>18. ASSUME NEW m \in posts \cup acked, PostApplied(m) \/ PostFails(m) PROVE Held
  <2>1. CASE m.call = c
    BY <1>18, <1>a, <2>1, ReplyLost
  <2>2. CASE m.call # c
    <3>1. /\ clicks' = clicks /\ posts \ {m} \subseteq posts' /\ cards \subseteq cards'
          /\ handling' = handling /\ (c \in shown' => c \in shown \cup cards')
      BY <1>18 DEF PostApplied, PostFails, Show
    <3>2. news' = news \/ (Pending(m) /\ Apply(m))
      BY <1>18 DEF PostApplied, PostFails
    <3>3. ASSUME Pending(m), Apply(m) PROVE Asked(p) => Asked(p)'
      <4>1. m.call[1] \in Remote
        BY <3>3, PostFields DEF TypeOK
      <4>. QED BY <1>a, <3>3, <4>1, SendOne DEF Apply
    <3>. QED BY <1>c, <1>e, <1>m, <2>2, <3>1, <3>2, <3>3
  <2>. QED BY <2>1, <2>2
<1>20. ASSUME NEW m \in posts \cup acked, PostDelivered(m) PROVE Held
  BY <1>20, <1>d, <1>e DEF PostDelivered
<1>21. ASSUME StreamLost PROVE Held
  <2>1. Asked(p) => news[p] # <<>>
    BY DEF Asked
  <2>2. Asked(p) => p \in missed'
    BY <1>21, <1>a, <2>1 DEF StreamLost
  <2>. QED BY <1>21, <1>c, <1>m, <2>2 DEF StreamLost
<1>19. CASE UNCHANGED vars
  BY <1>19, <1>d, <1>e DEF vars
<1>. QED BY Steps, <1>1, <1>2, <1>3, <1>4, <1>5, <1>6, <1>7, <1>8, <1>9, <1>10, <1>11, <1>12,
            <1>13, <1>14, <1>15, <1>16, <1>17, <1>18, <1>19, <1>20, <1>21, Zenon

\* Every step keeps QuestionHeld.
LEMMA QuestionHeldStep ==
    ASSUME TypeOK, AskedFirst, SeenFirst, ReportsTrue, QuestionHeld, [Next]_vars
    PROVE  QuestionHeld'
<1>. USE DEF queue, buffers, stamps, consent, reader, replies, accidents
<1>. SUFFICES ASSUME NEW q \in Questions, wait'[q] = "waiting", q \notin abandoned'
              PROVE  \/ q \in parked'
                     \/ \E m \in posts' : m.by \in {"answer", "dismiss"} /\ m.call[1] = q
                     \/ /\ q \notin closed' /\ CallsOf(q) \cap shown' = {}
                        /\ Asked(q)' \/ q \in missed'
  BY DEF QuestionHeld
<1>. DEFINE Reply(m) == m.by \in {"answer", "dismiss"} /\ m.call[1] = q
            Sent == \E m \in posts' : Reply(m)
            Unshown == /\ q \notin closed' /\ CallsOf(q) \cap shown' = {}
                       /\ Asked(q)' \/ q \in missed'
            Held == q \in parked' \/ Sent \/ Unshown
<1>a. /\ q \in Prompts /\ q \in Remote /\ q \notin abandoned
      /\ q \notin Permissions /\ q \notin Approvals /\ q \notin Elicitations
  BY WaitMoves, Kinds
<1>m. missed \subseteq missed'
  BY SeenGrows
<1>n. \A d \in CallsOf(q) : d[1] = q /\ d \in Calls
  BY <1>a, CallFacts
<1>1. ASSUME NEW r \in Prompts, Ask(r) PROVE Held
  <2>1. CASE r = q
    <3>1. news'[q] = <<"asked">>
      BY <1>1, <1>a, <2>1 DEF Ask, TypeOK
    <3>2. \E i \in DOMAIN <<"asked">> : <<"asked">>[i] = "asked"
      OBVIOUS
    <3>3. q \notin closed' /\ CallsOf(q) \cap shown' = {}
      BY <1>1, <1>n, <2>1 DEF Ask, Unasked, AskedFirst
    <3>. QED BY <3>1, <3>2, <3>3 DEF Asked
  <2>2. CASE r # q
    <3>1. wait[q] = "waiting" /\ news'[q] = news[q]
      BY <1>1, <1>a, <2>2 DEF Ask, TypeOK
    <3>. QED BY <1>1, <1>a, <3>1 DEF Ask, QuestionHeld, Asked
  <2>. QED BY <2>1, <2>2
<1>b. wait[q] = "waiting" \/ Ask(q)
  <2>1. ~RequestApproval(q) /\ ~RequestElicitation(q)
    BY Kinds DEF RequestApproval, RequestElicitation
  <2>. QED BY <1>a, <2>1, WaitMoves
<1>. SUFFICES ASSUME wait[q] = "waiting" PROVE Held
  BY <1>1, <1>a, <1>b
<1>c. q \in parked \/ (\E m \in posts : Reply(m)) 
      \/ (q \notin closed /\ CallsOf(q) \cap shown = {} /\ (Asked(q) \/ q \in missed))
  BY <1>a DEF QuestionHeld
<1>d. ASSUME q \in parked => q \in parked', posts \subseteq posts',
             q \in closed' => q \in closed, CallsOf(q) \cap shown' \subseteq shown,
             Asked(q) => Asked(q)'
      PROVE  Held
  BY <1>c, <1>d, <1>m
<1>e. ASSUME news' = news PROVE Asked(q) => Asked(q)'
  BY <1>e DEF Asked
<1>2. ASSUME NEW r \in Prompts,
             AskAgain(r) \/ \E how \in {"allowed", "rejected"} : OtherClient(r, how)
      PROVE  Held
  <2>1. Asked(q) => Asked(q)'
    BY <1>2, <1>a, SendOne DEF AskAgain, OtherClient
  <2>. QED BY <1>2, <1>d, <2>1 DEF AskAgain, OtherClient
<1>3. ASSUME NEW r \in Prompts,
             \/ RequestApproval(r) \/ RequestElicitation(r) \/ ApprovalTimesOut(r)
             \/ ApprovalCleansUp(r)
      PROVE  Held
  <2>1. q \in parked => q \in parked'
    BY <1>3, <1>a DEF RequestApproval, RequestElicitation, ApprovalTimesOut, ApprovalCleansUp,
                      TypeOK
  <2>2. shown' \subseteq shown \cup {<<r, 1>>} /\ r # q
    BY <1>3, <1>a DEF RequestApproval, RequestElicitation, ApprovalTimesOut, ApprovalCleansUp,
                      Show, TypeOK
  <2>3. CallsOf(q) \cap shown' \subseteq shown
    BY <1>n, <2>2
  <2>. QED BY <1>3, <1>d, <1>e, <2>1, <2>3
           DEF RequestApproval, RequestElicitation, ApprovalTimesOut, ApprovalCleansUp
<1>4. ASSUME NEW r \in Remote, AutoAccept(r) \/ PermissionAsked(r) PROVE Held
  <2>1. r # q
    BY <1>4, <1>a DEF AutoAccept, PermissionAsked
  <2>2. Asked(q) => Asked(q)'
    BY <1>4, <1>a, <2>1, ReadOne DEF AutoAccept, PermissionAsked
  <2>. QED BY <1>4, <1>d, <2>2 DEF AutoAccept, PermissionAsked
<1>5. ASSUME NEW r \in Remote, QuestionAsked(r) PROVE Held
  <2>1. parked \subseteq parked' /\ posts' = posts /\ closed' = closed
    BY <1>5 DEF QuestionAsked
  <2>2. CASE r = q
    <3>1. q \in closed \/ q \in parked'
      BY <1>5, <2>2 DEF QuestionAsked
    <3>. QED BY <1>c, <2>1, <3>1
  <2>3. CASE r # q
    <3>1. Asked(q) => Asked(q)'
      BY <1>5, <1>a, <2>3, ReadOne DEF QuestionAsked
    <3>2. shown' \subseteq shown \cup CallsOf(r)
      BY <1>5 DEF QuestionAsked, Show
    <3>3. CallsOf(q) \cap CallsOf(r) = {}
      BY <1>n, <2>3, CallFacts, Kinds
    <3>. QED BY <1>d, <2>1, <3>1, <3>2, <3>3
  <2>. QED BY <2>2, <2>3
<1>6. ASSUME NEW r \in Remote, Replied(r) PROVE Held
  <2>1. r # q
    BY <1>6, <1>a, HeadReported DEF ReportsTrue, Replied
  <2>2. Asked(q) => Asked(q)'
    BY <1>6, <1>a, ReadOne DEF Replied
  <2>. QED BY <1>6, <1>d, <2>1, <2>2 DEF Replied
<1>7. ASSUME QueueCard PROVE Held
  <2>1. handling \notin CallsOf(q)
    BY <1>7, <1>a, <1>n DEF QueueCard, SeenFirst
  <2>2. CallsOf(q) \cap shown' \subseteq shown
    BY <1>7, <2>1 DEF QueueCard, Show
  <2>. QED BY <1>7, <1>d, <1>e, <2>2 DEF QueueCard
<1>8. ASSUME TimeoutReject PROVE Held
  <2>1. /\ posts \subseteq posts' /\ news' = news /\ shown' = shown
        /\ parked \ {sweeping[1]} \subseteq parked' /\ closed' \subseteq closed \cup {sweeping[1]}
    BY <1>8 DEF TimeoutReject
  <2>2. CASE sweeping[1] = q
    <3>1. UNCHANGED <<parked, closed>> \/ Sent
      BY <1>8, <1>a, <2>2, SweepEffect
    <3>. QED BY <1>d, <1>e, <2>1, <3>1
  <2>3. CASE sweeping[1] # q
    BY <1>d, <1>e, <2>1, <2>3
  <2>. QED BY <2>2, <2>3
<1>9. ASSUME RejectPending PROVE Held
  <2>1. /\ posts \subseteq posts' /\ news' = news /\ shown' = shown
        /\ closed' = closed \cup (parked \cap Questions)
    BY <1>9 DEF RejectPending
  <2>2. ASSUME q \in parked PROVE Sent
    <3>. DEFINE m == [call |-> <<q, 1>>, reply |-> "rejected", by |-> "dismiss"]
    <3>1. m \in posts'
      BY <1>9, <2>2 DEF RejectPending
    <3>2. Reply(m)
      OBVIOUS
    <3>. QED BY <3>1, <3>2
  <2>. QED BY <1>c, <1>e, <1>m, <2>1, <2>2
<1>10. ASSUME NEW c \in Calls,
              \/ SweepExpired(c)
              \/ \E r \in Replies : ConfirmPermission(c, r) \/ ConfirmLocked(c, r)
       PROVE  Held
  BY <1>10, <1>d, <1>e DEF SweepExpired, ConfirmPermission, ConfirmLocked
<1>11. ASSUME NEW c \in Calls, NEW r \in Replies, ConfirmLocal(c, r) PROVE Held
  <2>1. q # c[1]
    BY <1>11, <1>a DEF ConfirmLocal
  <2>. QED BY <1>11, <1>d, <1>e, <2>1 DEF ConfirmLocal
<1>12. ASSUME NEW c \in Calls, RejectQuestion(c) PROVE Held
  <2>1. /\ posts \subseteq posts' /\ news' = news /\ parked' = parked \ {c[1]}
        /\ closed' = closed \cup {c[1]} /\ shown' = shown
    BY <1>12 DEF RejectQuestion
  <2>2. ASSUME c[1] = q PROVE Sent
    <3>. DEFINE m == [call |-> c, reply |-> "rejected", by |-> "dismiss"]
    <3>1. m \in posts'
      BY <1>12 DEF RejectQuestion
    <3>2. Reply(m)
      BY <2>2
    <3>. QED BY <3>1, <3>2
  <2>. QED BY <1>d, <1>e, <2>1, <2>2
<1>13. ASSUME NEW c \in Calls, AnswerQuestion(c) PROVE Held
  <2>1. posts \subseteq posts' /\ news' = news /\ shown' = shown
    BY <1>13 DEF AnswerQuestion
  <2>2. CASE ~Complete(c)
    BY <1>13, <1>d, <1>e, <2>1, <2>2 DEF AnswerQuestion
  <2>3. CASE Complete(c)
    <3>. DEFINE m == [call |-> c, reply |-> "allowed", by |-> "answer"]
    <3>1. /\ m \in posts' /\ parked' = parked \ {c[1]} /\ closed' = closed \cup {c[1]}
      BY <1>13, <2>3 DEF AnswerQuestion
    <3>2. c[1] = q => Reply(m)
      OBVIOUS
    <3>. QED BY <1>d, <1>e, <2>1, <3>1, <3>2
  <2>. QED BY <2>2, <2>3
<1>14. ASSUME NEW k \in clicks, Bless(k) \/ Suppress(k) \/ PostReply(k) PROVE Held
  BY <1>14, <1>d, <1>e DEF Bless, Suppress, PostReply
<1>15. ASSUME NEW m \in posts \cup acked, PostApplied(m) \/ PostFails(m) PROVE Held
  <2>1. parked' = parked /\ posts \ {m} \subseteq posts' /\ closed' \subseteq closed
    BY <1>15 DEF PostApplied, PostFails
  <2>2. m.reply \in {"allowed", "rejected"}
    BY PostFields DEF TypeOK
  <2>3. ~Reply(m)
    <3>1. ASSUME Reply(m) PROVE FALSE
      <4>1. Pending(m)
        BY <3>1 DEF Pending
      <4>2. ~Apply(m)
        BY <1>a, <2>2, <3>1 DEF Apply, TypeOK
      <4>3. PostFails(m) /\ ~Retry(m)
        BY <1>15, <3>1, <4>2 DEF PostApplied, Retry
      <4>. QED BY <3>1, <4>1, <4>3 DEF PostFails
    <3>. QED BY <3>1
  <2>4. Asked(q) => Asked(q)'
    <3>1. news' = news \/ (Pending(m) /\ Apply(m))
      BY <1>15 DEF PostApplied, PostFails
    <3>2. ASSUME Pending(m), Apply(m) PROVE Asked(q) => Asked(q)'
      <4>1. m.call[1] \in Remote
        BY <3>2, PostFields DEF TypeOK
      <4>. QED BY <1>a, <3>2, <4>1, SendOne DEF Apply
    <3>. QED BY <1>e, <3>1, <3>2
  <2>5. shown' \subseteq shown
    BY <1>15 DEF PostApplied, PostFails, Show, Retry, SeenFirst
  <2>. QED BY <1>c, <1>m, <2>1, <2>3, <2>4, <2>5
<1>17. ASSUME NEW m \in posts \cup acked, PostDelivered(m) PROVE Held
  BY <1>17, <1>d, <1>e DEF PostDelivered
<1>18. ASSUME StreamLost PROVE Held
  <2>1. Asked(q) => news[q] # <<>>
    BY DEF Asked
  <2>2. Asked(q) => q \in missed'
    BY <1>18, <1>a, <2>1 DEF StreamLost
  <2>. QED BY <1>18, <1>c, <1>m, <2>2 DEF StreamLost
<1>16. CASE UNCHANGED vars
  BY <1>16, <1>d, <1>e DEF vars
<1>. QED BY Steps, <1>1, <1>2, <1>3, <1>4, <1>5, <1>6, <1>7, <1>8, <1>9, <1>10, <1>11, <1>12,
            <1>13, <1>14, <1>15, <1>16, <1>17, <1>18, Zenon

-----------------------------------------------------------------------------
\* The maps, the queue and the tasks keep their types.
THEOREM TypeCorrect == Spec => []TypeOK
<1>1. ASSUME Init PROVE TypeOK
  <2>1. news \in [Remote -> Seq({"asked", "replied"})]
    BY <1>1 DEF Init
  <2>2. wait \in [Prompts -> Outcomes] /\ inputs \in Nat
    BY <1>1 DEF Init, Outcomes
  <2>3. memory \subseteq {"shell", "fs"} /\ blessed \subseteq Blessings
    BY <1>1 DEF Init
  <2>4. /\ cards \subseteq Calls /\ expiry \subseteq Calls
        /\ parked \subseteq Prompts \ Permissions /\ answered \subseteq Calls
        /\ replied \subseteq Calls /\ closed \subseteq Questions /\ requeued \subseteq Calls
        /\ leaving \subseteq Approvals /\ clicks \subseteq Click /\ posts \subseteq Post
        /\ acked \subseteq Post
        /\ shown \subseteq Calls /\ restored \subseteq Calls /\ approved \subseteq Calls
        /\ abandoned \cup mistaken \subseteq Prompts /\ missed \subseteq Remote
    BY <1>1 DEF Init
  <2>5. handling \in Calls \cup {NoCall} /\ sweeping \in Calls \cup {NoCall}
    BY <1>1 DEF Init
  <2>. QED BY <2>1, <2>2, <2>3, <2>4, <2>5 DEF TypeOK
<1>2. TypeOK /\ [Next]_vars => TypeOK'
  BY TypeStep
<1>. QED BY <1>1, <1>2, PTL DEF Spec

\* A card never outlives its prompt without something left to take it away:
\* however the reader, the sweep, the user, the replies and lost reports
\* interleave.  Only a card put back after a failed reply has no such end.
THEOREM DeadCards == Spec => []DeadCardsGo
<1>1. Init => Swept
  BY DEF Init, Swept
<1>2. TypeOK /\ Swept /\ [Next]_vars => Swept'
  BY SweptStep
<1>3. Swept => DeadCardsGo
  BY DEF Swept, Gone, DeadCardsGo
<1>. QED BY <1>1, <1>2, <1>3, TypeCorrect, PTL DEF Spec

\* No tool call is allowed that the user (here or at another client of the
\* server) did not allow, directly, by a blessing of its path or sub-agent, or by
\* an approval of the same kind; the two known ways around the user, an
\* elicitation's "cancel" and a card taken for its text, are excepted.
\* Consented carries the consent through the buffers, the answers, the memory
\* and the replies.
THEOREM Consent == Spec => []AllowedOnlyIfApproved
<1>1. Init => Consented /\ AllowedOnlyIfApproved
  BY DEF Init, Consented, PostsBacked, ClicksBacked, Remembered, AllowedOnlyIfApproved
<1>2. TypeOK /\ Consented /\ AllowedOnlyIfApproved /\ [Next]_vars
      => (Consented /\ AllowedOnlyIfApproved)'
  BY ConsentedStep, AllowedStep
<1>. QED BY <1>1, <1>2, TypeCorrect, PTL DEF Spec

\* The inductive invariant behind NobodyForgotten.
Held ==
    /\ AskedFirst /\ SeenFirst /\ ReportsTrue /\ DrainsOnce /\ Stamped
    /\ StampHonest /\ PermissionHeld /\ QuestionHeld

\* It gives everyone who waits somebody who comes back.
LEMMA HeldAttends ==
    ASSUME TypeOK, Held
    PROVE  NobodyForgotten
<1>. SUFFICES ASSUME NEW p \in Prompts \ Approvals, wait[p] = "waiting", p \notin abandoned,
                     ~Unseen(p)
              PROVE  Attended(p)
  BY DEF NobodyForgotten
<1>1. CASE p \in Permissions
  <2>1. <<p, 1>> \in CallsOf(p) /\ p \in Remote /\ CallsOf(p) = {<<p, 1>>}
    BY <1>1, CallFacts, Kinds
  <2>2. \/ Asked(p) \/ handling = <<p, 1>> \/ <<p, 1>> \in cards
        \/ \E m \in posts : m.call = <<p, 1>>
        \/ \E k \in clicks : <<p, 1>> = k.call \/ <<p, 1>> \in k.drained
    BY <1>1, <2>1 DEF Held, PermissionHeld, Unseen
  <2>. QED BY <2>1, <2>2 DEF Attended, Asked
<1>2. CASE p \in Questions
  <2>1. CASE p \in parked
    BY <1>2, <2>1 DEF Held, Stamped, Attended
  <2>2. CASE \E m \in posts : m.by \in {"answer", "dismiss"} /\ m.call[1] = p
    <3>1. PICK m \in posts : m.call[1] = p
      BY <2>2
    <3>2. m.call \in CallsOf(p)
      BY <3>1, PostFields, CallFacts DEF TypeOK
    <3>. QED BY <3>1, <3>2 DEF Attended
  <2>3. CASE Asked(p)
    BY <1>2, <2>3, Kinds DEF Attended, Asked
  <2>. QED BY <1>2, <2>1, <2>2, <2>3 DEF Held, QuestionHeld, Unseen
<1>3. CASE p \in Elicitations
  <2>1. p \in parked /\ <<p, 1>> \in expiry
    BY <1>3 DEF Held, Stamped
  <2>2. CallsOf(p) = {<<p, 1>>}
    BY <1>3, CallFacts, Kinds
  <2>. QED BY <2>1, <2>2 DEF Attended
<1>. QED BY <1>1, <1>2, <1>3 DEF Prompts

\* No parked tool call is forgotten: whatever the user, deadlines, blessings,
\* ends of turns, lost streams and other clients do, and however their steps
\* interleave with skipped lock sections and lost replies.  Excepted are a reply
\* lost at the last try and a prompt whose event was lost before it had a card.
THEOREM Attention == Spec => []NobodyForgotten
<1>1. ASSUME Init PROVE Held
  <2>1. \A p \in Remote : news[p] = <<>> /\ p \in Prompts
    BY <1>1, Kinds DEF Init
  <2>2. \A p \in Remote : ~Asked(p) /\ ~Reported(p)
    BY <2>1 DEF Asked, Reported
  <2>3. \A p \in Prompts : wait[p] = "none"
    BY <1>1 DEF Init
  <2>4. AskedFirst /\ SeenFirst /\ ReportsTrue /\ DrainsOnce
    BY <1>1, <2>2 DEF Init, AskedFirst, SeenFirst, ReportsTrue, DrainsOnce
  <2>5. Stamped /\ StampHonest /\ PermissionHeld /\ QuestionHeld
    BY <1>1, <2>3, Kinds DEF Init, Stamped, StampHonest, PermissionHeld, QuestionHeld
  <2>. QED BY <2>4, <2>5 DEF Held
<1>2. TypeOK /\ Held /\ [Next]_vars => Held'
  BY AskedFirstStep, SeenFirstStep, ReportsTrueStep, DrainsOnceStep, StampedStep, StampHonestStep,
     PermissionHeldStep, QuestionHeldStep DEF Held
<1>3. TypeOK /\ Held => NobodyForgotten
  BY HeldAttends
<1>. QED BY <1>1, <1>2, <1>3, TypeCorrect, PTL DEF Spec
=============================================================================
