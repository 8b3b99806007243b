------------------------- MODULE RemoteStreamProofs -------------------------
(* The order of a conversation's turns on the server's event stream, and    *)
(* what follows from it: a relay is ended by its own turn, and a turn works *)
(* with its own tools, for any number of conversations, turns and failures. *)
EXTENDS RemoteTurnProofs, SequenceTheorems

-----------------------------------------------------------------------------
(* Sequences and stages                                                     *)

\* A sequence over a set is one over every larger set.
LEMMA SeqWiden ==
    ASSUME NEW S, NEW T, S \subseteq T, NEW s \in Seq(S)
    PROVE  s \in Seq(T)
OBVIOUS

\* What taking one element out of a sequence leaves.
LEMMA WithoutFacts ==
    ASSUME NEW S, NEW s \in Seq(S), NEW k \in 1..Len(s)
    PROVE  /\ Len(Without(s, k)) = Len(s) - 1
           /\ \A i \in 1..Len(s) - 1 :
                 Without(s, k)[i] = IF i < k THEN s[i] ELSE s[i + 1]
<1> DEFINE f == SubSeq(s, 1, k - 1)
           g == SubSeq(s, k + 1, Len(s))
<1>1. Len(s) \in Nat /\ k \in Nat /\ 1 <= k /\ k <= Len(s)
  OBVIOUS
<1>2. f \in Seq(S) /\ Len(f) = k - 1 /\ \A i \in 1..k - 1 : f[i] = s[i]
  BY <1>1
<1>3. g \in Seq(S) /\ Len(g) = Len(s) - k /\ \A i \in 1..Len(s) - k : g[i] = s[k + i]
  BY <1>1
<1>4. Without(s, k) = f \o g
  BY DEF Without
<1> HIDE DEF f, g
<1>5. Len(f \o g) = Len(s) - 1
  <2>1. Len(f \o g) = Len(f) + Len(g)
    BY <1>2, <1>3, ConcatProperties
  <2>. QED BY <1>1, <1>2, <1>3, <2>1
<1>6. ASSUME NEW i \in 1..Len(s) - 1
      PROVE  (f \o g)[i] = IF i < k THEN s[i] ELSE s[i + 1]
  <2>1. CASE i < k
    BY <1>1, <1>2, <1>3, <2>1
  <2>2. CASE ~(i < k)
    <3>1. (f \o g)[i] = g[i - (k - 1)] /\ i - (k - 1) \in 1..Len(s) - k
      BY <1>1, <1>2, <1>3, <2>2
    <3>2. g[i - (k - 1)] = s[k + (i - (k - 1))] /\ k + (i - (k - 1)) = i + 1
      BY <1>1, <1>3, <3>1
    <3>. QED BY <2>2, <3>1, <3>2
  <2>. QED BY <2>1, <2>2
<1>. QED BY <1>4, <1>5, <1>6

\* Whoever is parked on the notification is parked there once.
WaitInv ==
    \A i \in 1..Len(waiters) :
        /\ pc[waiters[i]] = "waiting"
        /\ \A j \in 1..Len(waiters) : waiters[i] = waiters[j] => i = j

\* A release moves the caller and wakes at most one parked task.
LEMMA ReleaseWait ==
    ASSUME SlotOK, WaitInv, NEW c, NEW p \in [Tasks -> Stages], ReleaseTurn(c, p),
           \A u \in Tasks : pc[u] = "waiting" => p[u] = "waiting"
    PROVE  /\ WaitInv'
           /\ \A u \in Tasks : \/ pc'[u] = p[u]
                               \/ pc[u] = "waiting" /\ pc'[u] = "acquire"
<1>1. CASE active # c \/ waiters = <<>>
  <2>1. pc' = p /\ waiters' = waiters
    BY <1>1 DEF ReleaseTurn, slot
  <2>2. \A i \in 1..Len(waiters) : waiters[i] \in Tasks
    BY DEF SlotOK
  <2>. QED BY <2>1, <2>2 DEF WaitInv
<1>2. CASE active = c /\ waiters # <<>>
  <2>1. Head(waiters) = waiters[1] /\ waiters[1] \in Tasks /\ Len(waiters) \in Nat \ {0}
    BY <1>2 DEF SlotOK
  <2>2. pc' = [p EXCEPT ![waiters[1]] = "acquire"] /\ waiters' = Tail(waiters)
    BY <1>2, <2>1 DEF ReleaseTurn
  <2>3. \A i \in 1..Len(waiters) : waiters[i] \in Tasks
    BY DEF SlotOK
  <2>4. Len(waiters') = Len(waiters) - 1 /\ \A i \in 1..Len(waiters') : waiters'[i] = waiters[i + 1]
    BY <1>2, <2>2 DEF SlotOK
  <2>5. WaitInv'
    <3> SUFFICES ASSUME NEW i \in 1..Len(waiters')
                 PROVE  /\ pc'[waiters'[i]] = "waiting"
                        /\ \A j \in 1..Len(waiters') : waiters'[i] = waiters'[j] => i = j
      BY DEF WaitInv
    <3>1. i + 1 \in 1..Len(waiters) /\ waiters'[i] = waiters[i + 1]
      BY <2>1, <2>4
    <3>2. pc[waiters[i + 1]] = "waiting" /\ waiters[i + 1] # waiters[1]
      BY <3>1, <2>1 DEF WaitInv
    <3>3. pc'[waiters'[i]] = "waiting"
      BY <2>2, <2>3, <3>1, <3>2
    <3>4. ASSUME NEW j \in 1..Len(waiters'), waiters'[i] = waiters'[j]
          PROVE  i = j
      <4>1. j + 1 \in 1..Len(waiters) /\ waiters'[j] = waiters[j + 1]
        BY <2>1, <2>4
      <4>2. waiters[i + 1] = waiters[j + 1]
        BY <3>1, <3>4, <4>1
      <4>3. i + 1 = j + 1
        BY <3>1, <4>1, <4>2 DEF WaitInv
      <4>. QED BY <4>3
    <3>. QED BY <3>3, <3>4
  <2>6. \A u \in Tasks : pc'[u] = p[u] \/ (pc[u] = "waiting" /\ pc'[u] = "acquire")
    BY <2>1, <2>2 DEF WaitInv
  <2>. QED BY <2>5, <2>6
<1>. QED BY <1>1, <1>2

\* A step that parks nobody and wakes nobody.
LEMMA WaitInvFrame ==
    ASSUME SlotOK, WaitInv, waiters' = waiters,
           \A u \in Tasks : pc[u] = "waiting" => pc'[u] = "waiting"
    PROVE  WaitInv'
<1>1. \A i \in 1..Len(waiters) : waiters[i] \in Tasks
  BY DEF SlotOK
<1>. QED BY <1>1 DEF WaitInv

\* The turn a send begins has not been touched yet.
LEMMA FreshNext ==
    ASSUME TypeOK, FreshInv, NEW c \in Convs, turn[c] < MaxTurns
    PROVE  <<c, turn[c] + 1>> \in Tasks /\ pc[<<c, turn[c] + 1>>] = "none"
<1>1. turn[c] \in 0..MaxTurns /\ turn[c] + 1 \in 0..MaxTurns
  BY RemoteAssumption DEF TypeOK, ConvsOK
<1>2. <<c, turn[c] + 1>> \in Tasks
  BY <1>1 DEF Tasks
<1>3. ~(turn[c] + 1 <= turn[c])
  BY <1>1
<1>4. <<c, turn[c] + 1>> \notin Begun
  BY <1>3 DEF Begun
<1>. QED BY <1>2, <1>4 DEF FreshInv

\* Every step keeps the parked tasks apart.
LEMMA WaitInvStep == TypeOK /\ FreshInv /\ WaitInv /\ [Next]_vars => WaitInv'
<1> SUFFICES ASSUME TypeOK, FreshInv, WaitInv, [Next]_vars PROVE WaitInv'
  OBVIOUS
<1>0. SlotOK /\ pc \in [Tasks -> Stages]
  BY DEF TypeOK, StagesOK
<1>1. ASSUME NEW t \in Tasks, BeginTurn(t) PROVE WaitInv'
  <2>1. \A u \in Tasks : pc[u] = "waiting" => pc'[u] = "waiting"
    BY <1>0, <1>1 DEF Goto, BeginTurn
  <2>. QED BY <1>0, <1>1, <2>1, WaitInvFrame DEF BeginTurn, slot
<1>2. ASSUME NEW t \in Tasks, AcquireTurn(t) PROVE WaitInv'
  <2>1. CASE pc' = [pc EXCEPT ![t] = "ensure"] /\ UNCHANGED waiters
    <3>1. \A u \in Tasks : pc[u] = "waiting" => pc'[u] = "waiting"
      BY <1>0, <1>2, <2>1 DEF AcquireTurn
    <3>. QED BY <1>0, <2>1, <3>1, WaitInvFrame
  <2>2. CASE UNCHANGED <<waiters, pc>>
    BY <2>2, <1>0, WaitInvFrame
  <2>3. CASE waiters' = Append(waiters, t) /\ pc' = [pc EXCEPT ![t] = "waiting"]
    <3>1. /\ Len(waiters') = Len(waiters) + 1 /\ waiters'[Len(waiters) + 1] = t
          /\ Len(waiters) \in Nat
          /\ \A i \in 1..Len(waiters) : waiters'[i] = waiters[i] /\ waiters[i] \in Tasks
      BY <1>0, <2>3 DEF SlotOK
    <3>2. \A i \in 1..Len(waiters) : waiters[i] # t
      BY <1>2 DEF WaitInv, AcquireTurn
    <3>3. \A i \in 1..Len(waiters') : pc'[waiters'[i]] = "waiting"
      BY <1>0, <2>3, <3>1 DEF WaitInv
    <3>4. \A i, j \in 1..Len(waiters') : waiters'[i] = waiters'[j] => i = j
      BY <3>1, <3>2 DEF WaitInv
    <3>. QED BY <3>3, <3>4 DEF WaitInv
  <2>. QED BY <1>2, <2>1, <2>2, <2>3 DEF AcquireTurn, Goto
<1>3. ASSUME NEW t \in Tasks, AlreadyOwned(t) PROVE WaitInv'
  <2>1. \A u \in Tasks : pc[u] = "waiting" => pc'[u] = "waiting"
    BY <1>0, <1>3 DEF Goto, AlreadyOwned
  <2>. QED BY <1>0, <1>3, <2>1, WaitInvFrame DEF AlreadyOwned, slot
<1>4. ASSUME NEW t \in Tasks, LockRegistration(t) PROVE WaitInv'
  <2>1. \A u \in Tasks : pc[u] = "waiting" => pc'[u] = "waiting"
    BY <1>0, <1>4 DEF Goto, LockRegistration
  <2>. QED BY <1>0, <1>4, <2>1, WaitInvFrame DEF LockRegistration, slot
<1>5. ASSUME NEW t \in Tasks, RegisterCandidate(t) PROVE WaitInv'
  <2>1. \A u \in Tasks : pc[u] = "waiting" => pc'[u] = "waiting"
    BY <1>0, <1>5 DEF Goto, RegisterCandidate
  <2>. QED BY <1>0, <1>5, <2>1, WaitInvFrame DEF RegisterCandidate, slot
<1>6. ASSUME NEW t \in Tasks, VerifyDialBack(t) PROVE WaitInv'
  <2>1. \A u \in Tasks : pc[u] = "waiting" => pc'[u] = "waiting"
    BY <1>0, <1>6 DEF Goto, VerifyDialBack
  <2>. QED BY <1>0, <1>6, <2>1, WaitInvFrame DEF VerifyDialBack, slot
<1>7. ASSUME NEW t \in Tasks, RegisterFallback(t) PROVE WaitInv'
  <2>1. \A u \in Tasks : pc[u] = "waiting" => pc'[u] = "waiting"
    BY <1>0, <1>7 DEF Goto, RegisterFallback
  <2>. QED BY <1>0, <1>7, <2>1, WaitInvFrame DEF RegisterFallback, slot
<1>8. ASSUME NEW t \in Tasks, PostPrompt(t) PROVE WaitInv'
  <2>1. [pc EXCEPT ![t] = "done"] \in [Tasks -> Stages]
    BY <1>0 DEF Stages
  <2>2. \A u \in Tasks : pc[u] = "waiting" => [pc EXCEPT ![t] = "done"][u] = "waiting"
    BY <1>0, <1>8 DEF PostPrompt
  <2>3. CASE ReleaseTurn(t[1], [pc EXCEPT ![t] = "done"])
    BY <1>0, <2>1, <2>2, <2>3, ReleaseWait
  <2>4. CASE pc' = [pc EXCEPT ![t] = "done"] /\ UNCHANGED slot
    BY <1>0, <2>2, <2>4, WaitInvFrame DEF slot
  <2>. QED BY <1>8, <2>3, <2>4 DEF PostPrompt
<1>9. ASSUME NEW t \in Tasks, TimeOut(t) PROVE WaitInv'
  <2>1. PICK k \in 1..Len(waiters) : waiters[k] = t /\ waiters' = Without(waiters, k)
    BY <1>9 DEF TimeOut
  <2>2. /\ Len(waiters) \in Nat \ {0} /\ Len(waiters') = Len(waiters) - 1
        /\ \A i \in 1..Len(waiters') :
              waiters'[i] = IF i < k THEN waiters[i] ELSE waiters[i + 1]
    <3>1. waiters \in Seq(Tasks) /\ Len(waiters) \in Nat \ {0}
      BY <1>0, <2>1 DEF SlotOK
    <3>2. /\ Len(Without(waiters, k)) = Len(waiters) - 1
          /\ \A i \in 1..Len(waiters) - 1 :
                Without(waiters, k)[i] = IF i < k THEN waiters[i] ELSE waiters[i + 1]
      BY <3>1, WithoutFacts
    <3>. QED BY <2>1, <3>1, <3>2
  <2>3. \A i \in 1..Len(waiters) : waiters[i] \in Tasks
    BY <1>0 DEF SlotOK
  <2>4. \A i \in 1..Len(waiters') :
           \E m \in 1..Len(waiters) : m # k /\ waiters'[i] = waiters[m] /\ m = IF i < k THEN i ELSE i + 1
    BY <2>1, <2>2
  <2>5. pc' = [pc EXCEPT ![t] = "ensure"]
    BY <1>9 DEF TimeOut, Goto
  <2>6. \A m \in 1..Len(waiters) : m # k => pc'[waiters[m]] = "waiting"
    BY <1>0, <2>1, <2>3, <2>5 DEF WaitInv
  <2>7. \A i \in 1..Len(waiters') : pc'[waiters'[i]] = "waiting"
    BY <2>4, <2>6
  <2>8. \A i, j \in 1..Len(waiters') : waiters'[i] = waiters'[j] => i = j
    BY <2>1, <2>2, <2>4 DEF WaitInv
  <2>. QED BY <2>7, <2>8 DEF WaitInv
<1>10. ASSUME NEW c \in Convs, Connect(c) PROVE WaitInv'
  <2>1. \A u \in Tasks : pc[u] = "waiting" => pc'[u] = "waiting"
    BY <1>0, <1>10 DEF Goto, Connect
  <2>. QED BY <1>0, <1>10, <2>1, WaitInvFrame DEF Connect, slot
<1>11. ASSUME NEW c \in Convs, Send(c) PROVE WaitInv'
  <2>1. pc[<<c, turn[c] + 1>>] # "waiting"
    BY <1>11, FreshNext DEF Send
  <2>2. \A u \in Tasks : pc[u] = "waiting" => pc'[u] = "waiting"
    BY <1>0, <1>11, <2>1 DEF Goto, Send
  <2>. QED BY <1>0, <1>11, <2>2, WaitInvFrame DEF Send, slot
<1>12. ASSUME NEW c \in Convs, Cancel(c) PROVE WaitInv'
  BY <1>0, <1>12, ReleaseWait DEF Cancel
<1>13. ASSUME NEW c \in Convs, Busy(c) PROVE WaitInv'
  BY <1>0, <1>13, WaitInvFrame DEF Busy, slot
<1>14. ASSUME NEW c \in Convs, RootTurnFinish(c) PROVE WaitInv'
  BY <1>0, <1>14, WaitInvFrame DEF RootTurnFinish, slot
<1>15. ASSUME NEW c \in Convs, ReleaseSlot(c) PROVE WaitInv'
  BY <1>0, <1>15, ReleaseWait DEF ReleaseSlot
<1>16. ASSUME NEW c \in Convs, SessionError(c) PROVE WaitInv'
  BY <1>0, <1>16, WaitInvFrame DEF SessionError, slot
<1>17. ASSUME NEW c \in Convs, Disposed(c) PROVE WaitInv'
  BY <1>0, <1>17, ReleaseWait DEF Disposed
<1>18. ASSUME NEW c \in Convs, ServerBegins(c) PROVE WaitInv'
  BY <1>0, <1>18, WaitInvFrame DEF ServerBegins, slot
<1>19. ASSUME NEW c \in Convs, ServerEnds(c) PROVE WaitInv'
  BY <1>0, <1>19, WaitInvFrame DEF ServerEnds, slot
<1>20. ASSUME NEW c \in Convs, StreamLost(c) PROVE WaitInv'
  BY <1>0, <1>20, WaitInvFrame DEF StreamLost, slot
<1>21. ASSUME ServerDisposed PROVE WaitInv'
  BY <1>0, <1>21, WaitInvFrame DEF ServerDisposed, slot
<1>22. CASE UNCHANGED vars
  BY <1>0, <1>22, WaitInvFrame DEF vars, slot
<1>. QED
  BY <1>1, <1>2, <1>3, <1>4, <1>5, <1>6, <1>7, <1>8, <1>9, <1>10, <1>11, <1>12, <1>13, <1>14, <1>15, <1>16, <1>17, <1>18, <1>19, <1>20, <1>21, <1>22
  DEF Next, TaskStep, Read, Serve
-----------------------------------------------------------------------------
(* The course of a turn                                                     *)

\* What the stream may hold: the end of the instance; a turn's first report;
\* whatever one turn reports; what does nothing to a turn that is not armed;
\* what does nothing to a turn that is locked out.
Disposals == [kind : {"disposed"}, turn : {0}]
Begins(n) == Disposals \cup [kind : {"busy"}, turn : {n}]
Own(n) == Disposals \cup [kind : {"busy", "stop", "idle", "error"}, turn : {n}]
Echoes == [kind : {"stop", "idle", "disposed"}, turn : 0..MaxTurns]
Repeats == Echoes \cup [kind : {"busy"}, turn : 0..MaxTurns]

\* Reports of S after what is left of earlier turns: from the first report on
\* that is no echo, all are of S.
Follows(s, S) ==
    /\ \A i \in 1..Len(s) : s[i] \in Echoes \cup S
    /\ \A i, j \in 1..Len(s) : i <= j /\ s[i] \notin Echoes => s[j] \in S

\* Nothing is on the stream u that was not on s.
NoMore(s, u) ==
    \A S : (s \in Seq(S) => u \in Seq(S)) /\ (Follows(s, S) => Follows(u, S))

\* The stages of a send between its begin and its prompt.
Unposted == {"acquire", "waiting", "ensure", "candidate", "verify", "fallback", "post"}

\* The stages of a connect.
Connecting == {"none", "ensure", "candidate", "verify", "fallback", "done"}

Now(c) == <<c, turn[c]>>

\* Turns sent or begun before the ones before them were out of the way.
Hasty == late \cup exposed

\* What is remembered of the turns is not forgotten.
Kept == late \subseteq late' /\ exposed \subseteq exposed' /\ excused \subseteq excused'

\* The last turn of c was sent and begun when nothing before it was in flight.
Sent(c) == turn[c] # 0 /\ Now(c) \notin Hasty

\* Its relay listens, and the reader is not about to give its slot away.
Listens(c) == relay[c] = turn[c] /\ (reader[c] = "read" \/ Now(c) \in excused)

\* What arms it is its own, and so is what comes after.
Trailing(c, S) == Follows(events[c], S) /\ (armed[c] => events[c] \in Seq(S))

\* What is known while it is only subscribed, before its prompt is posted,
\* while the prompt waits at the server, while the server works, and then.
Subscribed(c) ==
    /\ relay[c] = turn[c] /\ ~armed[c]
    /\ events[c] \in Seq(Repeats) /\ (finished[c] \/ events[c] \in Seq(Echoes))
    /\ prompts[c] = <<>> /\ running[c] = 0
Unarmed(c) == Listens(c) /\ ~armed[c] /\ events[c] \in Seq(Echoes) /\ running[c] = 0
Preparing(c) == Unarmed(c) /\ prompts[c] = <<>>
Queued(c) == Unarmed(c) /\ prompts[c] = <<turn[c]>>
Working(c) ==
    /\ Listens(c) /\ Trailing(c, Begins(turn[c]))
    /\ prompts[c] = <<>> /\ running[c] = turn[c]
Over(c) == Trailing(c, Own(turn[c])) /\ prompts[c] = <<>> /\ running[c] = 0

Course(c) ==
    /\ \A k \in 1..turn[c] - 1 : pc[<<c, k>>] = "done"
    /\ \/ pc[Now(c)] = "subscribed" /\ Subscribed(c)
       \/ pc[Now(c)] \in Unposted /\ Preparing(c)
       \/ pc[Now(c)] = "done" /\ (Queued(c) \/ Working(c) \/ Over(c))

\* Another turn, unless it was sent or begun too early, is neither worked on nor queued,
\* and an earlier one has returned.
Past(c) ==
    \A k \in 1..MaxTurns :
        k # turn[c] /\ <<c, k>> \notin Hasty =>
            /\ k < turn[c] => pc[<<c, k>>] = "done"
            /\ running[c] # k /\ prompts[c] \in Seq((0..MaxTurns) \ {k})

Orderly(c) ==
    /\ relay[c] \in {0, turn[c]}
    /\ finished[c] => ~armed[c]
    /\ Sent(c) => Course(c)
    /\ Past(c)
    /\ pc[<<c, 0>>] \in Connecting

\* The sends of c that move stay between begin and prompt.
Keeps(c) ==
    /\ \A k \in 1..MaxTurns :
          pc'[<<c, k>>] = pc[<<c, k>>] \/ {pc[<<c, k>>], pc'[<<c, k>>]} \subseteq Unposted
    /\ pc'[<<c, 0>>] \in Connecting

\* The types of what concerns one conversation.
LEMMA ConvTypes ==
    ASSUME TypeOK, NEW c \in Convs
    PROVE  /\ turn[c] \in 0..MaxTurns /\ relay[c] \in 0..MaxTurns /\ MaxTurns \in Nat
           /\ \A k \in 0..MaxTurns : <<c, k>> \in Tasks
           /\ events[c] \in Seq(Event) /\ prompts[c] \in Seq(0..MaxTurns)
           /\ running[c] \in 0..MaxTurns
BY RemoteAssumption DEF TypeOK, ConvsOK, ServerOK, Tasks

\* A stream that stands still.
LEMMA NoMoreSame ==
    ASSUME NEW s
    PROVE  NoMore(s, s)
BY DEF NoMore

\* A stream that is lost.
LEMMA NoMoreLost ==
    ASSUME NEW s
    PROVE  NoMore(s, <<>>)
<1>1. Len(<<>>) = 0 /\ \A S : <<>> \in Seq(S)
  OBVIOUS
<1>2. \A S : Follows(<<>>, S)
  BY <1>1 DEF Follows
<1>. QED BY <1>1, <1>2 DEF NoMore

\* A stream whose first report was read.
LEMMA NoMoreTail ==
    ASSUME NEW E, NEW s \in Seq(E), s # <<>>
    PROVE  NoMore(s, Tail(s))
<1>1. /\ Len(s) \in Nat \ {0} /\ Len(Tail(s)) = Len(s) - 1
      /\ \A i \in 1..Len(Tail(s)) : Tail(s)[i] = s[i + 1] /\ i + 1 \in 1..Len(s)
  OBVIOUS
<1>2. ASSUME NEW S, s \in Seq(S) PROVE Tail(s) \in Seq(S)
  BY <1>2, HeadTail
<1>3. ASSUME NEW S, Follows(s, S) PROVE Follows(Tail(s), S)
  <2>1. \A i \in 1..Len(Tail(s)) : Tail(s)[i] \in Echoes \cup S
    BY <1>1, <1>3 DEF Follows
  <2>2. ASSUME NEW i \in 1..Len(Tail(s)), NEW j \in 1..Len(Tail(s)), i <= j,
               Tail(s)[i] \notin Echoes
        PROVE  Tail(s)[j] \in S
    <3>1. i + 1 \in 1..Len(s) /\ j + 1 \in 1..Len(s) /\ i + 1 <= j + 1
      BY <1>1, <2>2
    <3>2. s[i + 1] \notin Echoes
      BY <1>1, <2>2
    <3>3. s[j + 1] \in S
      BY <1>3, <3>1, <3>2 DEF Follows
    <3>. QED BY <1>1, <3>3
  <2>. QED BY <2>1, <2>2 DEF Follows
<1>. QED BY <1>2, <1>3 DEF NoMore

\* The first report is an echo, or everything is of S.
LEMMA FollowsHead ==
    ASSUME NEW E, NEW s \in Seq(E), NEW S, Follows(s, S), s # <<>>, Head(s) \notin Echoes
    PROVE  s \in Seq(S)
<1>1. Len(s) \in Nat \ {0} /\ Head(s) = s[1] /\ 1 \in 1..Len(s)
  OBVIOUS
<1>2. \A j \in 1..Len(s) : 1 <= j
  OBVIOUS
<1>3. \A j \in 1..Len(s) : s[j] \in S
  BY <1>1, <1>2 DEF Follows
<1>. QED BY <1>3

\* Echoes alone, and reports of S alone.
LEMMA FollowsBoth ==
    ASSUME NEW S, NEW s, s \in Seq(Echoes) \/ s \in Seq(S)
    PROVE  Follows(s, S)
<1>1. CASE s \in Seq(Echoes)
  BY <1>1 DEF Follows
<1>2. CASE s \in Seq(S)
  BY <1>2 DEF Follows
<1>. QED BY <1>1, <1>2

\* Reports of S are added.
LEMMA FollowsMore ==
    ASSUME NEW E, NEW s \in Seq(E), NEW S, Follows(s, S), NEW r \in Seq(S)
    PROVE  Follows(s \o r, S)
<1>1. /\ Len(s) \in Nat /\ Len(r) \in Nat /\ Len(s \o r) = Len(s) + Len(r)
      /\ \A i \in 1..Len(s \o r) :
            (s \o r)[i] = IF i <= Len(s) THEN s[i] ELSE r[i - Len(s)]
  BY ConcatProperties
<1>2. \A i \in 1..Len(s \o r) : i <= Len(s) => i \in 1..Len(s) /\ (s \o r)[i] = s[i]
  BY <1>1
<1>3. \A i \in 1..Len(s \o r) : ~(i <= Len(s)) => (s \o r)[i] \in S
  <2>1. \A i \in 1..Len(s \o r) : ~(i <= Len(s)) => i - Len(s) \in 1..Len(r)
    BY <1>1
  <2>2. \A i \in 1..Len(r) : r[i] \in S
    OBVIOUS
  <2>. QED BY <1>1, <2>1, <2>2
<1>4. \A i \in 1..Len(s \o r) : (s \o r)[i] \in Echoes \cup S
  BY <1>2, <1>3 DEF Follows
<1>5. ASSUME NEW i \in 1..Len(s \o r), NEW j \in 1..Len(s \o r), i <= j,
             (s \o r)[i] \notin Echoes
      PROVE  (s \o r)[j] \in S
  <2>1. CASE j <= Len(s)
    <3>1. i <= Len(s)
      BY <1>1, <1>5, <2>1
    <3>. QED BY <1>2, <1>5, <2>1, <3>1 DEF Follows
  <2>2. CASE ~(j <= Len(s))
    BY <1>3, <2>2
  <2>. QED BY <2>1, <2>2
<1>. QED BY <1>4, <1>5 DEF Follows

\* Reports of a larger set.
LEMMA FollowsWiden ==
    ASSUME NEW S, NEW U, S \subseteq U, NEW s, Follows(s, S)
    PROVE  Follows(s, U)
BY DEF Follows

\* A step that leaves what concerns c as it is.
LEMMA OrderlyFrame ==
    ASSUME TypeOK, NEW c \in Convs, Orderly(c), Keeps(c), Kept,
           turn'[c] = turn[c], relay'[c] = relay[c], armed'[c] = armed[c],
           finished'[c] = finished[c], reader'[c] \in {reader[c], "read"},
           prompts'[c] = prompts[c], running'[c] = running[c],
           NoMore(events[c], events'[c])
    PROVE  Orderly(c)'
<1>0. /\ \A k \in 1..MaxTurns :
            pc'[<<c, k>>] = pc[<<c, k>>] \/ {pc[<<c, k>>], pc'[<<c, k>>]} \subseteq Unposted
      /\ pc'[<<c, 0>>] \in Connecting
  BY DEF Keeps
<1>1. Past(c)'
  BY <1>0, ConvTypes DEF Orderly, Past, Unposted, Hasty, Kept
<1>2. ASSUME Sent(c)' PROVE Course(c)'
  <2>1. Sent(c) /\ Course(c)
    BY <1>2 DEF Orderly, Sent, Now, Hasty, Kept
  <2>2. \A k \in 1..turn[c] - 1 : pc'[<<c, k>>] = "done"
    <3>1. \A k \in 1..turn[c] - 1 : k \in 1..MaxTurns /\ pc[<<c, k>>] = "done"
      <4>1. turn[c] \in 0..MaxTurns /\ MaxTurns \in Nat
        BY ConvTypes
      <4>2. \A k \in 1..turn[c] - 1 : k \in 1..MaxTurns
        BY <4>1
      <4>3. \A k \in 1..turn[c] - 1 : pc[<<c, k>>] = "done"
        BY <2>1 DEF Course
      <4>. QED BY <4>2, <4>3
    <3>. QED BY <3>1, <1>0 DEF Unposted
  <2>3. pc'[Now(c)] = pc[Now(c)] \/ {pc[Now(c)], pc'[Now(c)]} \subseteq Unposted
    BY <2>1, <1>0, ConvTypes DEF Sent, Now
  <2>4. Now(c)' = Now(c)
    BY DEF Now
  <2>5. CASE pc[Now(c)] = "subscribed" /\ Subscribed(c)
    BY <2>2, <2>3, <2>4, <2>5 DEF Course, Subscribed, Unposted, NoMore
  <2>6. CASE pc[Now(c)] \in Unposted /\ Preparing(c)
    BY <2>2, <2>3, <2>4, <2>6 DEF Course, Preparing, Unarmed, Listens, NoMore, Kept
  <2>7. CASE pc[Now(c)] = "done" /\ (Queued(c) \/ Working(c) \/ Over(c))
    <3>1. Listens(c) => Listens(c)'
      BY <2>4 DEF Listens, Kept
    <3>2. \A S : Trailing(c, S) => Trailing(c, S)'
      BY DEF Trailing, NoMore
    <3>3. Queued(c) => Queued(c)'
      BY <3>1 DEF Queued, Unarmed, NoMore
    <3>4. Working(c) => Working(c)'
      BY <3>1, <3>2 DEF Working
    <3>5. Over(c) => Over(c)'
      BY <3>2 DEF Over
    <3>. QED BY <2>2, <2>3, <2>4, <2>7, <3>3, <3>4, <3>5 DEF Course, Unposted
  <2>. QED BY <2>1, <2>5, <2>6, <2>7 DEF Course
<1>3. relay'[c] \in {0, turn'[c]} /\ (finished'[c] => ~armed'[c])
  BY DEF Orderly
<1>. QED BY <1>0, <1>1, <1>2, <1>3 DEF Orderly

\* The moves of the tasks, conversation by conversation.
LEMMA KeepsSame ==
    ASSUME NEW c, Orderly(c), pc' = pc
    PROVE  Keeps(c)
BY DEF Keeps, Orderly

\* A task of another conversation moves.
LEMMA KeepsOther ==
    ASSUME TypeOK, NEW t \in Tasks, NEW x, pc' = [pc EXCEPT ![t] = x],
           NEW c \in Convs, Orderly(c), c # t[1]
    PROVE  Keeps(c)
<1>1. \A k \in 0..MaxTurns : <<c, k>> \in Tasks /\ <<c, k>> # t
  BY ConvTypes
<1>2. \A k \in 0..MaxTurns : pc'[<<c, k>>] = pc[<<c, k>>]
  BY <1>1 DEF TypeOK, StagesOK
<1>. QED BY <1>2, ConvTypes DEF Keeps, Orderly

\* A task moves between begin and prompt, or a connect moves.
LEMMA KeepsMove ==
    ASSUME TypeOK, NEW t \in Tasks, NEW x, pc' = [pc EXCEPT ![t] = x],
           NEW c \in Convs, Orderly(c),
           t[2] = 0 => x \in Connecting,
           t[2] # 0 => {pc[t], x} \subseteq Unposted
    PROVE  Keeps(c)
<1>1. \A k \in 0..MaxTurns : <<c, k>> \in Tasks
  BY ConvTypes
<1>2. ASSUME NEW k \in 0..MaxTurns
      PROVE  pc'[<<c, k>>] = pc[<<c, k>>] \/ (t = <<c, k>> /\ pc'[<<c, k>>] = x)
  BY <1>1 DEF TypeOK, StagesOK
<1>3. \A k \in 0..MaxTurns : t = <<c, k>> => t[2] = k
  OBVIOUS
<1>4. ASSUME NEW k \in 1..MaxTurns
      PROVE  pc'[<<c, k>>] = pc[<<c, k>>] \/ {pc[<<c, k>>], pc'[<<c, k>>]} \subseteq Unposted
  <2>1. k \in 0..MaxTurns /\ k # 0
    BY ConvTypes
  <2>. QED BY <1>2, <1>3, <2>1
<1>5. pc'[<<c, 0>>] \in Connecting
  <2>1. 0 \in 0..MaxTurns
    BY ConvTypes
  <2>. QED BY <1>2, <1>3, <2>1 DEF Orderly
<1>. QED BY <1>4, <1>5 DEF Keeps

\* A release wakes a parked send.
LEMMA KeepsRelease ==
    ASSUME TypeOK, WaitInv, NEW d, ReleaseTurn(d, pc), NEW c \in Convs, Orderly(c)
    PROVE  Keeps(c)
<1>1. \A u \in Tasks : pc'[u] = pc[u] \/ (pc[u] = "waiting" /\ pc'[u] = "acquire")
  BY ReleaseWait DEF TypeOK, StagesOK
<1>2. \A k \in 0..MaxTurns : <<c, k>> \in Tasks
  BY ConvTypes
<1>. QED BY <1>1, <1>2, ConvTypes DEF Keeps, Orderly, Connecting, Unposted

\* Reading takes events away.
LEMMA ReadsOn ==
    ASSUME TypeOK, NEW c \in Convs, NEW kinds, Receives(c, kinds)
    PROVE  /\ \A S : events[c] \in Seq(S) => events'[c] \in Seq(S) /\ Incoming(c) \in S
           /\ NoMore(events[c], events'[c])
           /\ \A S : Follows(events[c], S) /\ Incoming(c) \notin Echoes => events[c] \in Seq(S)
           /\ Incoming(c).kind \in kinds
           /\ \A d \in Convs \ {c} : events'[d] = events[d]
<1>1. events[c] \in Seq(Event) /\ events[c] # <<>> /\ events'[c] = Tail(events[c])
  BY ConvTypes DEF Receives, TypeOK, ServerOK
<1>2. ASSUME NEW S, events[c] \in Seq(S)
      PROVE  events'[c] \in Seq(S) /\ Incoming(c) \in S
  BY <1>1, <1>2, HeadTail DEF Incoming
<1>3. NoMore(events[c], events'[c])
  BY <1>1, NoMoreTail
<1>4. \A S : Follows(events[c], S) /\ Incoming(c) \notin Echoes => events[c] \in Seq(S)
  BY <1>1, FollowsHead DEF Incoming
<1>. QED BY <1>2, <1>3, <1>4 DEF Receives, TypeOK, ServerOK

\* The courses of all conversations.
OrderInv == \A c \in Convs : Orderly(c)

\* A task that is not begun, waiting or posting a prompt may be a connect.
LEMMA SendsOnly ==
    ASSUME TypeOK, OrderInv, NEW t \in Tasks, pc[t] \notin Connecting
    PROVE  t[2] # 0 /\ t[2] \in 1..MaxTurns /\ t[1] \in Convs /\ t = <<t[1], t[2]>>
<1>1. t[1] \in Convs /\ t[2] \in 0..MaxTurns /\ t = <<t[1], t[2]>>
  BY TasksAre
<1>2. pc[<<t[1], 0>>] \in Connecting
  BY <1>1 DEF OrderInv, Orderly
<1>3. t[2] # 0
  BY <1>1, <1>2
<1>. QED BY <1>1, <1>3, RemoteAssumption

\* A move between begin and prompt, or of a connect.
LEMMA OrderMove ==
    ASSUME TypeOK, OrderInv, NEW t \in Tasks, NEW x, pc' = [pc EXCEPT ![t] = x],
           t[2] = 0 => x \in Connecting,
           t[2] # 0 => {pc[t], x} \subseteq Unposted,
           UNCHANGED <<turn, relay, flags, server>>, Kept
    PROVE  OrderInv'
<1> SUFFICES ASSUME NEW c \in Convs PROVE Orderly(c)'
  BY DEF OrderInv
<1>1. Orderly(c)
  BY DEF OrderInv
<1>2. Keeps(c)
  BY <1>1, KeepsMove
<1>. QED BY <1>1, <1>2, OrderlyFrame, NoMoreSame DEF flags, server

\* A release that wakes a parked send.
LEMMA OrderRelease ==
    ASSUME TypeOK, WaitInv, OrderInv, NEW d, ReleaseTurn(d, pc),
           UNCHANGED <<turn, relay, armed, finished, prompts, running>>, Kept,
           \A c \in Convs : reader'[c] \in {reader[c], "read"},
           \A c \in Convs : NoMore(events[c], events'[c])
    PROVE  OrderInv'
<1> SUFFICES ASSUME NEW c \in Convs PROVE Orderly(c)'
  BY DEF OrderInv
<1>1. Orderly(c)
  BY DEF OrderInv
<1>2. Keeps(c)
  BY <1>1, KeepsRelease
<1>. QED BY <1>1, <1>2, OrderlyFrame

\* A step of the reader or the server of c leaves the others alone.
LEMMA OrderElsewhere ==
    ASSUME TypeOK, OrderInv, NEW c \in Convs, Orderly(c)', UNCHANGED <<pc, turn>>, Kept,
           \A d \in Convs \ {c} :
              /\ relay'[d] = relay[d] /\ armed'[d] = armed[d] /\ finished'[d] = finished[d]
              /\ reader'[d] = reader[d] /\ prompts'[d] = prompts[d]
              /\ running'[d] = running[d] /\ events'[d] = events[d]
    PROVE  OrderInv'
<1> SUFFICES ASSUME NEW d \in Convs \ {c} PROVE Orderly(d)'
  BY DEF OrderInv
<1>1. Orderly(d)
  BY DEF OrderInv
<1>2. Keeps(d)
  BY <1>1, KeepsSame
<1>. QED BY <1>1, <1>2, OrderlyFrame, NoMoreSame

\* acquire_turn takes, passes through or parks: the course is the same.
LEMMA OrderAcquire ==
    ASSUME TypeOK, OrderInv, NEW t \in Tasks, AcquireTurn(t)
    PROVE  OrderInv'
<1>1. t[2] # 0
  BY SendsOnly DEF AcquireTurn, Connecting
<1>2. UNCHANGED <<turn, relay, flags, server>> /\ Kept
  BY DEF AcquireTurn, history, Kept
<1>3. CASE pc' = pc
  <2> SUFFICES ASSUME NEW c \in Convs PROVE Orderly(c)'
    BY DEF OrderInv
  <2>1. Orderly(c) /\ Keeps(c)
    BY <1>3, KeepsSame DEF OrderInv
  <2>. QED BY <1>2, <2>1, OrderlyFrame, NoMoreSame DEF flags, server
<1>4. CASE \E x \in {"ensure", "waiting"} : pc' = [pc EXCEPT ![t] = x]
  <2>1. PICK x \in {"ensure", "waiting"} : pc' = [pc EXCEPT ![t] = x]
    BY <1>4
  <2>2. {pc[t], x} \subseteq Unposted
    BY <2>1 DEF AcquireTurn, Unposted
  <2>. QED BY <1>1, <1>2, <2>1, <2>2, OrderMove
<1>. QED BY <1>3, <1>4 DEF AcquireTurn, Goto

\* The steps of a registration.
LEMMA OrderRegister ==
    ASSUME TypeOK, OrderInv, NEW t \in Tasks,
           \/ AlreadyOwned(t) \/ LockRegistration(t) \/ RegisterCandidate(t)
           \/ VerifyDialBack(t) \/ RegisterFallback(t)
    PROVE  OrderInv'
<1>1. UNCHANGED <<turn, relay, flags, server>> /\ Kept
  BY DEF AlreadyOwned, LockRegistration, RegisterCandidate, VerifyDialBack, RegisterFallback, history,
     Kept
<1>2. \E x \in {"candidate", "verify", "fallback", Onward(t)} : pc' = [pc EXCEPT ![t] = x]
  BY DEF AlreadyOwned, LockRegistration, RegisterCandidate, VerifyDialBack, RegisterFallback, Goto
<1>3. PICK x \in {"candidate", "verify", "fallback", Onward(t)} : pc' = [pc EXCEPT ![t] = x]
  BY <1>2
<1>4. pc[t] \in Unposted
  BY DEF AlreadyOwned, LockRegistration, RegisterCandidate, VerifyDialBack, RegisterFallback, Unposted
<1>5. (t[2] = 0 => x \in Connecting) /\ (t[2] # 0 => {pc[t], x} \subseteq Unposted)
  BY <1>3, <1>4 DEF Onward, Connecting, Unposted
<1>. QED BY <1>1, <1>3, <1>5, OrderMove

\* A wait that timed out goes on to its registration.
LEMMA OrderTimeOut ==
    ASSUME TypeOK, OrderInv, NEW t \in Tasks, TimeOut(t)
    PROVE  OrderInv'
<1>1. t[2] # 0
  BY SendsOnly DEF TimeOut, Connecting
<1>2. UNCHANGED <<turn, relay, flags, server>> /\ Kept
  BY DEF TimeOut, Kept
<1>3. {pc[t], "ensure"} \subseteq Unposted /\ pc' = [pc EXCEPT ![t] = "ensure"]
  BY DEF TimeOut, Unposted, Goto
<1>. QED BY <1>1, <1>2, <1>3, OrderMove

\* connect_opencode is not part of a turn.
LEMMA OrderConnect ==
    ASSUME TypeOK, OrderInv, NEW c \in Convs, Connect(c)
    PROVE  OrderInv'
<1>1. UNCHANGED <<turn, relay, flags, server>> /\ Kept
  BY DEF Connect, history, Kept
<1>2. \E x \in {"ensure", "done"} : pc' = [pc EXCEPT ![<<c, 0>>] = x]
  BY DEF Connect, Goto
<1>3. PICK x \in {"ensure", "done"} : pc' = [pc EXCEPT ![<<c, 0>>] = x]
  BY <1>2
<1>4. <<c, 0>> \in Tasks /\ <<c, 0>>[2] = 0
  BY ConvTypes
<1>5. x \in Connecting
  BY DEF Connecting
<1>. QED BY <1>1, <1>3, <1>4, <1>5, OrderMove

\* A stop and the release after a Finish touch the slot alone.
LEMMA OrderCancel ==
    ASSUME TypeOK, WaitInv, OrderInv, NEW c \in Convs, Cancel(c) \/ ReleaseSlot(c)
    PROVE  OrderInv'
<1>1. ReleaseTurn(c, pc) /\ UNCHANGED <<turn, relay, armed, finished, prompts, running, events>> /\ Kept
  BY DEF Cancel, ReleaseSlot, flags, server, history, Kept
<1>2. \A d \in Convs : reader'[d] \in {reader[d], "read"}
  BY DEF Cancel, ReleaseSlot, flags, TypeOK, FlagsOK
<1>. QED BY <1>1, <1>2, OrderRelease, NoMoreSame

\* Reading a disposal frees the slot alone.
LEMMA OrderDisposed ==
    ASSUME TypeOK, WaitInv, OrderInv, NEW c \in Convs, Disposed(c)
    PROVE  OrderInv'
<1>1. /\ ReleaseTurn(c, pc) /\ Receives(c, {"disposed"})
      /\ UNCHANGED <<turn, relay, armed, finished, reader, prompts, running>>
      /\ Kept
  BY DEF Disposed, flags, history, Kept
<1>2. \A d \in Convs : NoMore(events[d], events'[d])
  BY <1>1, ReadsOn, NoMoreSame
<1>. QED BY <1>1, <1>2, OrderRelease

\* What is on the stream decides which reports can come next.
LEMMA NextReports ==
    ASSUME TypeOK, NEW c \in Convs, NEW kinds, Receives(c, kinds)
    PROVE  /\ kinds \cap {"stop", "idle", "disposed"} = {} => Incoming(c) \notin Echoes
           /\ events[c] \in Seq(Echoes) => kinds \cap {"stop", "idle", "disposed"} # {}
           /\ events[c] \in Seq(Begins(turn[c])) => kinds \cap {"busy", "disposed"} # {}
           /\ events[c] \in Seq(Repeats) => kinds \cap {"busy", "stop", "idle", "disposed"} # {}
           /\ events[c] \in Seq(Own(turn[c])) /\ "disposed" \notin kinds =>
                 Incoming(c).turn = turn[c]
<1>1. Incoming(c).kind \in kinds
  BY ReadsOn
<1>2. events[c] \in Seq(Echoes) => Incoming(c) \in Echoes
  BY ReadsOn
<1>3. events[c] \in Seq(Begins(turn[c])) => Incoming(c) \in Begins(turn[c])
  BY ReadsOn
<1>4. events[c] \in Seq(Repeats) => Incoming(c) \in Repeats
  BY ReadsOn
<1>5. events[c] \in Seq(Own(turn[c])) => Incoming(c) \in Own(turn[c])
  BY ReadsOn
<1>. QED BY <1>1, <1>2, <1>3, <1>4, <1>5 DEF Disposals, Begins, Echoes, Repeats, Own

\* A busy report arms the turn that began, never one that only subscribed.
LEMMA OrderBusy ==
    ASSUME TypeOK, OrderInv, NEW c \in Convs, Busy(c)
    PROVE  OrderInv'
<1>1. /\ Receives(c, {"busy"}) /\ armed' = [armed EXCEPT ![c] = @ \/ ~finished[c]]
      /\ UNCHANGED <<pc, turn, relay, finished, reader, prompts, running, late, exposed, excused>>
  BY DEF Busy, history
<1>2. armed'[c] = (armed[c] \/ ~finished[c]) /\ \A d \in Convs \ {c} : armed'[d] = armed[d]
  BY <1>1 DEF TypeOK, FlagsOK
<1>3. Orderly(c)
  BY DEF OrderInv
<1>4. \A S : events[c] \in Seq(S) => events'[c] \in Seq(S)
  BY <1>1, ReadsOn
<1>5. events[c] \notin Seq(Echoes) /\ Incoming(c) \notin Echoes
  BY <1>1, NextReports
<1>6. ASSUME Sent(c)' PROVE Course(c)'
  <2>1. Sent(c) /\ Course(c) /\ Now(c)' = Now(c)
    BY <1>1, <1>3, <1>6 DEF Sent, Now, Orderly, Hasty
  <2>2. \A k \in 1..turn[c] - 1 : pc'[<<c, k>>] = "done"
    BY <1>1, <2>1 DEF Course
  <2>3. CASE pc[Now(c)] = "subscribed" /\ Subscribed(c)
    <3>1. finished[c] /\ ~armed[c]
      BY <1>5, <2>3 DEF Subscribed
    <3>2. ~armed'[c]
      BY <1>2, <3>1
    <3>. QED BY <1>1, <1>4, <2>1, <2>2, <2>3, <3>1, <3>2 DEF Course, Subscribed
  <2>4. CASE pc[Now(c)] \in Unposted /\ Preparing(c)
    BY <1>5, <2>4 DEF Preparing, Unarmed
  <2>5. CASE pc[Now(c)] = "done" /\ (Queued(c) \/ Working(c) \/ Over(c))
    <3>1. ASSUME NEW S, Trailing(c, S)
          PROVE  Follows(events'[c], S) /\ (armed'[c] => events'[c] \in Seq(S))
      <4>1. events[c] \in Seq(S)
        BY <1>1, <1>5, <3>1, ReadsOn DEF Trailing
      <4>2. events'[c] \in Seq(S)
        BY <1>4, <4>1
      <4>. QED BY <4>2, FollowsBoth
    <3>2. Working(c) => Working(c)'
      BY <1>1, <2>1, <3>1 DEF Working, Listens, Trailing
    <3>3. Over(c) => Over(c)'
      BY <1>1, <3>1 DEF Over, Trailing
    <3>4. ~Queued(c)
      BY <1>5 DEF Queued, Unarmed
    <3>. QED BY <1>1, <2>1, <2>2, <2>5, <3>2, <3>3, <3>4 DEF Course
  <2>. QED BY <2>1, <2>3, <2>4, <2>5 DEF Course
<1>7. Past(c)'
  BY <1>1, <1>3 DEF Past, Orderly, Hasty
<1>8. finished'[c] => ~armed'[c]
  BY <1>1, <1>2, <1>3 DEF Orderly
<1>9. Orderly(c)'
  BY <1>1, <1>3, <1>6, <1>7, <1>8 DEF Orderly
<1>10. \A d \in Convs \ {c} : events'[d] = events[d]
  BY <1>1, ReadsOn
<1>11. Kept
  BY <1>1 DEF Kept
<1>. QED BY <1>1, <1>2, <1>9, <1>10, <1>11, OrderElsewhere

\* A terminal report that is read after the turn's own first report.
LEMMA OrderEnd ==
    ASSUME TypeOK, OrderInv, NEW c \in Convs, NEW kinds, Receives(c, kinds),
           kinds \cap {"busy", "disposed"} = {},
           armed[c] \/ kinds \cap {"stop", "idle"} = {},
           EndRelay(c), UNCHANGED <<pc, turn, prompts, running, late, exposed, excused>>,
           finished'[c] => ~armed'[c], armed'[c] => armed[c],
           \A d \in Convs \ {c} :
              armed'[d] = armed[d] /\ finished'[d] = finished[d] /\ reader'[d] = reader[d]
    PROVE  OrderInv' /\ stray' \subseteq stray \cup Hasty
<1>1. NoMore(events[c], events'[c])
  BY ReadsOn
<1>2. relay'[c] = 0 /\ \A d \in Convs \ {c} : relay'[d] = relay[d] /\ events'[d] = events[d]
  BY ReadsOn DEF EndRelay, TypeOK, ConvsOK
<1>3. Orderly(c)
  BY DEF OrderInv
<1>0. ASSUME NEW S, Trailing(c, S)
      PROVE  events[c] \in Seq(S)
  <2>1. CASE armed[c]
    BY <1>0, <2>1 DEF Trailing
  <2>2. CASE kinds \cap {"stop", "idle"} = {}
    <3>1. Incoming(c) \notin Echoes
      BY <2>2, NextReports
    <3>. QED BY <1>0, <3>1, ReadsOn DEF Trailing
  <2>. QED BY <2>1, <2>2
<1>4. ASSUME Sent(c)
      PROVE  pc[Now(c)] = "done" /\ Over(c)
  <2>1. Course(c)
    BY <1>3, <1>4 DEF Orderly
  <2>2. ~Working(c)
    BY <1>0, NextReports DEF Working
  <2>3. ~Subscribed(c)
    BY NextReports DEF Subscribed
  <2>4. ~Unarmed(c)
    BY NextReports DEF Unarmed
  <2>. QED BY <2>1, <2>2, <2>3, <2>4 DEF Course, Preparing, Queued
<1>5. ASSUME Sent(c)' PROVE Course(c)'
  <2>1. Sent(c) /\ Now(c)' = Now(c)
    BY <1>5 DEF Sent, Now, Hasty
  <2>2. Over(c)'
    BY <1>1, <1>4, <2>1 DEF Over, Trailing, NoMore
  <2>. QED BY <1>3, <1>4, <2>1, <2>2 DEF Course, Orderly
<1>6. Past(c)'
  BY <1>3 DEF Past, Orderly, Hasty
<1>7. Orderly(c)'
  BY <1>2, <1>3, <1>5, <1>6 DEF Orderly
<1>8. OrderInv'
  BY <1>2, <1>7, OrderElsewhere DEF Kept
<1>9. ASSUME relay[c] \notin {0, Incoming(c).turn} PROVE <<c, relay[c]>> \in Hasty
  <2>1. relay[c] = turn[c] /\ turn[c] # 0
    BY <1>3, <1>9 DEF Orderly
  <2>2. ASSUME Sent(c) PROVE Incoming(c).turn = turn[c]
    <3>1. events[c] \in Seq(Own(turn[c]))
      BY <1>0, <1>4, <2>2 DEF Over
    <3>. QED BY <3>1, NextReports
  <2>. QED BY <1>9, <2>1, <2>2 DEF Sent, Now
<1>. QED BY <1>8, <1>9 DEF EndRelay

\* emit_root_turn_finish ends the relay of the turn whose report armed it.
LEMMA OrderFinish ==
    ASSUME TypeOK, OrderInv, NEW c \in Convs, RootTurnFinish(c)
    PROVE  OrderInv' /\ stray' \subseteq stray \cup Hasty
<1>1. Receives(c, {"stop", "idle"}) /\ UNCHANGED <<pc, turn, prompts, running, late, exposed, excused>>
  BY DEF RootTurnFinish
<1>2. CASE armed[c]
  <2>1. /\ EndRelay(c) /\ ~armed'[c]
        /\ \A d \in Convs \ {c} :
              armed'[d] = armed[d] /\ finished'[d] = finished[d] /\ reader'[d] = reader[d]
    BY <1>2 DEF RootTurnFinish, TypeOK, FlagsOK
  <2>. QED BY <1>1, <1>2, <2>1, OrderEnd
<1>3. CASE ~armed[c]
  <2>1. UNCHANGED <<flags, relay, stray>>
    BY <1>3 DEF RootTurnFinish
  <2>2. NoMore(events[c], events'[c]) /\ Kept
    BY <1>1, ReadsOn DEF Kept
  <2>3. Orderly(c) /\ Keeps(c)
    BY <1>1, KeepsSame DEF OrderInv
  <2>4. Orderly(c)'
    BY <1>1, <2>1, <2>2, <2>3, OrderlyFrame DEF flags
  <2>5. \A d \in Convs \ {c} : events'[d] = events[d]
    BY <1>1, ReadsOn
  <2>. QED BY <1>1, <2>1, <2>2, <2>4, <2>5, OrderElsewhere DEF flags
<1>. QED BY <1>2, <1>3

\* session.error ends the relay of the turn that failed.
LEMMA OrderError ==
    ASSUME TypeOK, OrderInv, NEW c \in Convs, SessionError(c)
    PROVE  OrderInv' /\ stray' \subseteq stray \cup Hasty
<1>1. /\ Receives(c, {"error"}) /\ EndRelay(c)
      /\ UNCHANGED <<pc, turn, armed, finished, reader, prompts, running, late, exposed,
                     excused>>
  BY DEF SessionError, flags
<1>2. finished'[c] => ~armed'[c]
  BY <1>1 DEF OrderInv, Orderly
<1>. QED BY <1>1, <1>2, OrderEnd

\* A lost stream leaves fewer reports.
LEMMA OrderStreamLost ==
    ASSUME TypeOK, OrderInv, NEW c \in Convs, StreamLost(c)
    PROVE  OrderInv'
<1>1. /\ events'[c] = <<>> /\ \A d \in Convs \ {c} : events'[d] = events[d]
      /\ UNCHANGED <<pc, turn, relay, armed, finished, reader, prompts, running>> /\ Kept
  BY DEF StreamLost, Kept, flags, history, TypeOK, ServerOK
<1>2. Orderly(c) /\ Keeps(c)
  BY <1>1, KeepsSame DEF OrderInv
<1>3. NoMore(events[c], events'[c])
  BY <1>1, NoMoreLost
<1>4. Orderly(c)'
  BY <1>1, <1>2, <1>3, OrderlyFrame
<1>. QED BY <1>1, <1>4, OrderElsewhere

\* The sets of reports, from narrow to wide.
LEMMA ReportSets ==
    ASSUME NEW n
    PROVE  /\ Disposals \subseteq Begins(n) /\ Begins(n) \subseteq Own(n)
           /\ Disposals \subseteq Own(n) /\ Disposals \subseteq Echoes
BY RemoteAssumption DEF Disposals, Begins, Own, Echoes

\* The server begins the prompt of the last turn.
LEMMA OrderBegins ==
    ASSUME TypeOK, OrderInv, NEW c \in Convs, ServerBegins(c)
    PROVE  OrderInv'
<1>1. /\ running[c] = 0 /\ prompts[c] # <<>>
      /\ UNCHANGED <<pc, turn, relay, armed, finished, reader, late, exposed, excused>>
  BY DEF ServerBegins, flags, history
<1>2. /\ running'[c] = Head(prompts[c]) /\ prompts'[c] = Tail(prompts[c])
      /\ events'[c] = events[c] \o <<Report("busy", Head(prompts[c]))>>
      /\ \A d \in Convs \ {c} : /\ events'[d] = events[d] /\ prompts'[d] = prompts[d]
                                /\ running'[d] = running[d]
  BY DEF ServerBegins, Emit, TypeOK, ServerOK
<1>3. Orderly(c) /\ events[c] \in Seq(Event) /\ prompts[c] \in Seq(0..MaxTurns)
  BY ConvTypes DEF OrderInv
<1>4. ASSUME Sent(c)' PROVE Course(c)'
  <2>1. Sent(c) /\ Course(c) /\ Now(c)' = Now(c)
    BY <1>1, <1>3, <1>4 DEF Sent, Now, Orderly, Hasty
  <2>2. pc[Now(c)] = "done" /\ Queued(c)
    BY <1>1, <2>1 DEF Course, Subscribed, Preparing, Working, Over, Sent
  <2>3. running'[c] = turn[c] /\ prompts'[c] = <<>>
    BY <1>2, <2>2 DEF Queued, Unarmed
  <2>4. Follows(events'[c], Begins(turn[c]))
    <3>1. Follows(events[c], Begins(turn[c]))
      BY <2>2, FollowsBoth DEF Queued, Unarmed
    <3>2. <<Report("busy", turn[c])>> \in Seq(Begins(turn[c]))
      BY DEF Report, Begins
    <3>3. Head(prompts[c]) = turn[c]
      BY <1>2, <2>3
    <3>4. Follows(events[c] \o <<Report("busy", turn[c])>>, Begins(turn[c]))
      BY <1>3, <3>1, <3>2, FollowsMore
    <3>. QED BY <1>2, <3>3, <3>4
  <2>5. Working(c)'
    BY <1>1, <2>1, <2>2, <2>3, <2>4 DEF Working, Queued, Unarmed, Listens, Trailing
  <2>. QED BY <1>1, <2>1, <2>2, <2>5 DEF Course
<1>5. Past(c)'
  <2> SUFFICES ASSUME NEW k \in 1..MaxTurns, k # turn[c], <<c, k>> \notin Hasty
               PROVE  /\ k < turn[c] => pc[<<c, k>>] = "done"
                      /\ running'[c] # k /\ prompts'[c] \in Seq((0..MaxTurns) \ {k})
    BY <1>1 DEF Past, Hasty
  <2>1. (k < turn[c] => pc[<<c, k>>] = "done") /\ prompts[c] \in Seq((0..MaxTurns) \ {k})
    BY <1>3 DEF Orderly, Past
  <2>2. Head(prompts[c]) \in (0..MaxTurns) \ {k} /\ Tail(prompts[c]) \in Seq((0..MaxTurns) \ {k})
    BY <1>1, <2>1, HeadTail
  <2>. QED BY <1>2, <2>1, <2>2
<1>6. Orderly(c)'
  BY <1>1, <1>3, <1>4, <1>5 DEF Orderly
<1>. QED BY <1>1, <1>2, <1>6, OrderElsewhere DEF Kept

\* The server ends the turn it works on, or nothing.
LEMMA OrderEnds ==
    ASSUME TypeOK, OrderInv, NEW c \in Convs, ServerEnds(c)
    PROVE  OrderInv'
<1>1. UNCHANGED <<pc, turn, relay, armed, finished, reader, prompts, late, exposed, excused>>
  BY DEF ServerEnds, flags, history
<1>2. /\ running'[c] = 0
      /\ \A d \in Convs \ {c} : running'[d] = running[d] /\ events'[d] = events[d]
  BY DEF ServerEnds, Emit, TypeOK, ServerOK
<1>3. running[c] = 0 => events' = events
  BY DEF ServerEnds
<1>4. running[c] # 0 =>
         \E r \in Seq(Own(running[c])) : events'[c] = events[c] \o r
  <2> SUFFICES ASSUME running[c] # 0
               PROVE  \E r \in Seq(Own(running[c])) : events'[c] = events[c] \o r
    OBVIOUS
  <2> DEFINE n == running[c]
             x == <<Report("stop", n), Report("idle", n)>>
             y == <<Report("stop", n), Report("idle", n), Report("busy", n), Report("idle", n)>>
             z == <<Report("error", n), Report("idle", n)>>
  <2>1. Emit(c, x) \/ Emit(c, y) \/ Emit(c, z)
    BY DEF ServerEnds
  <2>2. x \in Seq(Own(n)) /\ y \in Seq(Own(n)) /\ z \in Seq(Own(n))
    <3>1. \A k \in {"busy", "stop", "idle", "error"} : Report(k, n) \in Own(n)
      BY DEF Report, Own
    <3>. QED BY <3>1
  <2>3. \A r : Emit(c, r) => events'[c] = events[c] \o r
    BY DEF Emit, TypeOK, ServerOK
  <2> HIDE DEF n, x, y, z
  <2>4. n = running[c]
    BY DEF n
  <2>. QED BY <2>1, <2>2, <2>3, <2>4
<1>5. Orderly(c)
  BY DEF OrderInv
<1>6. ASSUME Sent(c)' PROVE Course(c)'
  <2>1. Sent(c) /\ Course(c) /\ Now(c)' = Now(c)
    BY <1>1, <1>5, <1>6 DEF Sent, Now, Orderly, Hasty
  <2>2. CASE running[c] = 0
    <3>1. running'[c] = running[c] /\ events'[c] = events[c]
      BY <1>2, <1>3, <2>2
    <3>. QED BY <1>1, <2>1, <3>1 DEF Course, Subscribed, Preparing, Queued, Unarmed, Working,
                Over, Listens, Trailing
  <2>3. CASE running[c] # 0
    <3>1. pc[Now(c)] = "done" /\ Working(c)
      BY <2>1, <2>3 DEF Course, Subscribed, Preparing, Queued, Unarmed, Over
    <3>2. PICK r \in Seq(Own(turn[c])) : events'[c] = events[c] \o r
      BY <1>4, <2>3, <3>1 DEF Working
    <3>3. Follows(events[c], Own(turn[c])) /\ (armed[c] => events[c] \in Seq(Own(turn[c])))
      BY <3>1, ReportSets, SeqWiden, FollowsWiden DEF Working, Trailing
    <3>4. Follows(events'[c], Own(turn[c])) /\ (armed[c] => events'[c] \in Seq(Own(turn[c])))
      BY <3>2, <3>3, ConcatProperties, FollowsMore, ConvTypes
    <3>5. Over(c)'
      BY <1>1, <1>2, <3>1, <3>4 DEF Over, Working, Trailing
    <3>. QED BY <1>1, <2>1, <3>1, <3>5 DEF Course
  <2>. QED BY <2>2, <2>3
<1>7. Past(c)'
  BY <1>1, <1>2, <1>5 DEF Past, Orderly, Hasty
<1>8. Orderly(c)'
  BY <1>1, <1>5, <1>6, <1>7 DEF Orderly
<1>. QED BY <1>1, <1>2, <1>8, OrderElsewhere DEF Kept

\* A disposal ends what is queued or worked on.
LEMMA OrderServerDisposed ==
    ASSUME TypeOK, OrderInv, ServerDisposed
    PROVE  OrderInv'
<1> SUFFICES ASSUME NEW c \in Convs PROVE Orderly(c)'
  BY DEF OrderInv
<1>1. UNCHANGED <<pc, turn, relay, armed, finished, reader, late, exposed, excused>>
  BY DEF ServerDisposed, flags, history
<1>2. /\ prompts'[c] = <<>> /\ running'[c] = 0
      /\ events'[c] = Append(events[c], Report("disposed", 0))
  BY DEF ServerDisposed
<1>3. Orderly(c)
  BY DEF OrderInv
<1>4. \A S : events[c] \in Seq(S) /\ Report("disposed", 0) \in S => events'[c] \in Seq(S)
  BY <1>2
<1>5. /\ Report("disposed", 0) \in Disposals /\ Report("disposed", 0) \in Repeats
      /\ Report("disposed", 0) \in Echoes
  BY RemoteAssumption DEF Report, Disposals, Repeats, Echoes
<1>6. ASSUME Sent(c)' PROVE Course(c)'
  <2>1. Sent(c) /\ Course(c) /\ Now(c)' = Now(c)
    BY <1>1, <1>3, <1>6 DEF Sent, Now, Orderly, Hasty
  <2>2. CASE pc[Now(c)] = "subscribed" /\ Subscribed(c)
    BY <1>1, <1>2, <1>4, <1>5, <2>1, <2>2 DEF Course, Subscribed
  <2>3. CASE pc[Now(c)] \in Unposted /\ Preparing(c)
    BY <1>1, <1>2, <1>4, <1>5, <2>1, <2>3 DEF Course, Preparing, Unarmed, Listens
  <2>4. CASE pc[Now(c)] = "done" /\ (Queued(c) \/ Working(c) \/ Over(c))
    <3>1. Follows(events[c], Own(turn[c])) /\ (armed[c] => events[c] \in Seq(Own(turn[c])))
      BY <2>4, ReportSets, SeqWiden, FollowsWiden, FollowsBoth
      DEF Queued, Unarmed, Working, Over, Trailing
    <3>2. Over(c)'
      <4>1. Report("disposed", 0) \in Own(turn[c])
        BY <1>5, ReportSets
      <4>2. <<Report("disposed", 0)>> \in Seq(Own(turn[c]))
        BY <4>1
      <4>3. events'[c] = events[c] \o <<Report("disposed", 0)>> /\ events[c] \in Seq(Event)
        BY <1>2, ConvTypes, AppendIsConcat
      <4>4. Follows(events'[c], Own(turn[c]))
        BY <3>1, <4>2, <4>3, FollowsMore
      <4>. QED BY <1>1, <1>2, <1>4, <3>1, <4>1, <4>4 DEF Over, Trailing
    <3>. QED BY <1>1, <2>1, <2>4, <3>2 DEF Course
  <2>. QED BY <2>1, <2>2, <2>3, <2>4 DEF Course
<1>7. Past(c)'
  <2>1. \A k \in 1..MaxTurns : running'[c] # k /\ prompts'[c] \in Seq((0..MaxTurns) \ {k})
    BY <1>2
  <2>. QED BY <1>1, <1>3, <2>1 DEF Past, Orderly, Hasty
<1>. QED BY <1>1, <1>3, <1>6, <1>7 DEF Orderly

\* A task that began belongs to a turn that was sent.
LEMMA BegunTask ==
    ASSUME TypeOK, FreshInv, OrderInv, NEW t \in Tasks, pc[t] \in {"subscribed", "post"}, t[2] # 0
    PROVE  /\ t[1] \in Convs /\ t[2] \in 1..turn[t[1]] /\ t = <<t[1], t[2]>>
           /\ t # Now(t[1]) => ~Sent(t[1]) /\ t \in Hasty
<1>1. t[1] \in Convs /\ t[2] \in 1..MaxTurns /\ t = <<t[1], t[2]>>
  BY TasksAre, RemoteAssumption
<1>2. turn[t[1]] \in 0..MaxTurns
  BY <1>1, ConvTypes
<1>3. t \in Begun
  BY DEF FreshInv
<1>4. t[2] <= turn[t[1]]
  BY <1>3 DEF Begun
<1>5. t[2] \in 1..turn[t[1]]
  BY <1>1, <1>2, <1>4
<1>6. ASSUME t # Now(t[1]) PROVE ~Sent(t[1]) /\ t \in Hasty
  <2>1. t[2] # turn[t[1]]
    BY <1>1, <1>6 DEF Now
  <2>2. t[2] \in 1..turn[t[1]] - 1 /\ t[2] < turn[t[1]]
    BY <1>2, <1>5, <2>1
  <2>3. pc[<<t[1], t[2]>>] # "done"
    BY <1>1
  <2>4. ~Course(t[1])
    BY <2>2, <2>3 DEF Course
  <2>5. Orderly(t[1])
    BY <1>1 DEF OrderInv
  <2>6. <<t[1], t[2]>> \in Hasty
    BY <1>1, <2>1, <2>2, <2>3, <2>5 DEF Orderly, Past
  <2>. QED BY <1>1, <2>4, <2>5, <2>6 DEF Orderly
<1>. QED BY <1>1, <1>5, <1>6

\* send_message lifts the lockout when no burst of an earlier turn is unread.
LEMMA OrderBegin ==
    ASSUME TypeOK, FreshInv, OrderInv, NEW t \in Tasks, BeginTurn(t)
    PROVE  OrderInv'
<1> DEFINE c == t[1]
<1>1. /\ pc[t] = "subscribed" /\ pc' = [pc EXCEPT ![t] = "acquire"]
      /\ exposed' = IF BurstUnread(c) THEN exposed \cup {t} ELSE exposed
      /\ excused' = IF reader[c] = "release" THEN excused \cup {t} ELSE excused
      /\ UNCHANGED <<turn, relay, armed, reader, events, prompts, running, late>>
  BY DEF BeginTurn, Goto, server, Overlaps
<1>2. t[2] # 0
  BY <1>1, SendsOnly DEF Connecting
<1>3. /\ c \in Convs /\ t[2] \in 1..turn[c] /\ t = <<c, t[2]>>
      /\ t # Now(c) => ~Sent(c) /\ t \in Hasty
  BY <1>1, <1>2, BegunTask
<1> HIDE DEF c
<1>4. finished'[c] = FALSE /\ \A d \in Convs \ {c} : finished'[d] = finished[d]
  BY <1>3 DEF BeginTurn, TypeOK, FlagsOK, c
<1>5. Orderly(c) /\ turn[c] \in 0..MaxTurns /\ \A k \in 0..MaxTurns : <<c, k>> \in Tasks
  BY <1>3, ConvTypes DEF OrderInv
<1>6. \A k \in 0..MaxTurns : k # t[2] => pc'[<<c, k>>] = pc[<<c, k>>]
  <2>1. \A k \in 0..MaxTurns : k # t[2] => <<c, k>> # t
    BY <1>3
  <2>. QED BY <1>1, <1>5, <2>1 DEF TypeOK, StagesOK
<1>7. pc'[t] = "acquire"
  BY <1>1 DEF TypeOK, StagesOK
<1>8. ASSUME Sent(c)' PROVE Course(c)'
  <2>1. Sent(c) /\ Now(c)' = Now(c)
    BY <1>1, <1>8 DEF Sent, Now, Hasty
  <2>2. t = Now(c) /\ t[2] = turn[c]
    BY <1>3, <2>1 DEF Now
  <2>3. ~BurstUnread(c) /\ Now(c)' = t
    BY <1>1, <1>8, <2>1, <2>2 DEF Sent, Hasty
  <2>4. Course(c) /\ pc[Now(c)] = "subscribed"
    BY <1>1, <1>5, <2>1, <2>2 DEF Orderly
  <2>5. Subscribed(c)
    BY <2>4 DEF Course, Unposted
  <2>6. Preparing(c)'
    <3>1. events[c] \in Seq(Echoes)
      <4>1. events[c] \in Seq(Repeats) /\ \A i \in 1..Len(events[c]) : events[c][i].kind # "busy"
        BY <2>3, <2>5 DEF Subscribed, BurstUnread
      <4>2. \A e \in Repeats : e.kind # "busy" => e \in Echoes
        BY DEF Repeats
      <4>3. \A i \in 1..Len(events[c]) : events[c][i] \in Echoes
        BY <4>1, <4>2
      <4>. QED BY <4>1, <4>3
    <3>2. Listens(c)'
      BY <1>1, <1>3, <2>3, <2>5 DEF Listens, Subscribed, TypeOK, FlagsOK
    <3>. QED BY <1>1, <2>5, <3>1, <3>2 DEF Preparing, Unarmed, Subscribed
  <2>7. \A k \in 1..turn[c] - 1 : pc'[<<c, k>>] = "done"
    <3>1. \A k \in 1..turn[c] - 1 : pc[<<c, k>>] = "done"
      BY <2>4 DEF Course
    <3>2. \A k \in 1..turn[c] - 1 : k \in 0..MaxTurns /\ k # t[2]
      BY <1>5, <2>2, RemoteAssumption
    <3>. QED BY <1>6, <3>1, <3>2
  <2>. QED BY <1>1, <1>7, <2>1, <2>2, <2>6, <2>7 DEF Course, Unposted
<1>9. Past(c)'
  <2> SUFFICES ASSUME NEW k \in 1..MaxTurns, k # turn[c], <<c, k>> \notin Hasty'
               PROVE  /\ k < turn[c] => pc'[<<c, k>>] = "done"
                      /\ running[c] # k /\ prompts[c] \in Seq((0..MaxTurns) \ {k})
    BY <1>1 DEF Past
  <2>1. <<c, k>> \notin Hasty
    BY <1>1 DEF Hasty
  <2>2. k # t[2]
    BY <1>3, <2>1 DEF Now
  <2>3. k \in 0..MaxTurns
    BY RemoteAssumption
  <2>. QED BY <1>5, <1>6, <2>1, <2>2, <2>3 DEF Orderly, Past
<1>10. Orderly(c)'
  <2>1. pc'[<<c, 0>>] \in Connecting
    BY <1>2, <1>5, <1>6, RemoteAssumption DEF Orderly
  <2>. QED BY <1>1, <1>4, <1>5, <1>8, <1>9, <2>1 DEF Orderly
<1>12. Kept
  BY <1>1 DEF Kept
<1>11. ASSUME NEW d \in Convs \ {c} PROVE Orderly(d)'
  <2>1. Orderly(d)
    BY DEF OrderInv
  <2>2. Keeps(d)
    BY <1>1, <2>1, KeepsOther DEF c
  <2>. QED BY <1>1, <1>4, <1>12, <2>1, <2>2, OrderlyFrame, NoMoreSame
<1>. QED BY <1>10, <1>11 DEF OrderInv

\* A posted prompt is the only one; a refused one leaves nothing.
LEMMA OrderPost ==
    ASSUME TypeOK, FreshInv, WaitInv, OrderInv, NEW t \in Tasks, PostPrompt(t)
    PROVE  OrderInv'
<1> DEFINE c == t[1]
           done == [pc EXCEPT ![t] = "done"]
<1>1. /\ pc[t] = "post" /\ (pc' = done \/ ReleaseTurn(c, done))
      /\ prompts' = [prompts EXCEPT ![c] = Append(@, t[2])] \/ UNCHANGED prompts
      /\ UNCHANGED <<turn, relay, armed, finished, reader, events, running, late,
                     exposed, excused>>
  BY DEF PostPrompt, flags, history
<1>2. t[2] # 0
  BY <1>1, SendsOnly DEF Connecting
<1>3. /\ c \in Convs /\ t[2] \in 1..turn[c] /\ t = <<c, t[2]>>
      /\ t # Now(c) => ~Sent(c) /\ t \in Hasty
  BY <1>1, <1>2, BegunTask
<1>4. \A u \in Tasks : u # t => \/ pc'[u] = pc[u]
                                \/ pc[u] = "waiting" /\ pc'[u] = "acquire"
  <2>1. done \in [Tasks -> Stages]
    BY DEF TypeOK, StagesOK, Stages
  <2>2. \A u \in Tasks : pc[u] = "waiting" => done[u] = "waiting"
    BY <1>1 DEF TypeOK, StagesOK
  <2>3. \A u \in Tasks : u # t => done[u] = pc[u]
    BY DEF TypeOK, StagesOK
  <2> HIDE DEF done
  <2>4. ReleaseTurn(c, done) =>
           \A u \in Tasks : pc'[u] = done[u] \/ (pc[u] = "waiting" /\ pc'[u] = "acquire")
    BY <2>1, <2>2, ReleaseWait DEF TypeOK
  <2>. QED BY <1>1, <2>3, <2>4
<1>5. pc'[t] = "done"
  <2>1. done \in [Tasks -> Stages] /\ done[t] = "done"
    BY DEF TypeOK, StagesOK, Stages
  <2>2. \A u \in Tasks : pc[u] = "waiting" => done[u] = "waiting"
    BY <1>1 DEF TypeOK, StagesOK
  <2> HIDE DEF done
  <2>3. ReleaseTurn(c, done) =>
           \A u \in Tasks : pc'[u] = done[u] \/ (pc[u] = "waiting" /\ pc'[u] = "acquire")
    BY <2>1, <2>2, ReleaseWait DEF TypeOK
  <2>. QED BY <1>1, <2>1, <2>3
<1> HIDE DEF c, done
<1>6. /\ prompts'[c] = Append(prompts[c], t[2]) \/ prompts'[c] = prompts[c]
      /\ \A d \in Convs \ {c} : prompts'[d] = prompts[d]
  BY <1>1, <1>3 DEF TypeOK, ServerOK
<1>7. Orderly(c) /\ turn[c] \in 0..MaxTurns /\ \A k \in 0..MaxTurns : <<c, k>> \in Tasks
  BY <1>3, ConvTypes DEF OrderInv
<1>8. \A k \in 0..MaxTurns : k # t[2] =>
         \/ pc'[<<c, k>>] = pc[<<c, k>>]
         \/ pc[<<c, k>>] = "waiting" /\ pc'[<<c, k>>] = "acquire"
  <2>1. \A k \in 0..MaxTurns : k # t[2] => <<c, k>> # t
    BY <1>3
  <2>. QED BY <1>4, <1>7, <2>1
<1>9. ASSUME Sent(c)' PROVE Course(c)'
  <2>1. Sent(c) /\ Now(c)' = Now(c)
    BY <1>1, <1>9 DEF Sent, Now, Hasty
  <2>2. t = Now(c) /\ t[2] = turn[c]
    BY <1>3, <2>1 DEF Now
  <2>3. Course(c) /\ pc[Now(c)] = "post"
    BY <1>1, <1>7, <2>1, <2>2 DEF Orderly
  <2>4. Preparing(c)
    BY <2>3 DEF Course
  <2>5. prompts'[c] = <<turn[c]>> \/ prompts'[c] = <<>>
    BY <1>6, <2>2, <2>4 DEF Preparing
  <2>6. Follows(events[c], Own(turn[c]))
    BY <2>4, FollowsBoth DEF Preparing, Unarmed
  <2>7. Queued(c)' \/ Over(c)'
    BY <1>1, <2>1, <2>4, <2>5, <2>6 DEF Preparing, Queued, Unarmed, Over, Listens, Trailing
  <2>8. \A k \in 1..turn[c] - 1 : pc'[<<c, k>>] = "done"
    <3>1. \A k \in 1..turn[c] - 1 : pc[<<c, k>>] = "done"
      BY <2>3 DEF Course
    <3>2. \A k \in 1..turn[c] - 1 : k \in 0..MaxTurns /\ k # t[2]
      BY <1>7, <2>2, RemoteAssumption
    <3>. QED BY <1>8, <3>1, <3>2
  <2>. QED BY <1>1, <1>5, <2>1, <2>2, <2>7, <2>8 DEF Course
<1>10. Past(c)'
  <2> SUFFICES ASSUME NEW k \in 1..MaxTurns, k # turn[c], <<c, k>> \notin Hasty
               PROVE  /\ k < turn[c] => pc'[<<c, k>>] = "done"
                      /\ running[c] # k /\ prompts'[c] \in Seq((0..MaxTurns) \ {k})
    BY <1>1 DEF Past, Hasty
  <2>1. /\ k < turn[c] => pc[<<c, k>>] = "done"
        /\ running[c] # k /\ prompts[c] \in Seq((0..MaxTurns) \ {k})
    BY <1>7 DEF Orderly, Past
  <2>2. k # t[2] /\ t[2] \in (0..MaxTurns) \ {k} /\ k \in 0..MaxTurns
    BY <1>3, <1>7, RemoteAssumption DEF Now
  <2>3. Append(prompts[c], t[2]) \in Seq((0..MaxTurns) \ {k})
    BY <2>1, <2>2
  <2>. QED BY <1>6, <1>8, <2>1, <2>2, <2>3
<1>11. Orderly(c)'
  <2>1. pc'[<<c, 0>>] \in Connecting
    BY <1>2, <1>7, <1>8, RemoteAssumption DEF Orderly, Connecting
  <2>. QED BY <1>1, <1>7, <1>9, <1>10, <2>1 DEF Orderly
<1>12. ASSUME NEW d \in Convs \ {c} PROVE Orderly(d)'
  <2>1. Orderly(d)
    BY DEF OrderInv
  <2>2. Keeps(d)
    <3>1. \A k \in 0..MaxTurns : <<d, k>> \in Tasks /\ <<d, k>> # t
      BY <1>3, ConvTypes
    <3>2. ASSUME NEW k \in 0..MaxTurns
          PROVE  \/ pc'[<<d, k>>] = pc[<<d, k>>]
                 \/ pc[<<d, k>>] = "waiting" /\ pc'[<<d, k>>] = "acquire"
      <4>1. <<d, k>> \in Tasks /\ <<d, k>> # t
        BY <3>1
      <4>. QED BY <1>4, <4>1
    <3>3. pc'[<<d, 0>>] \in Connecting
      BY <2>1, <3>2, RemoteAssumption DEF Orderly, Connecting
    <3>4. ASSUME NEW k \in 1..MaxTurns
          PROVE  pc'[<<d, k>>] = pc[<<d, k>>] \/ {pc[<<d, k>>], pc'[<<d, k>>]} \subseteq Unposted
      <4>1. k \in 0..MaxTurns
        BY RemoteAssumption
      <4>. QED BY <3>2, <4>1 DEF Unposted
    <3>. QED BY <3>3, <3>4 DEF Keeps
  <2>. QED BY <1>1, <1>6, <2>1, <2>2, OrderlyFrame, NoMoreSame DEF Kept
<1>. QED BY <1>11, <1>12 DEF OrderInv

\* A new turn finds the one before it over, or was sent too early.
LEMMA OrderSend ==
    ASSUME TypeOK, FreshInv, OrderInv, NEW c \in Convs, Send(c)
    PROVE  OrderInv'
<1> DEFINE n == turn[c] + 1
<1>1. /\ relay[c] = 0 /\ turn[c] < MaxTurns
      /\ pc' = [pc EXCEPT ![<<c, n>>] = "subscribed"]
      /\ late' = IF Settled(c, n) \/ Quiet(c, n) THEN late ELSE late \cup {<<c, n>>}
      /\ UNCHANGED <<armed, finished, reader, events, prompts, running, exposed, excused>>
  BY DEF Send, Goto, flags, server
<1>2. /\ turn'[c] = n /\ relay'[c] = n
      /\ \A d \in Convs \ {c} : turn'[d] = turn[d] /\ relay'[d] = relay[d]
  BY DEF Send, TypeOK, ConvsOK
<1>3. /\ turn[c] \in 0..MaxTurns /\ n \in 1..MaxTurns /\ n \in 0..MaxTurns
      /\ MaxTurns \in Nat /\ n = turn[c] + 1
  BY <1>1, ConvTypes
<1> HIDE DEF n
<1>4. Orderly(c) /\ \A k \in 0..MaxTurns : <<c, k>> \in Tasks
  BY ConvTypes DEF OrderInv
<1>5. \A k \in 0..MaxTurns : k # n => pc'[<<c, k>>] = pc[<<c, k>>]
  <2>1. \A k \in 0..MaxTurns : k # n => <<c, k>> # <<c, n>>
    OBVIOUS
  <2>. QED BY <1>1, <1>3, <1>4, <2>1 DEF TypeOK, StagesOK
<1>6. pc'[<<c, n>>] = "subscribed"
  BY <1>1, <1>3, <1>4 DEF TypeOK, StagesOK
<1>7. ASSUME Sent(c)' PROVE Course(c)'
  <2>1. Now(c)' = <<c, n>>
    BY <1>2 DEF Now
  <2>2. Settled(c, n) \/ Quiet(c, n)
    BY <1>1, <1>7, <2>1 DEF Sent, Hasty
  <2>3. \A k \in 1..n - 1 : pc[<<c, k>>] = "done"
    BY <2>2 DEF Settled, Quiet, Dispatched
  <2>4. \A k \in 1..n - 1 : pc'[<<c, k>>] = "done"
    <3>1. \A k \in 1..n - 1 : k \in 0..MaxTurns /\ k # n
      BY <1>3
    <3>. QED BY <1>5, <2>3, <3>1
  <2>5. prompts[c] = <<>> /\ running[c] = 0 /\ ~armed[c]
    BY <1>4, <2>2 DEF Settled, Quiet, Orderly
  <2>6. events[c] \in Seq(Repeats) /\ (finished[c] \/ events[c] \in Seq(Echoes))
    <3>1. CASE Settled(c, n)
      <4>1. events[c] \in Seq(Event) /\ \A i \in DOMAIN events[c] : events[c][i].kind # "error"
        BY <3>1, ConvTypes DEF Settled
      <4>2. \A i \in 1..Len(events[c]) : events[c][i] \in Repeats
        <5>1. \A e \in Event : e.kind # "error" => e \in Repeats
          BY DEF Event, Repeats, Echoes
        <5>2. \A i \in 1..Len(events[c]) : events[c][i] \in Event /\ events[c][i].kind # "error"
          BY <4>1
        <5>. QED BY <5>1, <5>2
      <4>3. events[c] \in Seq(Repeats)
        BY <4>1, <4>2
      <4>. QED BY <3>1, <4>3 DEF Settled
    <3>2. CASE Quiet(c, n)
      BY <3>2 DEF Quiet
    <3>. QED BY <2>2, <3>1, <3>2
  <2>7. Subscribed(c)'
    BY <1>1, <1>2, <2>5, <2>6 DEF Subscribed
  <2>. QED BY <1>2, <1>6, <2>1, <2>4, <2>7 DEF Course
<1>8. Past(c)'
  <2> SUFFICES ASSUME NEW k \in 1..MaxTurns, k # n, <<c, k>> \notin Hasty'
               PROVE  /\ k < n => pc'[<<c, k>>] = "done"
                      /\ running[c] # k /\ prompts[c] \in Seq((0..MaxTurns) \ {k})
    BY <1>1, <1>2 DEF Past
  <2>1. <<c, k>> \notin Hasty /\ k \in 0..MaxTurns /\ pc'[<<c, k>>] = pc[<<c, k>>]
    BY <1>1, <1>3, <1>5 DEF Hasty
  <2>2. CASE k # turn[c]
    <3>1. k < n => k < turn[c]
      BY <1>3, <2>2
    <3>. QED BY <1>4, <2>1, <2>2, <3>1 DEF Orderly, Past
  <2>3. CASE k = turn[c]
    <3>1. turn[c] # 0
      BY <2>3
    <3>2. Sent(c) /\ Course(c)
      BY <1>4, <2>1, <2>3, <3>1 DEF Sent, Now, Orderly
    <3>3. pc[Now(c)] = "done" /\ Over(c)
      BY <1>1, <3>1, <3>2 DEF Course, Subscribed, Preparing, Queued, Unarmed, Working, Listens
    <3>4. prompts[c] = <<>> /\ running[c] = 0
      BY <3>3 DEF Over
    <3>. QED BY <2>1, <2>3, <3>1, <3>3, <3>4 DEF Now
  <2>. QED BY <2>2, <2>3
<1>9. Orderly(c)'
  <2>1. 0 \in 0..MaxTurns /\ 0 # n
    BY <1>3
  <2>2. pc'[<<c, 0>>] \in Connecting
    BY <1>4, <1>5, <2>1 DEF Orderly
  <2>. QED BY <1>1, <1>2, <1>4, <1>7, <1>8, <2>2 DEF Orderly
<1>11. Kept
  BY <1>1 DEF Kept
<1>10. ASSUME NEW d \in Convs \ {c} PROVE Orderly(d)'
  <2>1. Orderly(d)
    BY DEF OrderInv
  <2>2. Keeps(d)
    BY <1>1, <1>3, <1>4, <2>1, KeepsOther
  <2>. QED BY <1>1, <1>2, <1>11, <2>1, <2>2, OrderlyFrame, NoMoreSame
<1>. QED BY <1>9, <1>10 DEF OrderInv

\* Every step keeps the turns in order, and ends only the relay of the turn
\* whose report it reads, unless that turn was sent or begun too early.
LEMMA OrderStep ==
    ASSUME TypeOK, FreshInv, WaitInv, OrderInv, [Next]_vars
    PROVE  OrderInv' /\ stray' \subseteq stray \cup Hasty
<1>1. ASSUME NEW t \in Tasks, TaskStep(t) \/ TimeOut(t) PROVE OrderInv'
  BY <1>1, OrderBegin, OrderAcquire, OrderRegister, OrderPost, OrderTimeOut DEF TaskStep
<1>2. ASSUME NEW c \in Convs, Connect(c) \/ Send(c) \/ Cancel(c) PROVE OrderInv'
  BY <1>2, OrderConnect, OrderSend, OrderCancel
<1>3. ASSUME NEW c \in Convs, Read(c) \/ Serve(c) \/ StreamLost(c) PROVE OrderInv'
  BY <1>3, OrderBusy, OrderFinish, OrderCancel, OrderError, OrderDisposed, OrderBegins,
     OrderEnds, OrderStreamLost
  DEF Read, Serve
<1>4. ASSUME ServerDisposed PROVE OrderInv'
  BY <1>4, OrderServerDisposed
<1>5. ASSUME UNCHANGED vars PROVE OrderInv'
  <2> SUFFICES ASSUME NEW c \in Convs PROVE Orderly(c)'
    BY DEF OrderInv
  <2>1. Orderly(c) /\ Keeps(c)
    BY <1>5, KeepsSame DEF OrderInv, vars
  <2>. QED BY <1>5, <2>1, OrderlyFrame, NoMoreSame DEF vars, flags, server, history, Kept
<1>6. OrderInv'
  BY <1>1, <1>2, <1>3, <1>4, <1>5 DEF Next
<1>7. CASE \E c \in Convs : RootTurnFinish(c) \/ SessionError(c)
  BY <1>6, <1>7, OrderFinish, OrderError
<1>8. CASE ~\E c \in Convs : RootTurnFinish(c) \/ SessionError(c)
  <2>1. stray' = stray
    BY <1>8 DEF Next, vars, history, TaskStep, Read, Serve, BeginTurn, AcquireTurn, AlreadyOwned,
       LockRegistration, RegisterCandidate, VerifyDialBack, RegisterFallback, PostPrompt, TimeOut,
       Connect, Send, Cancel, Busy, ReleaseSlot, Disposed, ServerBegins, ServerEnds, StreamLost,
       ServerDisposed
  <2>. QED BY <1>6, <2>1
<1>. QED BY <1>7, <1>8

\* The history of turns sent or begun too early only grows.
LEMMA HastyGrows ==
    ASSUME [Next]_vars
    PROVE  Hasty \subseteq Hasty'
<1>1. late \subseteq late' /\ exposed \subseteq exposed'
  BY DEF Next, vars, history, TaskStep, Read, Serve, BeginTurn, Overlaps, AcquireTurn,
     AlreadyOwned, LockRegistration, RegisterCandidate, VerifyDialBack, RegisterFallback,
     PostPrompt, TimeOut, Connect, Send, Cancel, Busy, RootTurnFinish, SessionError, ReleaseSlot,
     Disposed, ServerBegins, ServerEnds, StreamLost, ServerDisposed
<1>. QED BY <1>1 DEF Hasty

\* Nothing is in flight at the start.
LEMMA OrderInit ==
    ASSUME Init
    PROVE  FreshInv /\ WaitInv /\ OrderInv /\ FinishIsOwn
<1>1. FreshInv /\ WaitInv
  BY DEF Init, FreshInv, WaitInv
<1>2. ASSUME NEW c \in Convs PROVE Orderly(c)
  <2>1. turn[c] = 0 /\ relay[c] = 0 /\ armed[c] = FALSE /\ prompts[c] = <<>> /\ running[c] = 0
    BY DEF Init
  <2>2. <<c, 0>> \in Tasks
    BY RemoteAssumption DEF Tasks
  <2>3. pc[<<c, 0>>] \in Connecting
    BY <2>2 DEF Init, Connecting
  <2>4. \A k \in 1..MaxTurns : running[c] # k /\ prompts[c] \in Seq((0..MaxTurns) \ {k}) /\ ~(k < 0)
    BY <2>1
  <2>. QED BY <2>1, <2>3, <2>4 DEF Orderly, Sent, Past
<1>3. FinishIsOwn
  BY DEF Init, FinishIsOwn
<1>. QED BY <1>1, <1>2, <1>3 DEF OrderInv

\* For any number of conversations, turns and troubles: emit_root_turn_finish
\* and session.error end a relay only with a report of the relay's own turn,
\* unless that turn was sent while an earlier one was in flight or begun while
\* a finalization burst of an earlier one was unread.  Unread stops, idles and
\* disposals of earlier turns do no harm.
THEOREM FinishIsTheTurnsOwn == Spec => []FinishIsOwn
<1>1. TypeOK /\ FreshInv /\ WaitInv /\ OrderInv /\ FinishIsOwn /\ [Next]_vars
        => FreshInv' /\ WaitInv' /\ OrderInv' /\ FinishIsOwn'
  BY FreshStep, WaitInvStep, OrderStep, HastyGrows DEF FinishIsOwn, Hasty
<1>. QED BY <1>1, RemoteTypes, OrderInit, PTL DEF Spec

-----------------------------------------------------------------------------
(* The slot and the tools of a turn                                         *)

\* From the slot on, a send claims it; from the registration on, the tools.
AtWork(c) == pc[Now(c)] = "done" /\ (prompts[c] # <<>> \/ running[c] # 0)
Claims(c) == pc[Now(c)] \in {"ensure", "candidate", "verify", "fallback", "post"} \/ AtWork(c)
Ready(c) == pc[Now(c)] = "post" \/ AtWork(c)

\* What it claims it has, unless it was excused.
Held(c) ==
    Sent(c) /\ Now(c) \notin excused =>
        (Claims(c) => active = c) /\ (Ready(c) => registered = c)

HeldInv == ~failed => \A c \in Convs : Held(c)

\* Until something fails no instance of the server was disposed of.
Alive == [kind : {"busy", "stop", "idle", "error"}, turn : 0..MaxTurns]
AliveInv == ~failed => \A c \in Convs : events[c] \in Seq(Alive)

\* A failure is remembered.
LEMMA FailedStays ==
    ASSUME [Next]_vars, failed
    PROVE  failed'
BY DEF Next, vars, counts, Fault, Trouble, TaskStep, Read, Serve, BeginTurn, AcquireTurn,
   AlreadyOwned, LockRegistration, RegisterCandidate, VerifyDialBack, RegisterFallback, PostPrompt,
   TimeOut, Connect, Send, Cancel, Busy, RootTurnFinish, SessionError, ReleaseSlot, Disposed,
   ServerBegins, ServerEnds, StreamLost, ServerDisposed

\* A step that takes nothing of what c claims away from it.
LEMMA HeldFrame ==
    ASSUME NEW c \in Convs, Held(c), turn'[c] = turn[c], Kept,
           Claims(c)' => Claims(c) /\ (active = c => active' = c),
           Ready(c)' => Ready(c) /\ (registered = c => registered' = c)
    PROVE  Held(c)'
BY DEF Held, Sent, Now, Hasty, Kept

\* A step that gives c nothing to claim.
LEMMA SameClaims ==
    ASSUME NEW c \in Convs, turn'[c] = turn[c], prompts'[c] = prompts[c],
           running'[c] = running[c],
           pc'[Now(c)] = pc[Now(c)] \/ pc'[Now(c)] \in {"subscribed", "acquire", "waiting"}
    PROVE  (Claims(c)' => Claims(c)) /\ (Ready(c)' => Ready(c)) /\ Now(c)' = Now(c)
BY DEF Claims, Ready, AtWork, Now

\* A claim means a relay that listens, and a reader not about to release.
LEMMA ClaimsListen ==
    ASSUME NEW c \in Convs, OrderInv, Sent(c), Claims(c), Now(c) \notin excused
    PROVE  reader[c] = "read"
<1>1. Course(c)
  BY DEF OrderInv, Orderly
<1>. QED BY <1>1 DEF Course, Claims, AtWork, Preparing, Queued, Unarmed, Working, Over, Listens

\* The last turn of a conversation is a task.
LEMMA NowIsTask ==
    ASSUME TypeOK, NEW c \in Convs
    PROVE  /\ Now(c) \in Tasks /\ Now(c)[1] = c /\ Now(c)[2] = turn[c]
           /\ turn[c] # 0 => Now(c) \in TurnsOf(c)
<1>1. turn[c] \in 0..MaxTurns /\ MaxTurns \in Nat
  BY ConvTypes
<1>2. Now(c) = <<c, turn[c]>> /\ Now(c) \in Tasks
  BY <1>1, ConvTypes DEF Now
<1>3. turn[c] # 0 => turn[c] \in 1..MaxTurns
  BY <1>1
<1>4. turn[c] # 0 => Now(c) \in TurnsOf(c)
  BY <1>2, <1>3 DEF TurnsOf
<1>. QED BY <1>2, <1>4

\* Another task's move leaves the sends of c where they are.
LEMMA OtherMove ==
    ASSUME TypeOK, NEW t \in Tasks, NEW x, pc' = [pc EXCEPT ![t] = x], NEW c \in Convs, Now(c) # t
    PROVE  pc'[Now(c)] = pc[Now(c)]
BY NowIsTask DEF TypeOK, StagesOK

\* acquire_turn gives the slot only when nobody claims it.
LEMMA HeldAcquire ==
    ASSUME TypeOK, NEW c \in Convs, Held(c), NEW t \in Tasks, AcquireTurn(t)
    PROVE  Held(c)'
<1>1. UNCHANGED <<registered, turn, prompts, running, excused, late, exposed>>
  BY DEF AcquireTurn, tools, server, history
<1>2. CASE t[1] # c /\ active \in {None, t[1]} /\ active' = t[1] /\ Goto(t, "ensure")
  <2>1. active # c
    BY <1>2, RemoteAssumption
  <2>2. Now(c) # t
    BY <1>2 DEF Now
  <2>3. pc'[Now(c)] = pc[Now(c)]
    BY <1>2, <2>2, OtherMove DEF Goto
  <2>4. Claims(c)' => Claims(c)
    BY <1>1, <2>3, SameClaims
  <2>5. Ready(c)' => Claims(c)'
    BY DEF Ready, Claims
  <2>. QED BY <1>1, <2>1, <2>4, <2>5 DEF Held, Sent, Now, Hasty
<1>3. CASE t[1] = c /\ active' = c /\ Goto(t, "ensure")
  <2>1. Ready(c)' => Ready(c)
    <3>1. CASE Now(c) = t
      <4>1. pc'[Now(c)] = "ensure"
        BY <1>3, <3>1 DEF Goto, TypeOK, StagesOK
      <4>. QED BY <1>1, <4>1 DEF Ready, AtWork, Now
    <3>2. CASE Now(c) # t
      <4>1. pc'[Now(c)] = pc[Now(c)]
        BY <1>3, <3>2, OtherMove DEF Goto
      <4>. QED BY <1>1, <4>1, SameClaims
    <3>. QED BY <3>1, <3>2
  <2>. QED BY <1>1, <1>3, <2>1 DEF Held, Sent, Now, Hasty
<1>4. CASE active' = active /\ (pc' = pc \/ Goto(t, "waiting"))
  <2>1. pc'[Now(c)] = pc[Now(c)] \/ pc'[Now(c)] = "waiting"
    BY <1>4, NowIsTask DEF Goto, TypeOK, StagesOK
  <2>2. (Claims(c)' => Claims(c)) /\ (Ready(c)' => Ready(c))
    BY <1>1, <2>1, SameClaims
  <2>. QED BY <1>1, <1>4, <2>2, HeldFrame DEF Kept
<1>. QED BY <1>2, <1>3, <1>4 DEF AcquireTurn

\* A timed-out wait excuses the turns of the holder it overtakes.
LEMMA HeldTimeOut ==
    ASSUME TypeOK, NEW c \in Convs, Held(c), NEW t \in Tasks, TimeOut(t)
    PROVE  Held(c)'
<1>1. /\ UNCHANGED <<registered, turn, prompts, running, late, exposed>>
      /\ active' = t[1] /\ pc' = [pc EXCEPT ![t] = "ensure"]
      /\ excused' = excused \cup (IF active \in Convs THEN TurnsOf(active) ELSE {})
  BY DEF TimeOut, tools, server, Goto
<1>2. Ready(c)' => Ready(c)
  <2>1. CASE Now(c) = t
    <3>1. pc'[Now(c)] = "ensure"
      BY <1>1, <2>1 DEF TypeOK, StagesOK
    <3>. QED BY <1>1, <3>1 DEF Ready, AtWork, Now
  <2>2. CASE Now(c) # t
    <3>1. pc'[Now(c)] = pc[Now(c)]
      BY <1>1, <2>2, OtherMove
    <3>. QED BY <1>1, <3>1, SameClaims
  <2>. QED BY <2>1, <2>2
<1>3. CASE t[1] = c
  BY <1>1, <1>2, <1>3 DEF Held, Sent, Now, Hasty
<1>4. CASE t[1] # c
  <2>1. Now(c) # t
    BY <1>4 DEF Now
  <2>2. pc'[Now(c)] = pc[Now(c)]
    BY <1>1, <2>1, OtherMove
  <2>3. Claims(c)' => Claims(c)
    BY <1>1, <2>2, SameClaims
  <2>4. Sent(c)' => Sent(c) /\ Now(c) \in TurnsOf(c) /\ Now(c)' = Now(c)
    BY <1>1, NowIsTask DEF Sent, Now, Hasty
  <2>. QED BY <1>1, <1>2, <2>3, <2>4 DEF Held
<1>. QED BY <1>3, <1>4

\* A registration step of another send, made with the slot or at the expense
\* of turns it excuses.
LEMMA HeldOthers ==
    ASSUME TypeOK, NEW c \in Convs, Held(c), NEW t \in Tasks, NEW x,
           pc' = [pc EXCEPT ![t] = x], Now(c) # t, active' = active,
           UNCHANGED <<turn, prompts, running, late, exposed>>, excused \subseteq excused',
           \/ registered' = registered
           \/ registered' = t[1] /\ excused' = excused \cup Robbed(t)
    PROVE  Held(c)'
<1>1. (Claims(c)' => Claims(c)) /\ (Ready(c)' => Ready(c)) /\ Now(c)' = Now(c)
  BY OtherMove, SameClaims
<1>2. CASE registered' = registered
  BY <1>1, <1>2, HeldFrame DEF Kept
<1>3. CASE registered' = t[1] /\ excused' = excused \cup Robbed(t)
  <2> SUFFICES ASSUME Sent(c)', Now(c)' \notin excused'
               PROVE  (Claims(c)' => active' = c) /\ (Ready(c)' => registered' = c)
    BY DEF Held
  <2>1. Sent(c) /\ Now(c) \in TurnsOf(c) /\ Now(c) \notin excused
    BY <1>1, NowIsTask DEF Sent, Hasty
  <2>2. (Claims(c) => active = c) /\ (Ready(c) => Claims(c))
    BY <2>1 DEF Held, Claims, Ready
  <2>3. t[1] # c => active = t[1]
    BY <1>1, <1>3, <2>1 DEF Robbed
  <2>. QED BY <1>1, <1>3, <2>2, <2>3
<1>. QED BY <1>2, <1>3

\* Skipping the registration is right while no registration is under way.
LEMMA HeldOwned ==
    ASSUME TypeOK, MapIsTrue, ~failed, NEW c \in Convs, Held(c), NEW t \in Tasks, AlreadyOwned(t)
    PROVE  Held(c)'
<1>1. /\ pc[t] = "ensure" /\ owner = t[1] /\ pc' = [pc EXCEPT ![t] = Onward(t)]
      /\ excused' = IF mutex = None THEN excused ELSE excused \cup {t}
      /\ UNCHANGED <<active, registered, turn, prompts, running, late, exposed>>
  BY DEF AlreadyOwned, Goto, slot, tools, server
<1>2. CASE Now(c) # t
  BY <1>1, <1>2, HeldOthers
<1>3. CASE Now(c) = t
  <2>1. Now(c)' = t /\ t[1] = c
    BY <1>1, <1>3 DEF Now
  <2> SUFFICES ASSUME Sent(c)', t \notin excused'
               PROVE  active' = c /\ registered' = c
    BY <2>1 DEF Held
  <2>2. mutex = None /\ t \notin excused /\ Sent(c)
    BY <1>1, <1>3, <2>1 DEF Sent, Hasty
  <2>3. Claims(c)
    BY <1>1, <1>3 DEF Claims
  <2>. QED BY <1>1, <1>3, <2>1, <2>2, <2>3 DEF Held, MapIsTrue
<1>. QED BY <1>2, <1>3

\* A registration points the tools at its own conversation.
LEMMA HeldRegister ==
    ASSUME TypeOK, RegInv, ~failed, ~failed', NEW c \in Convs, Held(c), NEW t \in Tasks,
           LockRegistration(t) \/ RegisterCandidate(t) \/ VerifyDialBack(t) \/ RegisterFallback(t)
    PROVE  Held(c)'
<1>0. ~RegisterFallback(t)
  BY DEF RegisterFallback, RegInv
<1>1. /\ UNCHANGED <<active, turn, prompts, running, late, exposed>>
      /\ \/ pc[t] = "ensure" /\ Goto(t, "candidate") /\ UNCHANGED <<registered, excused>>
         \/ /\ pc[t] = "candidate" /\ Goto(t, "verify")
            /\ registered' = t[1] /\ excused' = excused \cup Robbed(t)
         \/ /\ pc[t] = "verify" /\ Goto(t, Onward(t))
            /\ registered' = registered /\ excused' = excused \cup Robbed(t)
  BY <1>0 DEF LockRegistration, RegisterCandidate, VerifyDialBack, Fault, slot, server, history
<1>2. CASE Now(c) # t
  <2>1. PICK x : pc' = [pc EXCEPT ![t] = x]
    BY <1>1 DEF Goto
  <2>. QED BY <1>1, <1>2, <2>1, HeldOthers
<1>3. CASE Now(c) = t
  <2>1. Now(c)' = t /\ t[1] = c
    BY <1>1, <1>3 DEF Now
  <2> SUFFICES ASSUME Sent(c)', t \notin excused'
               PROVE  (Claims(c)' => active' = c) /\ (Ready(c)' => registered' = c)
    BY <2>1 DEF Held
  <2>2. t \notin excused /\ Sent(c) /\ Claims(c)
    BY <1>1, <1>3, <2>1 DEF Sent, Claims, Hasty
  <2>3. active' = c
    BY <1>1, <1>3, <2>2 DEF Held
  <2>4. Ready(c)' => registered' = c
    <3>1. CASE pc[t] = "ensure" /\ Goto(t, "candidate")
      BY <2>1, <3>1 DEF Ready, AtWork, Goto, TypeOK, StagesOK
    <3>2. CASE registered' = t[1]
      BY <2>1, <3>2
    <3>3. CASE pc[t] = "verify" /\ registered' = registered
      BY <2>1, <3>3 DEF RegInv
    <3>. QED BY <1>1, <3>1, <3>2, <3>3
  <2>. QED BY <2>3, <2>4
<1>. QED BY <1>2, <1>3

\* A send that begins claims nothing yet.
LEMMA HeldBegin ==
    ASSUME TypeOK, NEW c \in Convs, Held(c), NEW t \in Tasks, BeginTurn(t)
    PROVE  Held(c)'
<1>1. /\ pc' = [pc EXCEPT ![t] = "acquire"] /\ Kept
      /\ UNCHANGED <<active, registered, turn, prompts, running>>
  BY DEF BeginTurn, Overlaps, Goto, slot, tools, server, Kept
<1>2. pc'[Now(c)] = pc[Now(c)] \/ pc'[Now(c)] = "acquire"
  BY <1>1, NowIsTask DEF TypeOK, StagesOK
<1>. QED BY <1>1, <1>2, SameClaims, HeldFrame DEF Kept

\* A posted prompt is backed by slot and tools.
LEMMA HeldPost ==
    ASSUME TypeOK, FreshInv, OrderInv, ~failed', NEW c \in Convs, Held(c),
           NEW t \in Tasks, PostPrompt(t)
    PROVE  Held(c)'
<1>1. /\ pc[t] = "post" /\ pc' = [pc EXCEPT ![t] = "done"]
      /\ prompts' = [prompts EXCEPT ![t[1]] = Append(@, t[2])]
      /\ UNCHANGED <<active, registered, turn, running, excused, late, exposed>>
  BY DEF PostPrompt, Fault, slot, tools, history
<1>2. t[2] # 0
  BY <1>1, SendsOnly DEF Connecting
<1>3. t[1] \in Convs /\ (t # Now(t[1]) => ~Sent(t[1]))
  BY <1>1, <1>2, BegunTask
<1>4. CASE t = Now(c)
  <2>1. Claims(c) /\ Ready(c)
    BY <1>1, <1>4 DEF Claims, Ready
  <2>. QED BY <1>1, <2>1, HeldFrame DEF Kept
<1>5. CASE t # Now(c) /\ t[1] = c
  BY <1>1, <1>3, <1>5 DEF Held, Sent, Now, Hasty
<1>6. CASE t # Now(c) /\ t[1] # c
  <2>1. prompts'[c] = prompts[c]
    BY <1>1, <1>6 DEF TypeOK, ServerOK
  <2>2. pc'[Now(c)] = pc[Now(c)]
    BY <1>1, <1>6, OtherMove
  <2>. QED BY <1>1, <2>1, <2>2, SameClaims, HeldFrame DEF Kept
<1>. QED BY <1>4, <1>5, <1>6

\* A connect is not a turn.
LEMMA HeldConnect ==
    ASSUME TypeOK, NEW c \in Convs, Held(c), NEW d \in Convs, Connect(d)
    PROVE  Held(c)'
<1>1. /\ \E x : pc' = [pc EXCEPT ![<<d, 0>>] = x]
      /\ UNCHANGED <<active, registered, turn, prompts, running, excused, late, exposed>>
  BY DEF Connect, Goto, slot, tools, server, history
<1>2. CASE turn[c] = 0
  BY <1>1, <1>2 DEF Held, Sent, Hasty
<1>3. CASE turn[c] # 0
  <2>1. Now(c) # <<d, 0>> /\ <<d, 0>> \in Tasks
    BY <1>3, ConvTypes DEF Now
  <2>2. pc'[Now(c)] = pc[Now(c)]
    BY <1>1, <2>1, OtherMove
  <2>. QED BY <1>1, <2>2, SameClaims, HeldFrame DEF Kept
<1>. QED BY <1>2, <1>3

\* A new turn claims nothing.
LEMMA HeldSend ==
    ASSUME TypeOK, NEW c \in Convs, Held(c), NEW d \in Convs, Send(d)
    PROVE  Held(c)'
<1>1. /\ pc' = [pc EXCEPT ![<<d, turn[d] + 1>>] = "subscribed"] /\ turn[d] < MaxTurns
      /\ turn' = [turn EXCEPT ![d] = @ + 1] /\ Kept
      /\ UNCHANGED <<active, registered, prompts, running>>
  BY DEF Send, Goto, slot, tools, server, Kept
<1>2. <<d, turn[d] + 1>> \in Tasks
  BY <1>1, ConvTypes
<1>3. CASE c = d
  <2>1. Now(c)' = <<d, turn[d] + 1>>
    BY <1>1, <1>3 DEF Now, TypeOK, ConvsOK
  <2>2. pc'[<<d, turn[d] + 1>>] = "subscribed"
    BY <1>1, <1>2 DEF TypeOK, StagesOK
  <2>. QED BY <2>1, <2>2 DEF Held, Claims, Ready, AtWork
<1>4. CASE c # d
  <2>1. turn'[c] = turn[c] /\ Now(c) # <<d, turn[d] + 1>>
    BY <1>1, <1>4 DEF Now, TypeOK, ConvsOK
  <2>2. pc'[Now(c)] = pc[Now(c)]
    BY <1>1, <1>2, <2>1, OtherMove
  <2>. QED BY <1>1, <2>1, <2>2, SameClaims, HeldFrame DEF Kept
<1>. QED BY <1>3, <1>4

\* A release takes the slot from its holder only.
LEMMA HeldRelease ==
    ASSUME TypeOK, WaitInv, NEW c \in Convs, Held(c), NEW d \in Convs, ReleaseTurn(d, pc),
           UNCHANGED <<registered, turn, prompts, running, late, exposed>>, excused \subseteq excused',
           d = c => ~Sent(c) \/ Now(c) \in excused' \/ ~Claims(c)
    PROVE  Held(c)'
<1>1. pc'[Now(c)] = pc[Now(c)] \/ pc'[Now(c)] = "acquire"
  BY NowIsTask, ReleaseWait DEF TypeOK, StagesOK
<1>2. (Claims(c)' => Claims(c)) /\ (Ready(c)' => Ready(c)) /\ Now(c)' = Now(c)
  BY <1>1, SameClaims
<1>3. d # c => (active = c => active' = c)
  BY DEF ReleaseTurn, slot
<1>4. CASE d # c
  BY <1>2, <1>3, <1>4, HeldFrame DEF Kept
<1>5. CASE d = c
  <2>1. Ready(c)' => Claims(c)'
    BY DEF Ready, Claims
  <2>. QED BY <1>2, <1>5, <2>1 DEF Held, Sent, Hasty
<1>. QED BY <1>4, <1>5

\* A stop excuses the turns it stops; the reader releases when nothing of the
\* conversation claims the slot; an instance is not disposed of unless
\* something failed.
LEMMA HeldStops ==
    ASSUME TypeOK, WaitInv, OrderInv, AliveInv, ~failed, NEW c \in Convs, Held(c),
           NEW d \in Convs, Cancel(d) \/ ReleaseSlot(d) \/ Disposed(d)
    PROVE  Held(c)'
<1>1. CASE Cancel(d)
  <2>1. /\ ReleaseTurn(d, pc) /\ UNCHANGED <<registered, turn, prompts, running, late, exposed>>
        /\ excused' = excused \cup TurnsOf(d)
    BY <1>1 DEF Cancel, tools, server
  <2>2. d = c => ~Sent(c) \/ Now(c) \in excused'
    BY <2>1, NowIsTask DEF Sent, Hasty
  <2>. QED BY <2>1, <2>2, HeldRelease
<1>2. CASE ReleaseSlot(d)
  <2>1. /\ ReleaseTurn(d, pc) /\ UNCHANGED <<registered, turn, prompts, running, excused, late, exposed>>
        /\ reader[d] = "release"
    BY <1>2 DEF ReleaseSlot, tools, server, history
  <2>2. d = c => ~Sent(c) \/ Now(c) \in excused' \/ ~Claims(c)
    BY <2>1, ClaimsListen
  <2>. QED BY <2>1, <2>2, HeldRelease
<1>3. CASE Disposed(d)
  <2>1. Receives(d, {"disposed"}) /\ events[d] \in Seq(Alive)
    BY <1>3 DEF Disposed, AliveInv
  <2>2. Incoming(d).kind = "disposed" /\ Incoming(d) \in Alive
    BY <2>1, ReadsOn
  <2>. QED BY <2>2 DEF Alive
<1>. QED BY <1>1, <1>2, <1>3

\* Reading reports and serving prompts.
LEMMA HeldStream ==
    ASSUME TypeOK, NEW c \in Convs, Held(c), NEW d \in Convs,
           \/ Busy(d) \/ RootTurnFinish(d) \/ SessionError(d)
           \/ ServerBegins(d) \/ ServerEnds(d)
    PROVE  Held(c)'
<1>1. UNCHANGED <<active, registered, pc, turn, excused, late, exposed>>
  BY DEF Busy, RootTurnFinish, SessionError, ServerBegins, ServerEnds, slot, tools, history
<1>2. \/ prompts'[c] = prompts[c] /\ running'[c] = running[c]
      \/ prompts[c] # <<>>
      \/ prompts'[c] = prompts[c] /\ running'[c] = 0
  BY DEF Busy, RootTurnFinish, SessionError, ServerBegins, ServerEnds, TypeOK, ServerOK
<1>3. (Claims(c)' => Claims(c)) /\ (Ready(c)' => Ready(c))
  BY <1>1, <1>2 DEF Claims, Ready, AtWork, Now
<1>. QED BY <1>1, <1>3, HeldFrame DEF Kept

\* Every step leaves every turn what it claims.
LEMMA HeldStep ==
    ASSUME TypeOK, FreshInv, WaitInv, OrderInv, RegInv, MapIsTrue, HeldInv, AliveInv, [Next]_vars
    PROVE  HeldInv'
<1> SUFFICES ASSUME ~failed', NEW c \in Convs PROVE Held(c)'
  BY DEF HeldInv
<1>0. ~failed
  BY FailedStays
<1>1. Held(c)
  BY <1>0 DEF HeldInv
<1>2. ASSUME NEW t \in Tasks, TaskStep(t) \/ TimeOut(t) PROVE Held(c)'
  BY <1>0, <1>1, <1>2, HeldBegin, HeldAcquire, HeldOwned, HeldRegister, HeldPost, HeldTimeOut
  DEF TaskStep
<1>3. ASSUME NEW d \in Convs, Connect(d) \/ Send(d) \/ Cancel(d) PROVE Held(c)'
  BY <1>0, <1>1, <1>3, HeldConnect, HeldSend, HeldStops
<1>4. ASSUME NEW d \in Convs, Read(d) \/ Serve(d) PROVE Held(c)'
  BY <1>0, <1>1, <1>4, HeldStream, HeldStops DEF Read, Serve
<1>5. ~ServerDisposed /\ \A d \in Convs : ~StreamLost(d)
  BY DEF ServerDisposed, StreamLost, Fault
<1>6. ASSUME UNCHANGED vars PROVE Held(c)'
  <2>1. UNCHANGED <<active, registered, pc, turn, prompts, running, excused, late, exposed>>
    BY <1>6 DEF vars, slot, tools, server, history
  <2>. QED BY <1>1, <2>1, SameClaims, HeldFrame DEF Kept
<1>. QED BY <1>2, <1>3, <1>4, <1>5, <1>6 DEF Next

\* Every step keeps disposals off the streams until something fails.
LEMMA AliveStep ==
    ASSUME TypeOK, AliveInv, [Next]_vars
    PROVE  AliveInv'
<1> SUFFICES ASSUME ~failed', NEW c \in Convs PROVE events'[c] \in Seq(Alive)
  BY DEF AliveInv
<1>0. ~failed
  BY FailedStays
<1>1. events[c] \in Seq(Alive) /\ events[c] \in Seq(Event)
  BY <1>0, ConvTypes DEF AliveInv
<1>2. ASSUME NEW d \in Convs, NEW kinds, Receives(d, kinds) PROVE events'[c] \in Seq(Alive)
  BY <1>1, <1>2, ReadsOn
<1>3. ASSUME NEW d \in Convs, ServerBegins(d) PROVE events'[c] \in Seq(Alive)
  <2>1. prompts[d] \in Seq(0..MaxTurns) /\ prompts[d] # <<>>
    BY <1>3, ConvTypes DEF ServerBegins
  <2>2. <<Report("busy", Head(prompts[d]))>> \in Seq(Alive)
    <3>1. Head(prompts[d]) \in 0..MaxTurns
      BY <2>1, HeadTail
    <3>2. Report("busy", Head(prompts[d])) \in Alive
      BY <3>1 DEF Report, Alive
    <3>. QED BY <3>2
  <2>3. events'[c] \in {events[c], events[c] \o <<Report("busy", Head(prompts[d]))>>}
    BY <1>3 DEF ServerBegins, Emit, TypeOK, ServerOK
  <2>. QED BY <1>1, <2>2, <2>3, ConcatProperties
<1>4. ASSUME NEW d \in Convs, ServerEnds(d) PROVE events'[c] \in Seq(Alive)
  <2> DEFINE n == running[d]
             x == <<Report("stop", n), Report("idle", n)>>
             y == <<Report("stop", n), Report("idle", n), Report("busy", n), Report("idle", n)>>
             z == <<Report("error", n), Report("idle", n)>>
  <2>1. Emit(d, x) \/ Emit(d, y) \/ Emit(d, z) \/ events' = events
    BY <1>4 DEF ServerEnds
  <2>2. x \in Seq(Alive) /\ y \in Seq(Alive) /\ z \in Seq(Alive)
    <3>1. \A k \in {"busy", "stop", "idle", "error"} : Report(k, n) \in Alive
      BY ConvTypes DEF Report, Alive
    <3>. QED BY <3>1
  <2>3. \A r : Emit(d, r) => events'[c] \in {events[c], events[c] \o r}
    BY DEF Emit, TypeOK, ServerOK
  <2> HIDE DEF x, y, z
  <2>4. \A r \in Seq(Alive) : events[c] \o r \in Seq(Alive)
    BY <1>1, ConcatProperties
  <2>5. \A r \in {x, y, z} : Emit(d, r) => events'[c] \in Seq(Alive)
    BY <1>1, <2>2, <2>3, <2>4
  <2>. QED BY <1>1, <2>1, <2>5
<1>5. CASE events' = events
  BY <1>1, <1>5
<1>6. ~ServerDisposed /\ \A d \in Convs : ~StreamLost(d)
  BY DEF ServerDisposed, StreamLost, Fault
<1>7. ASSUME NEW d \in Convs, Read(d) \/ Serve(d) PROVE events'[c] \in Seq(Alive)
  <2>1. CASE ReleaseSlot(d)
    BY <1>5, <2>1 DEF ReleaseSlot, server
  <2>. QED BY <1>2, <1>3, <1>4, <1>7, <2>1
          DEF Read, Serve, Busy, RootTurnFinish, SessionError, Disposed
<1>8. ASSUME NEW t \in Tasks, TaskStep(t) \/ TimeOut(t) PROVE events' = events
  BY <1>8 DEF TaskStep, BeginTurn, AcquireTurn, AlreadyOwned, LockRegistration, RegisterCandidate,
     VerifyDialBack, RegisterFallback, PostPrompt, TimeOut, server
<1>9. ASSUME NEW d \in Convs, Connect(d) \/ Send(d) \/ Cancel(d) PROVE events' = events
  BY <1>9 DEF Connect, Send, Cancel, server
<1>10. UNCHANGED vars => events' = events
  BY DEF vars, server
<1>. QED BY <1>5, <1>6, <1>7, <1>8, <1>9, <1>10 DEF Next

\* A turn the server works on is at work as far as its conversation knows.
LEMMA ToolsFollow ==
    ASSUME TypeOK, OrderInv, HeldInv
    PROVE  ToolsReachTheirWorkspace
<1> SUFFICES ASSUME ~failed, NEW c \in Convs, running[c] # 0,
                    <<c, running[c]>> \notin excused \cup late \cup exposed
             PROVE  active = c /\ registered = c
  BY DEF ToolsReachTheirWorkspace
<1>1. Orderly(c) /\ Held(c)
  BY DEF OrderInv, HeldInv
<1>2. running[c] \in 1..MaxTurns
  BY ConvTypes
<1>3. running[c] = turn[c]
  BY <1>1, <1>2 DEF Orderly, Past, Hasty
<1>4. Sent(c) /\ Now(c) \notin excused
  BY <1>3 DEF Sent, Now, Hasty
<1>5. pc[Now(c)] = "done"
  BY <1>1, <1>4 DEF Orderly, Course, Subscribed, Preparing, Unarmed
<1>. QED BY <1>1, <1>4, <1>5 DEF Held, Claims, Ready, AtWork

\* For any number of conversations, turns and troubles: while the server works
\* on a turn that was neither excused nor sent or begun too early, and nothing
\* failed, its conversation holds the slot and the file tools lead to its workspace.
THEOREM ToolsAreTheTurnsOwn == Spec => []ToolsReachTheirWorkspace
<1>1. Init => RegInv /\ MapIsTrue /\ HeldInv /\ AliveInv
  <2> SUFFICES ASSUME Init PROVE RegInv /\ MapIsTrue /\ HeldInv /\ AliveInv
    OBVIOUS
  <2>1. RegInv /\ MapIsTrue
    BY DEF Init, RegInv, MapIsTrue, Section
  <2>2. \A c \in Convs : turn[c] = 0 /\ events[c] = <<>>
    BY DEF Init
  <2>3. HeldInv /\ AliveInv
    <3>1. \A c \in Convs : events[c] \in Seq(Alive)
      <4>1. <<>> \in Seq(Alive)
        OBVIOUS
      <4>. QED BY <2>2, <4>1
    <3>. QED BY <2>2, <3>1 DEF HeldInv, Held, Sent, AliveInv
  <2>. QED BY <2>1, <2>3
<1>2. TypeOK /\ FreshInv /\ WaitInv /\ OrderInv /\ RegInv /\ MapIsTrue /\ HeldInv /\ AliveInv
        /\ [Next]_vars
        => FreshInv' /\ WaitInv' /\ OrderInv' /\ RegInv' /\ MapIsTrue' /\ HeldInv' /\ AliveInv'
  BY FreshStep, WaitInvStep, OrderStep, RegStep, HeldStep, AliveStep
<1>3. TypeOK /\ OrderInv /\ HeldInv => ToolsReachTheirWorkspace
  BY ToolsFollow
<1>. QED BY <1>1, <1>2, <1>3, RemoteTypes, OrderInit, PTL DEF Spec
=============================================================================
