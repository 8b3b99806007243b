--------------------------- MODULE RemotePrompts ---------------------------
(* Prompts of one remote (OpenCode) conversation: the server's permissions  *)
(* and questions, and the approvals and elicitations of the local tool      *)
(* server.  Every prompt parks its asker until the user answers a card, the *)
(* deadline passes or the turn ends; the answer of a local prompt goes      *)
(* through a oneshot channel, that of a server prompt through a POST that   *)
(* may fail, and the server reports what it resolved on its event stream.   *)
(* The answer to a question is posted when all of its cards are answered.   *)
(*                                                                          *)
(* confirm is synchronous and takes the lock three times with try_write: a  *)
(* section whose lock is taken is skipped, and other tasks run in between.  *)
(* Deadlines are a choice: any stamped prompt may have expired.             *)
(*                                                                          *)
(* A blessing covers a directory tree or a sub-agent.  A permission that is *)
(* asked is matched by the path it is for; a card that is queued when the   *)
(* blessing comes is matched by the text it shows, against the workspace    *)
(* too, which is blessed from the start.  Permissions for paths in the      *)
(* workspace are accepted without a card, and are left out.                 *)
EXTENDS Naturals, Sequences, FiniteSets

CONSTANTS
    Permissions, Questions,     \* asked by the OpenCode server
    Approvals, Elicitations,    \* asked by the local tool server
    FsOps,          \* approvals of file operations; the others are shell commands
    InTree,         \* permissions for a path in the tree that can be blessed
    InSession,      \* prompts of the sub-agent that can be blessed
    TextInTree,     \* prompts whose card starts with a path in that tree,
    TextInWorkspace,  \* ... or with one in the workspace
    NoCall,
    MaxAsked,       \* bound: prompts that are asked at all
    MaxInputs       \* bound: answers of the user, taken locks, other clients'
                    \* answers, lost streams and re-emitted events together

Prompts == Permissions \cup Questions \cup Approvals \cup Elicitations
Remote == Permissions \cup Questions

\* Call ids: a question has one for each of its parts.
CallsOf(p) == IF p \in Questions THEN {p} \X {1, 2} ELSE {<<p, 1>>}
Calls == UNION {CallsOf(p) : p \in Prompts}

ASSUME PromptAssumption ==
    /\ Permissions \cap Questions = {}
    /\ Approvals \cap Elicitations = {}
    /\ Remote \cap (Approvals \cup Elicitations) = {}
    /\ FsOps \subseteq Approvals
    /\ InTree \subseteq Permissions
    /\ InSession \cup TextInTree \cup TextInWorkspace \subseteq Prompts
    /\ NoCall \notin Calls
    /\ {MaxAsked, MaxInputs} \subseteq Nat

VARIABLES
    wait,        \* the asker: parked, or what it was told
    news,        \* external: a server prompt's events, not yet read
    cards,       \* RemoteState.confirmations
    expiry,      \* prompt_expiries
    parked,      \* pending_shell_approvals, pending_elicitations, pending_questions
    answered,    \* the answers buffered in pending_questions
    replied,     \* recently_replied_permissions
    closed,      \* recently_replied_questions
    requeued,    \* requeued_permissions
    memory,      \* approval_memory: the kinds of approvals no longer asked for
    blessed,     \* auto_accept_sessions, auto_accept_paths
    handling,    \* the permission.asked whose card is not queued yet
    sweeping,    \* the expired prompt the reader is about to reject
    leaving,     \* approvals that timed out and still have to clean up
    clicks,      \* confirms between two of their lock sections
    posts,       \* replies on their way to the server; equal ones are one
    acked,       \* replies the server applied, whose response is on its way
    shown,       \* cards the user has seen, and may still answer
    inputs,
    abandoned,   \* history: a reply was lost and no second try was offered
    missed,      \* history: prompts of which an event was lost with the stream
    restored,    \* history: cards put back after a failed reply
    mistaken,    \* history: prompts accepted for the text of their card alone
    approved     \* history: calls the user allowed

queue == <<cards, expiry>>
buffers == <<parked, answered>>
stamps == <<replied, closed, requeued>>
consent == <<memory, blessed>>
reader == <<handling, sweeping>>
replies == <<posts, acked>>
accidents == <<abandoned, missed, restored, mistaken>>
vars == <<wait, news, queue, buffers, stamps, consent, reader, leaving, clicks, replies,
          shown, inputs, accidents, approved>>

Outcomes == {"none", "waiting", "allowed", "rejected", "timedout"}
Blessings == {"allow_dir", "allow_session"}
Replies == {"allow", "always", "reject", "cancel"} \cup Blessings
\* by "confirm" with the card at hand and by "blind" without it; "auto" for a
\* blessing, a deadline or the end of a turn; "answer" and "dismiss" go to the
\* question endpoints, the others to the permission endpoints.
Post == [call : Calls, reply : {"allowed", "rejected"}, by : {"confirm", "blind", "auto"}]
        \cup [call : Questions \X {1, 2}, reply : {"allowed", "rejected"},
              by : {"answer", "dismiss"}]
Click == {k \in [call : Calls, reply : Replies, card : BOOLEAN, drained : SUBSET Calls,
                 at : {"bless", "dedup"}] : k.at = "bless" => k.reply \in Blessings}

Init ==
    /\ wait = [p \in Prompts |-> "none"]
    /\ news = [p \in Remote |-> <<>>]
    /\ cards = {} /\ expiry = {} /\ parked = {} /\ answered = {}
    /\ replied = {} /\ closed = {} /\ requeued = {}
    /\ memory = {} /\ blessed = {}
    /\ handling = NoCall /\ sweeping = NoCall
    /\ leaving = {} /\ clicks = {} /\ posts = {} /\ acked = {} /\ shown = {}
    /\ inputs = 0
    /\ abandoned = {} /\ missed = {} /\ restored = {} /\ mistaken = {} /\ approved = {}

Trouble == inputs < MaxInputs /\ inputs' = inputs + 1

\* try_write: another task may hold the lock.
TryWrite(free) == IF free THEN UNCHANGED inputs ELSE Trouble

\* An asker is told once; a channel or a permission that is gone hears nothing.
Told(p, how) == IF wait[p] = "waiting" THEN [wait EXCEPT ![p] = how] ELSE wait

\* A prompt is asked once, under an id of its own.
Unasked(p) ==
    wait[p] = "none" /\ Cardinality({x \in Prompts : wait[x] # "none"}) < MaxAsked

Show(new) == cards' = cards \cup new /\ shown' = shown \cup new

\* Which approval_memory key a local approval looks up.
Kind(p) == IF p \in FsOps THEN "fs" ELSE "shell"

\* A blessing given before p was asked: path_is_under_blessed of its target
\* path, session_or_ancestor_blessed of its session.
Covered(p, given) ==
    \/ p \in InTree /\ "allow_dir" \in given
    \/ p \in InSession /\ "allow_session" \in given

\* The same for a queued card: path_is_under_blessed of its description.
Resembles(p, given) ==
    \/ p \in TextInWorkspace
    \/ p \in TextInTree /\ "allow_dir" \in given
    \/ p \in InSession /\ "allow_session" \in given

-----------------------------------------------------------------------------
(* The askers.                                                              *)

\* external: the server parks a tool call on a permission or a question.
Ask(p) ==
    /\ p \in Remote /\ Unasked(p)
    /\ wait' = [wait EXCEPT ![p] = "waiting"]
    /\ news' = [news EXCEPT ![p] = <<"asked">>]
    /\ UNCHANGED <<queue, buffers, stamps, consent, reader, leaving, clicks, replies,
                   shown, inputs, accidents, approved>>

\* external: a reconnected stream may repeat what is still parked.
AskAgain(p) ==
    /\ p \in Remote /\ wait[p] = "waiting" /\ Trouble
    /\ news' = [news EXCEPT ![p] = Append(@, "asked")]
    /\ UNCHANGED <<wait, queue, buffers, stamps, consent, reader, leaving, clicks, replies,
                   shown, accidents, approved>>

\* external: another client of the server answers.
OtherClient(p, how) ==
    /\ p \in Remote /\ wait[p] = "waiting" /\ Trouble
    /\ wait' = [wait EXCEPT ![p] = how]
    /\ news' = [news EXCEPT ![p] = Append(@, "replied")]
    /\ approved' = IF how = "allowed" THEN approved \cup CallsOf(p) ELSE approved
    /\ UNCHANGED <<queue, buffers, stamps, consent, reader, leaving, clicks, replies,
                   shown, accidents>>

\* approve_shell_with_context, approve_fs_action: remembered, or parked.  An
\* "always" between the look at the memory and the card comes too late for it.
RequestApproval(p) ==
    /\ p \in Approvals /\ Unasked(p)
    /\ IF Kind(p) \in memory
       THEN /\ wait' = [wait EXCEPT ![p] = "allowed"]
            /\ UNCHANGED <<parked, cards, shown>>
       ELSE /\ wait' = [wait EXCEPT ![p] = "waiting"]
            /\ parked' = parked \cup {p}
            /\ Show({<<p, 1>>})
    /\ UNCHANGED <<news, expiry, answered, stamps, consent, reader, leaving, clicks, replies,
                   inputs, accidents, approved>>

\* The timeout of an approval runs out; the receiver is gone before the lock is
\* taken to clean up.
ApprovalOnlyUnseen(p) ==
    /\ p \in Approvals /\ wait[p] = "waiting" /\ <<p, 1>> \notin cards
    /\ wait' = [wait EXCEPT ![p] = "timedout"]
    /\ leaving' = leaving \cup {p}
    /\ UNCHANGED <<news, queue, buffers, stamps, consent, reader, clicks, replies, shown,
                   inputs, accidents, approved>>

ApprovalTimesOut(p) ==
    /\ p \in Approvals /\ wait[p] = "waiting"
    /\ wait' = [wait EXCEPT ![p] = "timedout"]
    /\ leaving' = leaving \cup {p}
    /\ UNCHANGED <<news, queue, buffers, stamps, consent, reader, clicks, replies, shown,
                   inputs, accidents, approved>>

ApprovalCleansUp(p) ==
    /\ p \in leaving
    /\ leaving' = leaving \ {p}
    /\ parked' = parked \ {p}
    /\ cards' = cards \ {<<p, 1>>}
    /\ UNCHANGED <<wait, news, expiry, answered, stamps, consent, reader, clicks, replies,
                   shown, inputs, accidents, approved>>

\* request_elicitation: parked without a timeout of its own.
RequestElicitation(p) ==
    /\ p \in Elicitations /\ Unasked(p)
    /\ wait' = [wait EXCEPT ![p] = "waiting"]
    /\ parked' = parked \cup {p}
    /\ Show({<<p, 1>>}) /\ expiry' = expiry \cup {<<p, 1>>}
    /\ UNCHANGED <<news, answered, stamps, consent, reader, leaving, clicks, replies, inputs,
                   accidents, approved>>

-----------------------------------------------------------------------------
(* The event reader.                                                        *)

\* The reader is between two events.
Reading == handling = NoCall /\ sweeping = NoCall

Receives(p, event) ==
    /\ Reading /\ news[p] # <<>> /\ Head(news[p]) = event
    /\ news' = [news EXCEPT ![p] = Tail(@)]

\* The reader's exits: what was not read is gone when it has reconnected, and
\* nobody asks the server for its pending prompts.
StreamLost ==
    /\ Reading /\ \E p \in Remote : news[p] # <<>>
    /\ Trouble
    /\ missed' = missed \cup {p \in Remote : news[p] # <<>>}
    /\ news' = [p \in Remote |-> <<>>]
    /\ UNCHANGED <<wait, queue, buffers, stamps, consent, reader, leaving, clicks, replies,
                   shown, abandoned, restored, mistaken, approved>>

\* permission.asked of a blessed sub-agent or directory.
AutoAccept(p) ==
    /\ p \in Permissions /\ Receives(p, "asked")
    /\ Covered(p, blessed)
    /\ posts' = posts \cup {[call |-> <<p, 1>>, reply |-> "allowed", by |-> "auto"]}
    /\ replied' = replied \cup {<<p, 1>>}
    /\ UNCHANGED <<wait, queue, buffers, closed, requeued, consent, reader, leaving, clicks,
                   acked, shown, inputs, accidents, approved>>

\* permission.asked otherwise: the blessings are read, and the lock released...
PermissionAsked(p) ==
    /\ p \in Permissions /\ Receives(p, "asked")
    /\ ~Covered(p, blessed)
    /\ handling' = <<p, 1>>
    /\ UNCHANGED <<wait, queue, buffers, stamps, consent, sweeping, leaving, clicks, replies,
                   shown, inputs, accidents, approved>>

\* Mutant of QueueCard: the deadline is not stamped.
QueueCardUnstamped ==
    /\ handling # NoCall
    /\ Show({handling})
    /\ handling' = NoCall
    /\ UNCHANGED <<wait, news, expiry, buffers, stamps, consent, sweeping, leaving, clicks,
                   replies, inputs, accidents, approved>>

\* ...before the card is queued.
QueueCard ==
    /\ handling # NoCall
    /\ Show({handling}) /\ expiry' = expiry \cup {handling}
    /\ handling' = NoCall
    /\ UNCHANGED <<wait, news, buffers, stamps, consent, sweeping, leaving, clicks, replies,
                   inputs, accidents, approved>>

QuestionAsked(q) ==
    /\ q \in Questions /\ Receives(q, "asked")
    /\ IF q \in closed \cup parked
       THEN UNCHANGED <<queue, buffers, shown>>
       ELSE /\ parked' = parked \cup {q} /\ answered' = answered \ CallsOf(q)
            /\ Show(CallsOf(q)) /\ expiry' = expiry \cup CallsOf(q)
    /\ UNCHANGED <<wait, stamps, consent, reader, leaving, clicks, replies, inputs,
                   accidents, approved>>

\* permission.replied, question.replied, question.rejected.
RepliedOneMap(p) ==
    /\ Receives(p, "replied")
    /\ cards' = cards \ CallsOf(p)
    /\ parked' = parked \ {p}
    /\ closed' = closed \cup {p}
    /\ UNCHANGED <<wait, expiry, answered, replied, requeued, consent, reader, leaving, clicks,
                   replies, shown, inputs, accidents, approved>>

Replied(p) ==
    /\ Receives(p, "replied")
    /\ cards' = cards \ CallsOf(p)
    /\ parked' = parked \ {p}
    /\ replied' = IF p \in Permissions THEN replied \cup {<<p, 1>>} ELSE replied
    /\ closed' = IF p \in Questions THEN closed \cup {p} ELSE closed
    /\ UNCHANGED <<wait, expiry, answered, requeued, consent, reader, leaving, clicks, replies,
                   shown, inputs, accidents, approved>>

\* sweep_expired_prompts, at every event: a prompt is found past its deadline.
\* Expired prompts are taken one by one.
SweepExpired(c) ==
    /\ Reading /\ c \in expiry
    /\ sweeping' = c
    /\ UNCHANGED <<wait, news, queue, buffers, stamps, consent, handling, leaving, clicks,
                   replies, shown, inputs, accidents, approved>>

\* synthesize_timeout_reject.  With the lock taken nothing is dropped, and a
\* permission reject is posted whatever the call is.
TimeoutReject ==
    LET c == sweeping
        p == c[1]
        local == p \in parked \cap (Approvals \cup Elicitations)
        question == p \in Questions
    IN  /\ c # NoCall
        /\ sweeping' = NoCall
        /\ \E free \in BOOLEAN :
             /\ TryWrite(free)
             /\ wait' = IF free /\ local THEN Told(p, "rejected") ELSE wait
             /\ parked' = IF free /\ (local \/ question) THEN parked \ {p} ELSE parked
             /\ cards' = IF free THEN cards \ CallsOf(p) ELSE cards
             /\ expiry' = IF free THEN expiry \ {c} ELSE expiry
             /\ replied' = IF free /\ ~local /\ ~question THEN replied \cup {c} ELSE replied
             /\ closed' = IF free /\ question THEN closed \cup {p} ELSE closed
             /\ posts' = IF free /\ local THEN posts
                         ELSE posts \cup {[call |-> c, reply |-> "rejected",
                                           by |-> IF free /\ question THEN "dismiss" ELSE "auto"]}
        /\ UNCHANGED <<news, answered, requeued, consent, handling, leaving, clicks, acked, shown,
                       accidents, approved>>

-----------------------------------------------------------------------------
(* confirm.                                                                 *)

\* What the cards offer.  A permission's "always" is an "allow" here: what
\* confirm remembers of it is under a key no local approval looks up.
Offers(c) ==
    CASE c[1] \in Permissions ->
           {"allow", "reject"} \cup (IF c[1] \in InTree THEN {"allow_dir"} ELSE {})
                               \cup (IF c[1] \in InSession THEN {"allow_session"} ELSE {})
      [] c[1] \in Questions -> {"allow", "reject"}
      [] c[1] \in Approvals -> {"allow", "always", "reject"}
      [] OTHER -> {"allow", "cancel"}

\* The user answers a card, perhaps one that is no longer queued.  The second
\* part of a question is not counted.
Answer(c, reply) ==
    /\ IF reply = "allow" /\ c \notin approved /\ CallsOf(c[1]) \cap approved # {}
       THEN UNCHANGED inputs
       ELSE inputs < MaxInputs /\ inputs' = inputs + 1
    /\ c \in shown /\ reply \in Offers(c)
    /\ approved' = IF reply \in {"allow", "always"} \cup Blessings THEN approved \cup {c} ELSE approved

\* An approval or an elicitation is parked: its channel is answered, and an
\* "always" remembered for its kind.  A "cancel" is none of the values confirm
\* knows and has become "once" by now.
ConfirmLocal(c, reply) ==
    /\ Answer(c, reply)
    /\ c[1] \in parked \cap (Approvals \cup Elicitations)
    /\ wait' = Told(c[1], IF reply = "reject" THEN "rejected" ELSE "allowed")
    /\ memory' = IF reply = "always" THEN memory \cup {Kind(c[1])} ELSE memory
    /\ parked' = parked \ {c[1]}
    /\ cards' = cards \ {c}
    /\ UNCHANGED <<news, expiry, answered, stamps, blessed, reader, leaving, clicks, replies,
                   shown, accidents>>

RejectQuestion(c) ==
    /\ c[1] \in Questions /\ Answer(c, "reject")
    /\ cards' = cards \ CallsOf(c[1])
    /\ parked' = parked \ {c[1]}
    /\ closed' = closed \cup {c[1]}
    /\ posts' = posts \cup {[call |-> c, reply |-> "rejected", by |-> "dismiss"]}
    /\ UNCHANGED <<wait, news, expiry, answered, replied, requeued, consent, reader, leaving,
                   clicks, acked, shown, accidents>>

\* PendingQuestion::is_complete with the answer to c.
CompleteAny(c) == c[1] \in parked

Complete(c) == c[1] \in parked /\ CallsOf(c[1]) \subseteq answered \cup {c}

AnswerQuestion(c) ==
    /\ c[1] \in Questions /\ Answer(c, "allow")
    /\ cards' = cards \ {c}
    /\ answered' = IF c[1] \in parked THEN answered \cup {c} ELSE answered
    /\ IF Complete(c)
       THEN /\ parked' = parked \ {c[1]}
            /\ closed' = closed \cup {c[1]}
            /\ posts' = posts \cup {[call |-> c, reply |-> "allowed", by |-> "answer"]}
       ELSE UNCHANGED <<parked, closed, posts>>
    /\ UNCHANGED <<wait, news, expiry, replied, requeued, consent, reader, leaving, clicks, acked,
                   shown, accidents>>

Later(reply) == IF reply \in Blessings THEN "bless" ELSE "dedup"

\* A permission, or a local prompt that is no longer parked: the card is taken.
\* Of an "always" the card's own names are remembered: for a shell command they
\* make the shell's key, for a file operation one that nobody looks up.
ConfirmPermission(c, reply) ==
    /\ Answer(c, reply)
    /\ c[1] \notin parked \cup Questions
    /\ clicks' = clicks \cup {[call |-> c, reply |-> reply, card |-> c \in cards,
                               drained |-> {}, at |-> Later(reply)]}
    /\ memory' = IF reply = "always" /\ c \in cards /\ c[1] \notin FsOps
                 THEN memory \cup {"shell"} ELSE memory
    /\ cards' = cards \ {c}
    /\ UNCHANGED <<wait, news, expiry, buffers, stamps, blessed, reader, leaving, replies,
                   shown, accidents>>

\* The lock is taken: whatever c is, confirm goes on without the first section.
ConfirmLocked(c, reply) ==
    /\ Answer(c, reply)
    /\ clicks' = clicks \cup {[call |-> c, reply |-> reply, card |-> FALSE,
                               drained |-> {}, at |-> Later(reply)]}
    /\ UNCHANGED <<wait, news, queue, buffers, stamps, consent, reader, leaving, replies,
                   shown, accidents>>

\* The second section: the blessing, and the queued cards that look like it,
\* whatever kind of prompt they belong to.
Bless(k) ==
    /\ k \in clicks /\ k.at = "bless"
    /\ \E free \in BOOLEAN :
         LET given == IF free THEN blessed \cup {k.reply} ELSE blessed
             drained == IF free THEN {d \in cards : Resembles(d[1], given)} \ {k.call} ELSE {}
         IN  /\ TryWrite(free)
             /\ blessed' = given
             /\ cards' = IF free THEN cards \ (drained \cup {k.call}) ELSE cards
             /\ replied' = replied \cup drained
             /\ clicks' = (clicks \ {k}) \cup {[k EXCEPT !.at = "dedup", !.drained = drained]}
             /\ mistaken' = mistaken \cup {d[1] : d \in {x \in drained : ~Covered(x[1], given)}}
    /\ UNCHANGED <<wait, news, expiry, buffers, closed, requeued, memory, reader, leaving,
                   replies, shown, abandoned, missed, restored, approved>>

\* The third section: a call whose stamp is still fresh is not replied to again,
\* and what the blessing covered is forgotten with it.
Suppress(k) ==
    /\ k \in clicks /\ k.at = "dedup"
    /\ k.call \in replied
    /\ clicks' = clicks \ {k}
    /\ abandoned' = abandoned \cup {d[1] : d \in k.drained}
    /\ UNCHANGED <<wait, news, queue, buffers, stamps, consent, reader, leaving, replies, shown,
                   inputs, missed, restored, mistaken, approved>>

\* Without a stamp, with one that has aged (a stamp is dropped here, when its
\* age matters), or with the lock taken, the replies are posted.
PostReply(k) ==
    /\ k \in clicks /\ k.at = "dedup"
    /\ \E free \in BOOLEAN :
         TryWrite(free) /\ replied' = IF free THEN replied \cup {k.call} ELSE replied
    /\ clicks' = clicks \ {k}
    /\ posts' = posts \cup {[call |-> d, reply |-> "allowed", by |-> "auto"] : d \in k.drained}
                      \cup {[call |-> k.call,
                             reply |-> IF k.reply = "reject" THEN "rejected" ELSE "allowed",
                             by |-> IF k.card THEN "confirm" ELSE "blind"]}
    /\ UNCHANGED <<wait, news, queue, buffers, closed, requeued, consent, reader, leaving, acked,
                   shown, accidents, approved>>

-----------------------------------------------------------------------------
(* The replies.                                                             *)

\* The endpoint knows the call, and the asker is still parked there.
Pending(m) ==
    /\ m.by \in {"answer", "dismiss"} \/ m.call[1] \in Permissions
    /\ wait[m.call[1]] = "waiting"

\* external: the server applies a reply and reports it.
Apply(m) ==
    /\ wait' = [wait EXCEPT ![m.call[1]] = m.reply]
    /\ news' = [news EXCEPT ![m.call[1]] = Append(@, "replied")]

\* Nothing depends on how a dismissal or an automatic reply ends then.
PostApplied(m) ==
    /\ m \in posts /\ Pending(m)
    /\ Apply(m)
    /\ posts' = posts \ {m}
    /\ acked' = IF m.by \in {"auto", "dismiss"} THEN acked ELSE acked \cup {m}
    /\ UNCHANGED <<queue, buffers, stamps, consent, reader, leaving, clicks, shown, inputs,
                   accidents, approved>>

\* The client hears of it, perhaps after permission.replied was read.
PostDelivered(m) ==
    /\ m \in acked
    /\ acked' = acked \ {m}
    /\ IF m.by \in {"confirm", "blind"}
       THEN replied' = replied \ {m.call} /\ requeued' = requeued \ {m.call}
       ELSE UNCHANGED <<replied, requeued>>
    /\ UNCHANGED <<wait, news, queue, buffers, closed, consent, reader, leaving, clicks, posts,
                   shown, inputs, accidents, approved>>

\* The card is offered once more.
Retry(m) == m.by = "confirm" /\ m.call \notin requeued

\* Both endpoints fail: the prompt is resolved already or unknown there, or the
\* network fails, before or after the server has applied the reply.
PostFails(m) ==
    /\ \/ m \in posts /\ posts' = posts \ {m} /\ UNCHANGED acked
       \/ m \in acked /\ acked' = acked \ {m} /\ UNCHANGED posts
    /\ IF m.by \in {"confirm", "blind"}
       THEN replied' = replied \ {m.call} /\ requeued' = requeued \cup {m.call}
       ELSE UNCHANGED <<replied, requeued>>
    /\ closed' = IF m.by = "answer" THEN closed \ {m.call[1]} ELSE closed
    /\ Show(IF Retry(m) THEN {m.call} ELSE {})
    /\ restored' = IF Retry(m) THEN restored \cup {m.call} ELSE restored
    /\ abandoned' = IF Pending(m) /\ ~Retry(m)
                    THEN abandoned \cup {m.call[1]} ELSE abandoned
    /\ UNCHANGED <<wait, news, expiry, buffers, consent, reader, leaving, clicks, inputs,
                   missed, mistaken, approved>>

-----------------------------------------------------------------------------
\* reject_pending_confirmations, on cancel and on a new message.
RejectPendingSparesQuestions ==
    LET local == parked \cap (Approvals \cup Elicitations)
    IN  /\ cards # {} \/ local # {}
        /\ wait' = [p \in Prompts |-> IF p \in local THEN Told(p, "rejected")[p] ELSE wait[p]]
        /\ posts' = posts \cup {[call |-> c, reply |-> "rejected", by |-> "auto"]
                                 : c \in {d \in cards : d[1] \notin local \cup Questions}}
        /\ parked' = {} /\ answered' = {} /\ cards' = {} /\ expiry' = {}
        /\ UNCHANGED <<news, stamps, consent, reader, leaving, clicks, acked, shown, inputs,
                       accidents, approved>>

RejectPending ==
    LET local == parked \cap (Approvals \cup Elicitations)
        open == parked \cap Questions
    IN  /\ cards # {} \/ local # {}
        /\ wait' = [p \in Prompts |-> IF p \in local THEN Told(p, "rejected")[p] ELSE wait[p]]
        /\ closed' = closed \cup open
        /\ posts' = posts \cup {[call |-> c, reply |-> "rejected", by |-> "auto"]
                                 : c \in {d \in cards : d[1] \notin local \cup Questions}}
                          \cup {[call |-> <<q, 1>>, reply |-> "rejected", by |-> "dismiss"]
                                 : q \in open}
        /\ parked' = {} /\ answered' = {} /\ cards' = {} /\ expiry' = {}
        /\ UNCHANGED <<news, replied, requeued, consent, reader, leaving, clicks, acked, shown,
                       inputs, accidents, approved>>

-----------------------------------------------------------------------------
Confirm ==
    \E c \in Calls :
        \/ RejectQuestion(c) \/ AnswerQuestion(c)
        \/ \E r \in Replies : ConfirmLocal(c, r) \/ ConfirmPermission(c, r) \/ ConfirmLocked(c, r)

ReadEvents ==
    \/ \E p \in Remote : AutoAccept(p) \/ PermissionAsked(p) \/ QuestionAsked(p) \/ Replied(p)
    \/ QueueCard \/ TimeoutReject \/ \E c \in Calls : SweepExpired(c)

Continue == \E k \in clicks : Bless(k) \/ Suppress(k) \/ PostReply(k)

Deliver == \E m \in posts \cup acked : PostApplied(m) \/ PostDelivered(m) \/ PostFails(m)

Approve(p) == ApprovalTimesOut(p) \/ ApprovalCleansUp(p)

Next ==
    \/ \E p \in Prompts : \/ Ask(p) \/ AskAgain(p) \/ RequestApproval(p) \/ RequestElicitation(p)
                          \/ Approve(p)
                          \/ \E how \in {"allowed", "rejected"} : OtherClient(p, how)
    \/ Confirm \/ ReadEvents \/ StreamLost \/ Continue \/ Deliver \/ RejectPending

Spec == Init /\ [][Next]_vars

\* Tasks run, POSTs end, deadlines pass, and the server's heartbeat keeps the
\* reader sweeping.  An approval takes two steps at most, so fairness to their
\* timeouts is fairness to each.
Fairness ==
    /\ WF_vars(ReadEvents) /\ WF_vars(Continue) /\ WF_vars(Deliver)
    /\ WF_vars(\E p \in Approvals : Approve(p))

FairSpec == Spec /\ Fairness

-----------------------------------------------------------------------------
(* Properties                                                               *)

\* Types of the queue, the maps and the tasks.
TypeOK ==
    /\ wait \in [Prompts -> Outcomes]
    /\ news \in [Remote -> Seq({"asked", "replied"})]
    /\ cards \subseteq Calls /\ expiry \subseteq Calls
    /\ parked \subseteq Prompts \ Permissions /\ answered \subseteq Calls
    /\ replied \subseteq Calls /\ closed \subseteq Questions /\ requeued \subseteq Calls
    /\ memory \subseteq {"shell", "fs"} /\ blessed \subseteq Blessings
    /\ handling \in Calls \cup {NoCall} /\ sweeping \in Calls \cup {NoCall}
    /\ leaving \subseteq Approvals
    /\ clicks \subseteq Click /\ posts \subseteq Post /\ acked \subseteq Post
    /\ shown \subseteq Calls /\ restored \subseteq Calls /\ approved \subseteq Calls
    /\ abandoned \cup mistaken \subseteq Prompts /\ missed \subseteq Remote
    /\ inputs \in Nat

\* Somebody will still come back to the parked call: its event is not read yet,
\* it waits for a channel or a buffer with a deadline, its card is queued or
\* about to be, or an answer is under way.
Attended(p) ==
    \/ p \in Remote /\ \E i \in DOMAIN news[p] : news[p][i] = "asked"
    \/ p \in parked /\ CallsOf(p) \subseteq expiry
    \/ \E c \in CallsOf(p) :
         \/ c \in cards \/ handling = c
         \/ \E m \in posts : m.call = c
         \/ \E k \in clicks : c = k.call \/ c \in k.drained

\* The event that would have shown a card was lost with the stream.
Unseen(p) == p \in missed /\ CallsOf(p) \cap shown = {}

\* "Fail loudly, not silently": however answers, deadlines, blessings, ends of
\* turns, lost streams and other clients race, no parked tool call is forgotten,
\* unless a reply to it was lost after the code's last try, or the stream was
\* lost before its card was shown and the server did not repeat it.  Approvals
\* have a timeout of their own.
NobodyForgotten ==
    \A p \in Prompts \ Approvals :
        wait[p] = "waiting" /\ p \notin abandoned /\ ~Unseen(p) => Attended(p)

\* Nothing is allowed that the user did not allow, once for every part of a
\* question, nor covered by a blessing, nor waived by an "always" to an approval
\* of the same kind: "Skip shell prompts" never waives a file deletion, nor the
\* other way round.  Two ways around the user are known and excepted: an
\* elicitation's "cancel", which confirm reads as "once", and a card accepted
\* because its text starts with a blessed path.
AllowedOnlyIfApproved ==
    \A p \in Prompts \ (Elicitations \cup mistaken) :
        wait[p] = "allowed" =>
            \/ CallsOf(p) \subseteq approved
            \/ Covered(p, blessed)
            \/ p \in Approvals /\ \E a \in Approvals : Kind(a) = Kind(p) /\ <<a, 1>> \in approved

\* A card whose prompt is resolved does not stay, even when the server's report
\* is lost: the approval is about to clean up, or the deadline will sweep it
\* away.  Only a card that was put back after a failed reply may be left over.
DeadCardsGo ==
    \A c \in cards : wait[c[1]] # "waiting" => c \in expiry \cup restored \/ c[1] \in leaving

\* A parked call that nobody excuses: its reply and its event were not lost, and
\* its card was not put back after a failed reply, which leaves a card without a
\* deadline of its own to the user.
Waits(p) ==
    wait[p] = "waiting" /\ p \notin abandoned /\ ~Unseen(p) /\ CallsOf(p) \cap cards \cap restored = {}

\* Every parked call is answered in the end, with or without the user: again and
\* again nobody waits, so that every single wait ends.
PromptEnds == []<>(\A p \in Prompts : ~Waits(p))
=============================================================================
