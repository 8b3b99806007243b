------------------------------ MODULE Mailbox ------------------------------
(***************************************************************************)
(* What the team mailbox promises the agents, without loops, sessions or   *)
(* faults: a message is written once under a fresh id, is passed to its    *)
(* recipients, and is marked read only after it was passed to them.        *)
(* Passing it again is allowed (a crash or a failed mark), losing it or    *)
(* inventing one is not.  TeamEventLoop implements this specification.     *)
(***************************************************************************)
EXTENDS Naturals

CONSTANT Agents

VARIABLES written,    \* ids of the messages written to each agent
          delivered,  \* ids passed to the agent's send_message
          read,       \* ids marked read
          next        \* id of the next message

vars == <<written, delivered, read, next>>

Init ==
    /\ written = [a \in Agents |-> {}]
    /\ delivered = [a \in Agents |-> {}]
    /\ read = [a \in Agents |-> {}]
    /\ next = 0

\* Mailbox::write, once for every recipient of a message.
Write(targets) ==
    /\ next' = next + 1
    /\ written' = [a \in Agents |-> IF a \in targets THEN written[a] \cup {next} ELSE written[a]]
    /\ UNCHANGED <<delivered, read>>

\* Messages found by Mailbox::peek_unread, and perhaps already passed to the
\* agent before, are passed to it.
Deliver(a) ==
    /\ UNCHANGED <<written, read, next>>
    /\ delivered[a] \subseteq delivered'[a] /\ delivered'[a] \subseteq written[a]
    /\ \A b \in Agents \ {a} : delivered'[b] = delivered[b]

\* Mailbox::mark_read_batch on messages that were passed to the agent.
MarkRead(a) ==
    /\ UNCHANGED <<written, delivered, next>>
    /\ read[a] \subseteq read'[a] /\ read'[a] \subseteq delivered[a]
    /\ \A b \in Agents \ {a} : read'[b] = read[b]

Next ==
    \/ \E targets \in SUBSET Agents : Write(targets)
    \/ \E a \in Agents : Deliver(a) \/ MarkRead(a)

Spec == Init /\ [][Next]_vars
=============================================================================
