------------------------- MODULE MCConversationTurn -------------------------
(* ConversationTurn for TLC: turns and cells are interchangeable.           *)
EXTENDS ConversationTurn, TLC

AnyTurn == Permutations(Turns) \cup Permutations(Insts)
=============================================================================
