-------------------------- MODULE MCRemotePrompts --------------------------
\* The model values of RemotePrompts: permissions, a question, and local calls.
EXTENDS RemotePrompts

CONSTANTS p1, p2, q, s, s2, f, e
=============================================================================
