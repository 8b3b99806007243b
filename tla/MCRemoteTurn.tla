---------------------------- MODULE MCRemoteTurn ----------------------------
EXTENDS RemoteTurn, TLC

CONSTANTS a, b
=============================================================================
