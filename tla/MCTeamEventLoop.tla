-------------------------- MODULE MCTeamEventLoop --------------------------
(* TeamEventLoop for TLC: the slots are model values named in the configs.  *)
EXTENDS TeamEventLoop, TLC
=============================================================================
