---------------------------- MODULE MCIPCChannel ----------------------------
(***************************************************************************)
(* IPCChannel for TLC: two calling threads (the io thread and a game       *)
(* thread), two envelopes and an oversized one, a socket buffer of one     *)
(* frame.  The callers are alike, but the run checks liveness, for which   *)
(* symmetry is not sound.                                                  *)
(***************************************************************************)
EXTENDS IPCChannel
=============================================================================
