-------------------------- MODULE MCBinarySession --------------------------
(* BinarySession for TLC: a pool of two io threads and the IPC thread.     *)
EXTENDS BinarySession, TLC

IoThreadSymmetry == Permutations(IoThreads)

(* Bound: nothing else happens when the client is silent for a period of   *)
(* the heartbeat.  In MCConnections, with one io thread, it may.           *)
OneConcern == silence > 0 => adapts = 0 /\ received = 0 /\ pushes = 0
=============================================================================
