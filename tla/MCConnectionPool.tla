---------------------------- MODULE MCConnectionPool ----------------------------
(***************************************************************************)
(* ConnectionPool for TLC: three threads over one or two connections, four *)
(* addresses for them.  No symmetry, since the run checks liveness.        *)
(***************************************************************************)
EXTENDS ConnectionPool
=============================================================================
