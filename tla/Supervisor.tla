----------------------------- MODULE Supervisor -----------------------------
(***************************************************************************)
(* What the master promises about its worker processes.  Children are      *)
(* started once, before the server is up, and lost at any time; a server   *)
(* that is asked to stop is down only when no child is left, and starts    *)
(* none on the way.                                                        *)
(***************************************************************************)
CONSTANT Ids        \* the workers the configuration asks for

VARIABLES phase,    \* "starting", "up", "stopping" or "down"
          live      \* the children that run

vars == <<phase, live>>

Init == phase = "starting" /\ live = {}

StartChild(id) == /\ phase = "starting"
                  /\ live' = live \cup {id}
                  /\ UNCHANGED phase

LoseChild(id) == /\ live' = live \ {id}
                 /\ UNCHANGED phase

ComeUp == phase = "starting" /\ phase' = "up" /\ UNCHANGED live

BeginStop == phase = "up" /\ phase' = "stopping" /\ UNCHANGED live

GoDown == phase = "stopping" /\ live = {} /\ phase' = "down" /\ UNCHANGED live

Next == \/ \E id \in Ids : StartChild(id) \/ LoseChild(id)
        \/ ComeUp \/ BeginStop \/ GoDown

Spec == Init /\ [][Next]_vars
=============================================================================
