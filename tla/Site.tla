-------------------------------- MODULE Site --------------------------------
(***************************************************************************)
(* The way from the inspection of conflicts to the graph of the branches:  *)
(* either page may be the first, and the graph's is the last.              *)
(***************************************************************************)
EXTENDS GraphAnimation, ConflictPage

siteVars == <<vars, conflictVars>>

SiteInit == Init /\ ConflictInit

OnGraph == page.kind = "graph" /\ UNCHANGED conflictVars

SiteNext ==
    \/ ConflictNext /\ UNCHANGED vars
    \/ Next /\ OnGraph

(* The server answers, React renders what is ready and runs its effects,   *)
(* and the browser runs animation frames and timers.                       *)
SiteSpec ==
    /\ SiteInit /\ [][SiteNext]_siteVars
    /\ WF_siteVars(Proceeds /\ page.kind # "graph" /\ UNCHANGED vars)
    /\ WF_siteVars(Frame /\ OnGraph)
    /\ WF_siteVars(SimulationTimer /\ OnGraph)
=============================================================================
