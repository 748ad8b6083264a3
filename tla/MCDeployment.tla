---------------------------- MODULE MCDeployment ----------------------------
(* The supervisor and one worker. *)
EXTENDS Deployment

MCNodeList == <<"supervisor", "worker">>

\* The versions 1 and 3 differ in what cluster.conf does not show.
MCRendered == [v \in Versions |-> IF v = 3 THEN 1 ELSE v]

\* Bound: what comes together with a fault is one edit at most, which cluster.conf
\* shows, and the second edit is made during the same sequence as the first.
FaultsAlone == faults > 0 => edits <= 1 /\ project # 3
EditsTogether == edits = 1 /\ edits' = 2 => cmd = "supervisor" /\ edited' = 2

MCNext == Next /\ FaultsAlone' /\ EditsTogether
MCSpec == Init /\ [][MCNext]_vars /\ Fairness
=============================================================================
