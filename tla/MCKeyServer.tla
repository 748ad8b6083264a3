---------------------------- MODULE MCKeyServer ----------------------------
(* Clusters for the keyserver's runs: one node of each kind, or only a        *)
(* supervisor and a master; every node has its own address.                   *)
EXTENDS KeyServer, TLC

CONSTANTS sup, mas, wor, alice, metrics, hostkeytab, mallory

MCNodes == {sup, mas, wor}
MCTwoNodes == {sup, mas}
MCKind == [n \in Nodes |-> IF n = sup THEN "supervisor"
                           ELSE IF n = mas THEN "master" ELSE "worker"]
MCNodeIP == [n \in Nodes |-> n]
MCSymmetry == Permutations(Handlers)
=============================================================================
