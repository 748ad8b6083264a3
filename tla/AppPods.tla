------------------------------ MODULE AppPods ------------------------------
(***************************************************************************)
(* Which pod of an app runs on which node (flannel-monitor/common): what   *)
(* the flannel monitor and its collector compute from two lists that they  *)
(* ask the Kubernetes API for.                                             *)
(***************************************************************************)
CONSTANTS
    Hosts,  \* IP addresses of nodes
    Pods,   \* pods of the app
    PodIPs  \* IP addresses of pods

\* A pod as the API reports it.
PodStatus == [phase : {"Pending", "Running"}, hostIP : Hosts, podIP : PodIPs]

\* The running pods of a list, which is a function from its pods to their status.
Running(list) == {p \in DOMAIN list : list[p].phase = "Running"}

\* ListRunningAppPods is an error if two running pods report the same address.
DuplicatePod(list) ==
    \E p, q \in Running(list) : p # q /\ list[p].podIP = list[q].podIP

\* mapPodIPToHostIP, as a set of pairs.
RunningAppPods(list) == {<<list[p].podIP, list[p].hostIP>> : p \in Running(list)}

\* The values mapHostIPToPodIP may get: of several pods on a host, the one that
\* the iteration over the map comes to last.
HostsToPods(pairs) ==
    LET hosts == {x[2] : x \in pairs} IN
    {f \in [hosts -> {x[1] : x \in pairs}] : \A h \in hosts : <<f[h], h>> \in pairs}

HasDuplicates(pairs) == \E x, y \in pairs : x # y /\ x[2] = y[2]

\* The nodes that have no running pod of the app.
NotFound(nodeIPs, hostToPod) == nodeIPs \ DOMAIN hostToPod
=============================================================================
