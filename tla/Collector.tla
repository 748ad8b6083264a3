----------------------------- MODULE Collector -----------------------------
(***************************************************************************)
(* The collector of the flannel monitors (flannel-monitor/collector): it   *)
(* lists the monitor pods, fetches the metrics of each, cycle after cycle, *)
(* and hands them on to Prometheus together with gauges of its own.        *)
(*                                                                         *)
(* A cycle replaces the variable additional_metrics while the handler of a *)
(* scrape may read it, without a lock.  The variable is a slice, whose     *)
(* pointer and length are written one after the other: a read during the   *)
(* write may get a part of the old or of the new metrics, fail the scrape  *)
(* or bring the collector down.  The cluster changes as for the monitor.   *)
(***************************************************************************)
EXTENDS Naturals, AppPods

CONSTANTS
    Nothing,     \* the value of a gauge that is not exposed
    MaxChanges,  \* bound: changes of the cluster
    MaxFaults    \* bound: failures of the API and of fetches, and restarts

VARIABLES
    changes, faults,
    nodes,       \* the nodes of the cluster
    pods,        \* the monitor pods of the cluster: a function of some of Pods
    broken,      \* the pods that do not answer
    pc,          \* where the cycle is
    nodeIPs,     \* node_ips
    hostToPod,   \* mapHostIPToPodIP
    duplicates,  \* anyDuplicateNodes
    todo,        \* the hosts whose monitor is still to be asked in this cycle
    result,      \* the hosts whose metrics this cycle has got
    scrapeCheck, collectCheck, dupCheck,  \* the gauges
    additional,  \* the hosts whose metrics are in additional_metrics
    shown        \* the hosts whose metrics Prometheus has got by its last scrape

cluster == <<nodes, pods, broken, changes>>
locals == <<nodeIPs, hostToPod, duplicates, todo, result>>
gauges == <<scrapeCheck, collectCheck, dupCheck>>
vars == <<faults, cluster, pc, locals, gauges, additional, shown>>

Fault == faults < MaxFaults /\ faults' = faults + 1

Unexposed == [h \in Hosts |-> Nothing]

Return ==
    /\ pc' = "idle"
    /\ nodeIPs' = {} /\ hostToPod' = <<>> /\ duplicates' = FALSE /\ todo' = {} /\ result' = {}

Change ==
    /\ changes < MaxChanges /\ changes' = changes + 1
    /\ \/ /\ \E h \in Hosts : nodes' = (nodes \ {h}) \cup ({h} \ nodes)
          /\ UNCHANGED <<pods, broken>>
       \/ /\ \E p \in Pods, s \in PodStatus :
                pods' = [q \in DOMAIN pods \cup {p} |-> IF q = p THEN s ELSE pods[q]]
          /\ UNCHANGED <<nodes, broken>>
       \/ /\ \E p \in DOMAIN pods : pods' = [q \in DOMAIN pods \ {p} |-> pods[q]]
          /\ UNCHANGED <<nodes, broken>>
       \/ /\ \E p \in Pods : broken' = (broken \ {p}) \cup ({p} \ broken)
          /\ UNCHANGED <<nodes, pods>>
    /\ UNCHANGED <<faults, pc, locals, gauges, additional, shown>>

\* A monitor answers at an address.
Answers(podIP) == \E p \in Running(pods) \ broken : pods[p].podIP = podIP
-----------------------------------------------------------------------------
(* cycle *)

ListNodeIPs ==
    /\ pc = "idle"
    /\ \/ nodeIPs' = nodes /\ pc' = "pods" /\ UNCHANGED faults
       \/ Fault /\ pc' = "failed" /\ UNCHANGED nodeIPs
    /\ UNCHANGED <<cluster, hostToPod, duplicates, todo, result, gauges, additional, shown>>

ListRunningAppPods ==
    /\ pc = "pods"
    /\ \/ /\ ~DuplicatePod(pods)
          /\ \E f \in HostsToPods(RunningAppPods(pods)) : hostToPod' = f
          /\ duplicates' = HasDuplicates(RunningAppPods(pods))
          /\ pc' = "match"
          /\ UNCHANGED faults
       \/ /\ IF DuplicatePod(pods) THEN UNCHANGED faults ELSE Fault
          /\ pc' = "failed"
          /\ UNCHANGED <<hostToPod, duplicates>>
    /\ UNCHANGED <<cluster, nodeIPs, todo, result, gauges, additional, shown>>

\* The lists could not be had: scrapeCheck.Reset().
Forget ==
    /\ pc = "failed"
    /\ scrapeCheck' = Unexposed
    /\ pc' = "clear"
    /\ UNCHANGED <<faults, cluster, locals, collectCheck, dupCheck, additional, shown>>

\* The metrics that additional_metrics is about to have.
Incoming == IF pc = "clear" THEN {} ELSE result

\* additional_metrics = nil.
ClearMetrics ==
    /\ pc = "clear"
    /\ additional' = Incoming
    /\ pc' = "invalid"
    /\ UNCHANGED <<faults, cluster, locals, gauges, shown>>

MarkInvalid ==
    /\ pc = "invalid"
    /\ collectCheck' = 0 /\ dupCheck' = 0
    /\ Return
    /\ UNCHANGED <<faults, cluster, scrapeCheck, additional, shown>>

\* Mutant: nodes without a monitor are passed over.
PassOverPodless ==
    /\ pc = "match"
    /\ dupCheck' = IF duplicates THEN 0 ELSE 1
    /\ todo' = DOMAIN hostToPod
    /\ pc' = "fetch"
    /\ UNCHANGED <<faults, cluster, nodeIPs, hostToPod, duplicates, result, collectCheck,
                   scrapeCheck, additional, shown>>

\* Nodes without a monitor are not collected.  A host that is neither a node any
\* more nor has a monitor keeps the gauge that it has.
NotePodless ==
    /\ pc = "match"
    /\ dupCheck' = IF duplicates THEN 0 ELSE 1
    /\ scrapeCheck' =
          [h \in Hosts |-> IF h \in NotFound(nodeIPs, hostToPod) THEN 0 ELSE scrapeCheck[h]]
    /\ todo' = DOMAIN hostToPod
    /\ pc' = "fetch"
    /\ UNCHANGED <<faults, cluster, nodeIPs, hostToPod, duplicates, result, collectCheck,
                   additional, shown>>

\* One monitor is asked, within a second, and its answer is parsed.
Fetch(h) ==
    LET answered == Answers(hostToPod[h]) IN
    /\ pc = "fetch" /\ h \in todo
    /\ todo' = todo \ {h}
    /\ \/ /\ answered /\ UNCHANGED faults
          /\ result' = result \cup {h}
          /\ scrapeCheck' = [scrapeCheck EXCEPT ![h] = 1]
       \/ /\ IF answered THEN Fault ELSE UNCHANGED faults
          /\ scrapeCheck' = [scrapeCheck EXCEPT ![h] = 0]
          /\ UNCHANGED result
    /\ UNCHANGED <<cluster, pc, nodeIPs, hostToPod, duplicates, collectCheck, dupCheck,
                   additional, shown>>

Collected ==
    /\ pc = "fetch" /\ todo = {}
    /\ collectCheck' = 1
    /\ pc' = "publish"
    /\ UNCHANGED <<faults, cluster, locals, scrapeCheck, dupCheck, additional, shown>>

\* additional_metrics = result.
Publish ==
    /\ pc = "publish"
    /\ additional' = Incoming
    /\ Return
    /\ UNCHANGED <<faults, cluster, gauges, shown>>
-----------------------------------------------------------------------------
(* gather *)

\* A read while the variable is being written: pc is at the write.
Racing == pc \in {"clear", "publish"}

\* The handler reads additional_metrics, adds what the registry exposes, and
\* answers.
GatherWhole ==
    /\ shown' = additional
    /\ UNCHANGED <<faults, cluster, pc, locals, gauges, additional>>

\* A part, or an error, which shows nothing.
GatherTorn ==
    /\ Racing
    /\ \E part \in SUBSET additional \cup SUBSET Incoming : shown' = part
    /\ UNCHANGED <<faults, cluster, pc, locals, gauges, additional>>

\* The pod is replaced, after a read of half a slice or for another reason.
Crash ==
    /\ Fault
    /\ Return
    /\ scrapeCheck' = Unexposed /\ collectCheck' = 0 /\ dupCheck' = 0
    /\ additional' = {} /\ shown' = {}
    /\ UNCHANGED cluster

Init ==
    /\ changes = 0 /\ faults = 0
    /\ nodes = Hosts
    /\ pods \in [Pods -> [phase : {"Running"}, hostIP : Hosts, podIP : PodIPs]]
    /\ ~DuplicatePod(pods)
    /\ broken = {}
    /\ pc = "idle"
    /\ nodeIPs = {} /\ hostToPod = <<>> /\ duplicates = FALSE /\ todo = {} /\ result = {}
    /\ scrapeCheck = Unexposed /\ collectCheck = 0 /\ dupCheck = 0
    /\ additional = {} /\ shown = {}

Cycle ==
    \/ ListNodeIPs \/ ListRunningAppPods
    \/ Forget \/ ClearMetrics \/ MarkInvalid
    \/ NotePodless \/ Collected \/ Publish
    \/ \E h \in todo : Fetch(h)

Next == Cycle \/ GatherWhole \/ GatherTorn \/ Change \/ Crash

\* loop runs in a goroutine of its own, every request ends within a second, and
\* Prometheus scrapes again and again; not all of its scrapes hit the very moment
\* of the assignment.
FairSpec == Init /\ [][Next]_vars /\ WF_vars(Cycle) /\ WF_vars(GatherWhole)
-----------------------------------------------------------------------------
(* Properties *)

Gauge == {0, 1, Nothing}

TypeOK ==
    /\ changes \in 0..MaxChanges /\ faults \in 0..MaxFaults
    /\ nodes \subseteq Hosts /\ broken \subseteq Pods
    /\ DOMAIN pods \subseteq Pods /\ \A p \in DOMAIN pods : pods[p] \in PodStatus
    /\ pc \in {"idle", "pods", "match", "fetch", "publish", "failed", "clear", "invalid"}
    /\ nodeIPs \subseteq Hosts /\ todo \subseteq DOMAIN hostToPod /\ result \subseteq Hosts
    /\ DOMAIN hostToPod \subseteq Hosts /\ duplicates \in BOOLEAN
    /\ scrapeCheck \in [Hosts -> Gauge] /\ collectCheck \in {0, 1} /\ dupCheck \in {0, 1}
    /\ additional \subseteq Hosts /\ shown \subseteq Hosts

MonitorsOn(h) == {p \in Running(pods) : pods[p].hostIP = h}

\* What Prometheus gets follows the monitors by itself.  A node without a monitor
\* that answers is in the end shown neither as collected nor with metrics; one
\* whose monitors all answer is collected for good, and Prometheus gets its metrics
\* again and again: over any changes of the cluster during a cycle, failures of
\* the API, and scrapes that race with a cycle and so lack metrics.
CollectionFollows ==
    \A h \in Hosts :
        /\ <>[](h \in nodes /\ MonitorsOn(h) \subseteq broken) =>
              <>[](scrapeCheck[h] # 1 /\ h \notin shown)
        /\ <>[](~DuplicatePod(pods) /\ MonitorsOn(h) # {} /\ MonitorsOn(h) \cap broken = {}) =>
              /\ <>[](scrapeCheck[h] = 1)
              /\ []<>(h \in shown)
=============================================================================
