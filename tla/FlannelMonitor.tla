--------------------------- MODULE FlannelMonitor ---------------------------
(***************************************************************************)
(* The flannel monitor (flannel-monitor/monitor): one of its pods runs on  *)
(* every node and pings the reflector pods of all nodes over the overlay   *)
(* network, cycle after cycle.  Prometheus scrapes its gauges at any time, *)
(* and a scrape reads them one after the other, in any order.              *)
(*                                                                         *)
(* The cluster changes while a cycle is under way: nodes come and go, pods *)
(* are started, moved and stopped, addresses are used again, and links     *)
(* break and heal, between the two lists and each of the pings.            *)
(* A gauge that is not exposed yet counts as 0, except those of talkCheck. *)
(***************************************************************************)
EXTENDS Naturals, AppPods

CONSTANTS
    Nothing,     \* the value of a gauge that is not exposed
    Scraped,     \* the hosts whose gauge of talkCheck scrapes are followed for
    MaxTime,     \* bound: last value of the clock
    MaxChanges,  \* bound: changes of the cluster
    MaxFaults    \* bound: failures of the API, and restarts of the monitor

ASSUME BoundsAssumption == MaxTime \in Nat /\ MaxChanges \in Nat /\ MaxFaults \in Nat
ASSUME NothingAssumption == Nothing \notin {0, 1}
ASSUME ScrapedAssumption == Scraped \subseteq Hosts

VARIABLES
    now,
    changes, faults,
    nodes,       \* the nodes of the cluster
    pods,        \* the reflector pods of the cluster: a function of some of Pods
    broken,      \* the pods that answer no ping
    pc,          \* where the cycle is
    nodeIPs,     \* node_ips
    hostToPod,   \* mapHostIPToPodIP
    todo,        \* the hosts still to be pinged in this cycle
    stamp,       \* recency_timestamp
    talkCheck, monCheck, dupCheck, monRecency,  \* the gauges
    duplicates,  \* anyDuplicateNodes
    scrape,      \* a scrape: a host, the gauges still to be read, and what it saw
    talkAt,      \* history: when each gauge of talkCheck was measured
    listed       \* history: the hosts pinged in the last cycle that ended

cluster == <<nodes, pods, broken, changes>>
locals == <<nodeIPs, hostToPod, todo, stamp, duplicates>>
gauges == <<talkCheck, monCheck, dupCheck, monRecency, talkAt, listed>>
vars == <<now, faults, cluster, pc, locals, gauges, scrape>>

\* cycle returns: its local variables are gone.
Return ==
    /\ pc' = "idle"
    /\ nodeIPs' = {} /\ hostToPod' = <<>> /\ todo' = {} /\ stamp' = 0 /\ duplicates' = FALSE

Fault == faults < MaxFaults /\ faults' = faults + 1
-----------------------------------------------------------------------------
(* The cluster *)

Change ==
    /\ changes < MaxChanges /\ changes' = changes + 1
    /\ \/ /\ \E h \in Hosts : nodes' = (nodes \ {h}) \cup ({h} \ nodes)
          /\ UNCHANGED <<pods, broken>>
       \/ /\ \E p \in Pods, s \in PodStatus :
                pods' = [q \in DOMAIN pods \cup {p} |-> IF q = p THEN s ELSE pods[q]]
          /\ UNCHANGED <<nodes, broken>>
       \/ /\ \E p \in DOMAIN pods : pods' = [q \in DOMAIN pods \ {p} |-> pods[q]]
          /\ UNCHANGED <<nodes, broken>>
       \/ /\ \E p \in Pods : broken' = (broken \ {p}) \cup ({p} \ broken)
          /\ UNCHANGED <<nodes, pods>>
    /\ UNCHANGED <<now, faults, pc, locals, gauges, scrape>>

\* A pod that answers at an address.
Answers(podIP) == \E p \in Running(pods) \ broken : pods[p].podIP = podIP

Tick ==
    /\ now < MaxTime /\ now' = now + 1
    /\ UNCHANGED <<faults, cluster, pc, locals, gauges, scrape>>
-----------------------------------------------------------------------------
(* cycle *)

\* The first call of ListAndMatchRunningAppPodsToNodes.  A node without exactly
\* one address fails it like the call itself does.
ListNodeIPs ==
    /\ pc = "idle"
    /\ \/ /\ nodeIPs' = nodes
          /\ pc' = "pods"
          /\ UNCHANGED faults
       \/ /\ Fault
          /\ pc' = "failed"
          /\ UNCHANGED nodeIPs
    /\ UNCHANGED <<now, cluster, hostToPod, todo, stamp, duplicates, gauges>>

\* The second one, and the matching of the two lists.
ListRunningAppPods ==
    /\ pc = "pods"
    /\ \/ /\ ~DuplicatePod(pods)
          /\ \E f \in HostsToPods(RunningAppPods(pods)) : hostToPod' = f
          /\ duplicates' = HasDuplicates(RunningAppPods(pods))
          /\ pc' = "podless"
          /\ UNCHANGED faults
       \/ /\ \/ DuplicatePod(pods) /\ UNCHANGED faults
             \/ Fault
          /\ pc' = "failed"
          /\ UNCHANGED <<hostToPod, duplicates>>
    /\ UNCHANGED <<now, cluster, nodeIPs, todo, stamp, gauges>>

\* Mutant: what was known before the failure is kept.
ForgetNothing ==
    /\ pc = "failed"
    /\ pc' = "invalid"
    /\ UNCHANGED <<now, faults, cluster, locals, gauges>>

\* The lists could not be had: talkCheck.Reset().
Forget ==
    /\ pc = "failed"
    /\ talkCheck' = [h \in Hosts |-> Nothing]
    /\ listed' = {}
    /\ pc' = "invalid"
    /\ UNCHANGED <<now, faults, cluster, locals, monCheck, dupCheck, monRecency, talkAt>>

MarkInvalid ==
    /\ pc = "invalid"
    /\ monCheck' = 0 /\ dupCheck' = 0
    /\ Return
    /\ UNCHANGED <<now, faults, cluster, talkCheck, monRecency, talkAt, listed>>

\* Mutant: nodes without a reflector are passed over.
PassOverPodless ==
    /\ pc = "podless"
    /\ pc' = "mark"
    /\ UNCHANGED <<now, faults, cluster, locals, gauges>>

\* Nodes that have no reflector cannot be talked to.
NotePodless ==
    LET podless == NotFound(nodeIPs, hostToPod) IN
    /\ pc = "podless"
    /\ talkCheck' = [h \in Hosts |-> IF h \in podless THEN 0 ELSE talkCheck[h]]
    /\ talkAt' = [h \in Hosts |-> IF h \in podless THEN now ELSE talkAt[h]]
    /\ listed' = listed \ podless
    /\ pc' = "mark"
    /\ UNCHANGED <<now, faults, cluster, locals, monCheck, dupCheck, monRecency>>

\* The lists are good; the time that the pings are at least as young as.
MarkValid ==
    /\ pc = "mark"
    /\ dupCheck' = IF duplicates THEN 0 ELSE 1
    /\ monCheck' = 1
    /\ stamp' = now
    /\ todo' = DOMAIN hostToPod
    /\ pc' = "ping"
    /\ UNCHANGED <<now, faults, cluster, nodeIPs, hostToPod, duplicates, talkCheck, monRecency, talkAt, listed>>

\* The next host of the map is pinged at the address its reflector had; a link
\* that works may still lose a ping.
Ping(h) ==
    /\ pc = "ping" /\ h \in todo
    /\ todo' = todo \ {h}
    /\ \E pass \in {0, 1} :
        /\ pass = 1 => Answers(hostToPod[h])
        /\ pass = 0 /\ Answers(hostToPod[h]) => faults < MaxFaults
        /\ faults' = IF pass = 0 /\ Answers(hostToPod[h]) THEN faults + 1 ELSE faults
        /\ talkCheck' = [talkCheck EXCEPT ![h] = pass]
        /\ talkAt' = [talkAt EXCEPT ![h] = now]
    /\ UNCHANGED <<now, cluster, pc, nodeIPs, hostToPod, stamp, duplicates, monCheck, dupCheck, monRecency, listed>>

\* Mutant: the recency is the time at which the cycle ends.
ReportLate ==
    /\ pc = "ping" /\ todo = {}
    /\ monRecency' = now
    /\ listed' = DOMAIN hostToPod
    /\ Return
    /\ UNCHANGED <<now, faults, cluster, talkCheck, monCheck, dupCheck, talkAt>>

\* The cycle ends; the loop waits before the next one.
Report ==
    /\ pc = "ping" /\ todo = {}
    /\ monRecency' = stamp
    /\ listed' = DOMAIN hostToPod
    /\ Return
    /\ UNCHANGED <<now, faults, cluster, talkCheck, monCheck, dupCheck, talkAt>>

-----------------------------------------------------------------------------
(* Scrapes *)

NoScrape == [host |-> CHOOSE h \in Hosts : TRUE, left |-> {}, saw |-> {}]

\* Registry.Gather: of all gauges, a scrape is followed for monitor_check and for the
\* talk_check of one host.
BeginScrape(h) ==
    /\ scrape.left = {}
    /\ scrape' = [host |-> h, left |-> {"talk", "mon"}, saw |-> {}]
    /\ UNCHANGED <<now, faults, cluster, pc, locals, gauges>>

ReadTalkCheck ==
    /\ "talk" \in scrape.left
    /\ scrape' = [scrape EXCEPT !.left = scrape.left \ {"talk"},
                                !.saw = IF talkCheck[scrape.host] = 1 THEN scrape.saw \cup {"reachable"}
                                                                      ELSE scrape.saw]
    /\ UNCHANGED <<now, faults, cluster, pc, locals, gauges>>

ReadMonCheck ==
    /\ "mon" \in scrape.left
    /\ scrape' = [scrape EXCEPT !.left = scrape.left \ {"mon"},
                                !.saw = IF monCheck = 0 THEN scrape.saw \cup {"invalid"}
                                                        ELSE scrape.saw]
    /\ UNCHANGED <<now, faults, cluster, pc, locals, gauges>>

\* History: monitor_check has changed while the scrape was under way.
MarkScrape ==
    scrape' = IF monCheck' # monCheck /\ scrape.left # {}
              THEN [scrape EXCEPT !.saw = scrape.saw \cup {"changed"}]
              ELSE scrape
-----------------------------------------------------------------------------
\* The monitor's pod is restarted: its gauges are in memory.
Restart ==
    /\ Fault
    /\ talkCheck' = [h \in Hosts |-> Nothing]
    /\ monCheck' = 0 /\ dupCheck' = 0 /\ monRecency' = 0
    /\ listed' = {}
    /\ Return
    /\ scrape' = NoScrape
    /\ UNCHANGED <<now, cluster, talkAt>>

CycleStep ==
    \/ ListNodeIPs \/ ListRunningAppPods
    \/ Forget \/ MarkInvalid
    \/ NotePodless \/ MarkValid \/ (\E h \in Hosts : Ping(h)) \/ Report
Cycle == CycleStep /\ MarkScrape

Init ==
    /\ now = 1 /\ changes = 0 /\ faults = 0
    /\ nodes = Hosts
    /\ pods \in [Pods -> [phase : {"Running"}, hostIP : Hosts, podIP : PodIPs]]
    /\ ~DuplicatePod(pods)
    /\ broken = {}
    /\ pc = "idle"
    /\ nodeIPs = {} /\ hostToPod = <<>> /\ todo = {} /\ stamp = 0 /\ duplicates = FALSE
    /\ talkCheck = [h \in Hosts |-> Nothing]
    /\ monCheck = 0 /\ dupCheck = 0 /\ monRecency = 0
    /\ scrape = NoScrape
    /\ talkAt = [h \in Hosts |-> 0] /\ listed = {}

Scrape == (\E h \in Scraped : BeginScrape(h)) \/ ReadTalkCheck \/ ReadMonCheck

Next == Change \/ Tick \/ Cycle \/ Scrape \/ Restart

Spec == Init /\ [][Next]_vars

\* loop is a goroutine of its own that never ends.  Pings have a timeout; the
\* lists end when the API server answers or its connection is found to be dead.
FairSpec == Spec /\ WF_vars(Cycle)
-----------------------------------------------------------------------------
(* Properties *)

TypeOK ==
    /\ now \in Nat /\ changes \in Nat /\ faults \in Nat
    /\ nodes \subseteq Hosts /\ broken \subseteq Pods
    /\ DOMAIN pods \subseteq Pods /\ \A p \in DOMAIN pods : pods[p] \in PodStatus
    /\ pc \in {"idle", "pods", "failed", "invalid", "podless", "mark", "ping"}
    /\ nodeIPs \subseteq Hosts /\ todo \subseteq DOMAIN hostToPod /\ stamp \in Nat /\ duplicates \in BOOLEAN
    /\ DOMAIN hostToPod \subseteq Hosts /\ \A h \in DOMAIN hostToPod : hostToPod[h] \in PodIPs
    /\ talkCheck \in [Hosts -> {0, 1, Nothing}]
    /\ monCheck \in {0, 1} /\ dupCheck \in {0, 1} /\ monRecency \in Nat
    /\ talkAt \in [Hosts -> Nat] /\ listed \subseteq Hosts
    /\ scrape.left \subseteq {"talk", "mon"} /\ scrape.saw \subseteq {"reachable", "invalid", "changed"}

\* "Whether flannel was able to be monitored from this host (and, therefore, the
\* other metrics are valid)": a scrape that shows a host as reachable next to a
\* monitor_check of 0 is one during which monitor_check changed.  However its reads
\* fall between the updates, two scrapes in a row that say so are two such changes,
\* and while nothing changes no scrape says so.
GoodNewsIsValid == {"reachable", "invalid"} \subseteq scrape.saw => "changed" \in scrape.saw

\* The hosts that the last complete cycle pinged have been pinged since
\* monitor_recency, whatever happened since then.
ListedAreRecent == \A h \in listed : talkAt[h] >= monRecency

\* "such that none of the httpping-derived metrics are *older* than this
\* timestamp": monitor_recency is not later than any successful ping that
\* talk_check reports.  It does not hold of nodes that have left the cluster.
RecencyIsOldest == \A h \in Hosts : talkCheck[h] = 1 => talkAt[h] >= monRecency

\* No reflector that runs on the host answers.
Unreachable(h) == \A p \in Running(pods) : pods[p].hostIP = h => p \in broken

\* A node that can no longer be reached is noticed: once its reflector is gone,
\* not running or cut off for good, it is not shown as reachable for ever.
OutageNoticed ==
    \A h \in Hosts :
        <>[](h \in nodes /\ Unreachable(h)) => <>[](talkCheck[h] # 1)
=============================================================================
