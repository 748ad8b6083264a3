-------------------------- MODULE MCFlannelMonitor --------------------------
(* Two nodes and two pods, which may share a node or, later, an address: one  *)
(* of the flannel monitors watching the reflectors, with or without a scrape  *)
(* of it, or the collector watching the monitors.  Which of the three runs is *)
(* chosen in the beginning.                                                   *)
EXTENDS FlannelMonitor

CONSTANTS a, p, q, x, y

VARIABLES component, step, result, scrapeCheck, collectCheck, additional, shown

Coll == INSTANCE Collector WITH pc <- step

monitorOnly == <<now, pc, stamp, talkCheck, monCheck, monRecency, talkAt, listed, scrape>>
collectorOnly == <<step, result, scrapeCheck, collectCheck, additional, shown>>
allvars == <<component, vars, collectorOnly>>

OnlyMonitor == component \in {"monitor", "scraped"} /\ UNCHANGED <<component, collectorOnly>>
OnlyCollector == component = "collector" /\ UNCHANGED <<component, monitorOnly>>

\* Pods, addresses and nodes are interchangeable, and one of each kind of initial
\* state is enough.
MCInit ==
    /\ component \in {"monitor", "scraped", "collector"}
    /\ Init /\ Coll!Init
    /\ pods[p].podIP = x /\ pods[q].podIP = y /\ pods[p].hostIP = a

\* Bound: next to scrapes there is one change, and time stands still, as it does not
\* matter to them; without scrapes there is one fault.
Bounds == IF component = "scraped" THEN changes <= 1 /\ now = 1
                                   ELSE scrape = NoScrape /\ faults <= 1

MCNext ==
    /\ (OnlyMonitor /\ Next) \/ (OnlyCollector /\ Coll!Next)
    /\ Bounds'

\* The fairness of each component's own specification.
MCSpec ==
    /\ MCInit /\ [][MCNext]_allvars
    /\ WF_allvars(OnlyMonitor /\ Cycle)
    /\ WF_allvars(OnlyCollector /\ Coll!Cycle) /\ WF_allvars(OnlyCollector /\ Coll!GatherWhole)
-----------------------------------------------------------------------------
\* A node that can no longer be reached is noticed by the flannel monitor.
MonitorNotices == component # "collector" => OutageNoticed

\* What Prometheus gets from the collector follows the monitors by itself.
CollectionFollows == component = "collector" => Coll!CollectionFollows
=============================================================================
