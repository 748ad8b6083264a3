----------------------------- MODULE DnsMonitor -----------------------------
(***************************************************************************)
(* The DNS monitor (dns-monitor): a pod that looks up every hostname of    *)
(* its command line, cycle after cycle, and exposes for each whether the   *)
(* answer was the expected one, and when the cycle began.                  *)
(*                                                                         *)
(* Prometheus scrapes it during the cycles.  A scrape is not atomic: the   *)
(* registry reads the metrics one after the other, in any order.           *)
(***************************************************************************)
EXTENDS Naturals

CONSTANTS
    Hostnames,      \* the hostnames of the command line
    NoValue,        \* a gauge that is not exposed, or not yet read
    MaxClock,       \* bound: last value of the clock
    MaxDnsChanges   \* bound: changes of the DNS service and restarts of the pod

VARIABLES
    clock, dnsChanges,
    resolves,       \* the hostnames whose lookup yields the expected address
    stamp,          \* recencyTimestamp; 0 between two cycles
    unvisited,      \* the hostnames that the cycle has still to look up
    internalCheck,  \* the exposed gauges, by hostname
    lookedUp,       \* history: the time of the lookup behind each gauge
    monRecency,     \* the exposed recency
    scrape          \* what the scrape under way has read, and what was exposed before it

vars == <<clock, dnsChanges, resolves, stamp, unvisited, internalCheck, lookedUp, monRecency, scrape>>

NoScrape == [settled |-> NoValue, at |-> [h \in Hostnames |-> NoValue], recency |-> NoValue]
-----------------------------------------------------------------------------
StartCycle ==
    /\ stamp = 0
    /\ stamp' = clock
    /\ unvisited' = Hostnames
    /\ UNCHANGED <<clock, dnsChanges, resolves, internalCheck, lookedUp, monRecency, scrape>>

\* grabOneIPv4, and the gauge.  No answer within a second is an error.
Lookup(h) ==
    /\ h \in unvisited
    /\ unvisited' = unvisited \ {h}
    /\ internalCheck' = [internalCheck EXCEPT ![h] = IF h \in resolves THEN 1 ELSE 0]
    /\ lookedUp' = [lookedUp EXCEPT ![h] = clock]
    /\ UNCHANGED <<clock, dnsChanges, resolves, stamp, monRecency, scrape>>

\* Mutant: the recency is the time at which the cycle ended.
EndCycleNow ==
    /\ stamp # 0 /\ unvisited = {}
    /\ monRecency' = clock
    /\ stamp' = 0
    /\ UNCHANGED <<clock, dnsChanges, resolves, unvisited, internalCheck, lookedUp, scrape>>

EndCycle ==
    /\ stamp # 0 /\ unvisited = {}
    /\ monRecency' = stamp
    /\ stamp' = 0
    /\ UNCHANGED <<clock, dnsChanges, resolves, unvisited, internalCheck, lookedUp, scrape>>
-----------------------------------------------------------------------------
(* A scrape by Prometheus *)

BeginScrape ==
    /\ scrape' = [NoScrape EXCEPT !.settled = monRecency]
    /\ UNCHANGED <<clock, dnsChanges, resolves, stamp, unvisited, internalCheck, lookedUp, monRecency>>

ReadGauge(h) ==
    /\ scrape.settled # NoValue /\ scrape.at[h] = NoValue
    /\ internalCheck[h] # NoValue
    /\ scrape' = [scrape EXCEPT !.at[h] = lookedUp[h]]
    /\ UNCHANGED <<clock, dnsChanges, resolves, stamp, unvisited, internalCheck, lookedUp, monRecency>>

ReadRecency ==
    /\ scrape.settled # NoValue /\ scrape.recency = NoValue
    /\ scrape' = [scrape EXCEPT !.recency = monRecency]
    /\ UNCHANGED <<clock, dnsChanges, resolves, stamp, unvisited, internalCheck, lookedUp, monRecency>>
-----------------------------------------------------------------------------
Tick ==
    /\ clock < MaxClock /\ clock' = clock + 1
    /\ UNCHANGED <<dnsChanges, resolves, stamp, unvisited, internalCheck, lookedUp, monRecency, scrape>>

Change == dnsChanges < MaxDnsChanges /\ dnsChanges' = dnsChanges + 1

\* A hostname starts or ceases to resolve.
DnsChanges(h) ==
    /\ Change
    /\ resolves' = IF h \in resolves THEN resolves \ {h} ELSE resolves \cup {h}
    /\ UNCHANGED <<clock, stamp, unvisited, internalCheck, lookedUp, monRecency, scrape>>

Fresh ==
    /\ stamp' = 0 /\ unvisited' = {}
    /\ internalCheck' = [h \in Hostnames |-> NoValue]
    /\ lookedUp' = [h \in Hostnames |-> NoValue]
    /\ monRecency' = 0
    /\ scrape' = NoScrape

\* The pod is replaced: no hostname has a gauge, the recency is 0, and a scrape
\* under way fails.
RestartPod == Change /\ Fresh /\ UNCHANGED <<clock, resolves>>

Init ==
    /\ clock = 1 /\ dnsChanges = 0
    /\ resolves = Hostnames
    /\ stamp = 0 /\ unvisited = {}
    /\ internalCheck = [h \in Hostnames |-> NoValue]
    /\ lookedUp = [h \in Hostnames |-> NoValue]
    /\ monRecency = 0
    /\ scrape = NoScrape

Next ==
    \/ StartCycle \/ EndCycle
    \/ BeginScrape \/ ReadRecency \/ Tick \/ RestartPod
    \/ \E h \in Hostnames : Lookup(h) \/ ReadGauge(h) \/ DnsChanges(h)

Spec == Init /\ [][Next]_vars
-----------------------------------------------------------------------------
(* Properties *)

Times == 0..MaxClock

TypeOK ==
    /\ clock \in Times /\ stamp \in Times /\ monRecency \in Times
    /\ dnsChanges \in 0..MaxDnsChanges
    /\ resolves \subseteq Hostnames /\ unvisited \subseteq Hostnames
    /\ internalCheck \in [Hostnames -> {0, 1, NoValue}]
    /\ lookedUp \in [Hostnames -> Times \cup {NoValue}]
    /\ scrape \in [settled : Times \cup {NoValue}, recency : Times \cup {NoValue},
                   at : [Hostnames -> Times \cup {NoValue}]]

\* "None of the DNS-derived metrics are older than this timestamp", for a scrape
\* that runs alongside the cycles: every hostname has a gauge, and what the
\* scrape reads of it comes from a lookup not older than the recency that was
\* exposed when the scrape began.  (It is not true of the recency that the scrape
\* itself reads, because a cycle may end between the two reads.)
ScrapedMetricsAreRecent ==
    scrape.settled \in Nat \ {0} =>
        \A h \in Hostnames :
            /\ internalCheck[h] # NoValue
            /\ scrape.at[h] # NoValue => scrape.at[h] >= scrape.settled
=============================================================================
