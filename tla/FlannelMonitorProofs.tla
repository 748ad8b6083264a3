------------------------ MODULE FlannelMonitorProofs ------------------------
(***************************************************************************)
(* Proofs about FlannelMonitor, for any cluster and any changes of it.     *)
(***************************************************************************)
EXTENDS FlannelMonitor, TLAPS

\* The facts that the cycle establishes on its way.
CycleOK ==
    /\ pc # "ping" => todo = {}
    /\ pc = "ping" => monCheck = 1
    /\ pc = "ping" => \A h \in DOMAIN hostToPod \ todo : talkAt[h] >= stamp
    /\ pc = "invalid" => talkCheck = [h \in Hosts |-> Nothing]

\* No measurement is promised to be younger than it can be.
ClockOK == monRecency <= now /\ stamp <= now

\* At no instant is a host reachable while monitor_check is 0.
GoodNewsNow == \A h \in Hosts : talkCheck[h] = 1 => monCheck = 1

\* What a scrape that is under way has read of monitor_check, or knows of it by the
\* good news it has read, is true until monitor_check changes.
ScrapeOK ==
    /\ DOMAIN scrape = {"host", "left", "saw"}
    /\ scrape.left # {} => scrape.host \in Hosts
    /\ scrape.left # {} /\ "changed" \notin scrape.saw =>
          /\ "reachable" \in scrape.saw => monCheck = 1
          /\ "invalid" \in scrape.saw => monCheck = 0

Inv == TypeOK /\ CycleOK /\ ClockOK /\ GoodNewsNow /\ ListedAreRecent
ScrapeInv == Inv /\ ScrapeOK /\ GoodNewsIsValid

\* The monitor's own variables.
monitor == <<now, faults, cluster, pc, locals, gauges>>

\* TypeOK in parts: the cluster, the local variables of cycle, the gauges and scrapes.
ClusterTypes ==
    /\ now \in Nat /\ changes \in Nat /\ faults \in Nat
    /\ nodes \subseteq Hosts /\ broken \subseteq Pods
    /\ DOMAIN pods \subseteq Pods /\ \A p \in DOMAIN pods : pods[p] \in PodStatus
LocalTypes ==
    /\ pc \in {"idle", "pods", "failed", "invalid", "podless", "mark", "ping"}
    /\ nodeIPs \subseteq Hosts /\ todo \subseteq DOMAIN hostToPod /\ stamp \in Nat /\ duplicates \in BOOLEAN
    /\ DOMAIN hostToPod \subseteq Hosts /\ \A h \in DOMAIN hostToPod : hostToPod[h] \in PodIPs
GaugeTypes ==
    /\ talkCheck \in [Hosts -> {0, 1, Nothing}]
    /\ monCheck \in {0, 1} /\ dupCheck \in {0, 1} /\ monRecency \in Nat
    /\ talkAt \in [Hosts -> Nat] /\ listed \subseteq Hosts
ScrapeTypes ==
    scrape.left \subseteq {"talk", "mon"} /\ scrape.saw \subseteq {"reachable", "invalid", "changed"}
-----------------------------------------------------------------------------
\* The parts make up TypeOK.
LEMMA TypeParts ==
    /\ TypeOK <=> ClusterTypes /\ LocalTypes /\ GaugeTypes /\ ScrapeTypes
    /\ TypeOK' <=> (ClusterTypes /\ LocalTypes /\ GaugeTypes)' /\ ScrapeTypes'
  BY Zenon DEF TypeOK, ClusterTypes, LocalTypes, GaugeTypes, ScrapeTypes

\* What cycle leaves behind when it returns.
LEMMA ReturnTypes == Return => LocalTypes' /\ pc' = "idle" /\ todo' = {} /\ stamp' = 0
  <1> SUFFICES ASSUME Return PROVE LocalTypes' /\ pc' = "idle" /\ todo' = {} /\ stamp' = 0
    OBVIOUS
  <1>1. DOMAIN hostToPod' = {}
    BY DEF Return
  <1> QED
    BY <1>1 DEF Return, LocalTypes

\* The map made of a list has hosts and addresses of pods.
LEMMA MapTypes ==
    ASSUME ClusterTypes, NEW f \in HostsToPods(RunningAppPods(pods))
    PROVE  DOMAIN f \subseteq Hosts /\ \A h \in DOMAIN f : f[h] \in PodIPs
  <1>1. \A x \in RunningAppPods(pods) : x[1] \in PodIPs /\ x[2] \in Hosts
    BY DEF ClusterTypes, RunningAppPods, Running, PodStatus
  <1> DEFINE hosts == {x[2] : x \in RunningAppPods(pods)}
             ips == {x[1] : x \in RunningAppPods(pods)}
  <1>2. f \in [hosts -> ips]
    BY DEF HostsToPods
  <1>3. hosts \subseteq Hosts /\ ips \subseteq PodIPs
    BY <1>1
  <1> QED
    BY <1>2, <1>3

\* The invariant holds at first.
LEMMA InitInv == Init => ScrapeInv
  <1> SUFFICES ASSUME Init PROVE ScrapeInv
    OBVIOUS
  <1>1. ClusterTypes
    BY DEF Init, ClusterTypes, PodStatus
  <1>2. LocalTypes
    <2>1. DOMAIN hostToPod = {}
      BY DEF Init
    <2> QED
      BY <2>1 DEF Init, LocalTypes
  <1>3. GaugeTypes
    BY DEF Init, GaugeTypes
  <1>4. CycleOK /\ ClockOK /\ GoodNewsNow /\ ListedAreRecent
    BY NothingAssumption DEF Init, CycleOK, ClockOK, GoodNewsNow, ListedAreRecent
  <1>5. ScrapeTypes /\ ScrapeOK /\ GoodNewsIsValid
    BY DEF Init, NoScrape, ScrapeTypes, ScrapeOK, GoodNewsIsValid
  <1> QED
    BY <1>1, <1>2, <1>3, <1>4, <1>5, TypeParts DEF Inv, ScrapeInv

\* Every step of the monitor and of the cluster keeps the invariant.
LEMMA MonitorStep ==
    ASSUME Inv, Change \/ Tick \/ CycleStep \/ Restart \/ UNCHANGED monitor, ScrapeTypes'
    PROVE  Inv'
  <1>0. ClusterTypes /\ LocalTypes /\ GaugeTypes
    BY TypeParts DEF Inv
  <1>a. CycleOK /\ ClockOK /\ GoodNewsNow /\ ListedAreRecent
    BY DEF Inv
  <1> SUFFICES (ClusterTypes /\ LocalTypes /\ GaugeTypes)'
               /\ CycleOK' /\ ClockOK' /\ GoodNewsNow' /\ ListedAreRecent'
    BY TypeParts DEF Inv
  <1> USE DEF cluster, locals, gauges
  <1>1. CASE UNCHANGED monitor
    BY <1>0, <1>a, <1>1
    DEF monitor, ClusterTypes, LocalTypes, GaugeTypes, CycleOK, ClockOK, GoodNewsNow, ListedAreRecent
  <1>2. CASE Change
    <2>1. ClusterTypes'
      <3>1. changes' \in Nat
        BY <1>0, <1>2, BoundsAssumption DEF Change, ClusterTypes
      <3>2. nodes' \subseteq Hosts /\ broken' \subseteq Pods
        BY <1>0, <1>2 DEF Change, ClusterTypes
      <3>3. DOMAIN pods' \subseteq Pods /\ \A p \in DOMAIN pods' : pods'[p] \in PodStatus
        BY <1>0, <1>2 DEF Change, ClusterTypes
      <3> QED
        BY <1>0, <1>2, <3>1, <3>2, <3>3 DEF Change, ClusterTypes
    <2>2. UNCHANGED <<now, pc, locals, gauges>>
      BY <1>2 DEF Change
    <2> QED
      BY <1>0, <1>a, <2>1, <2>2
      DEF LocalTypes, GaugeTypes, CycleOK, ClockOK, GoodNewsNow, ListedAreRecent
  <1>3. CASE Tick
    BY <1>0, <1>a, <1>3
    DEF Tick, ClusterTypes, LocalTypes, GaugeTypes, CycleOK, ClockOK, GoodNewsNow, ListedAreRecent
  <1>4. CASE ListNodeIPs
    BY <1>0, <1>a, <1>4
    DEF ListNodeIPs, Fault, ClusterTypes, LocalTypes, GaugeTypes, CycleOK, ClockOK, GoodNewsNow, ListedAreRecent
  <1>5. CASE ListRunningAppPods
    <2>1. ClusterTypes'
      BY <1>0, <1>5 DEF ListRunningAppPods, Fault, ClusterTypes
    <2>2. LocalTypes'
      <3>1. CASE ~DuplicatePod(pods) /\ pc' = "podless"
        <4>1. PICK f \in HostsToPods(RunningAppPods(pods)) : hostToPod' = f
          BY <1>5, <3>1 DEF ListRunningAppPods
        <4>2. duplicates' \in BOOLEAN
          BY <1>5, <3>1 DEF ListRunningAppPods, HasDuplicates
        <4>3. DOMAIN hostToPod' \subseteq Hosts /\ \A h \in DOMAIN hostToPod' : hostToPod'[h] \in PodIPs
          BY <1>0, <4>1, MapTypes
        <4>4. todo = {}
          BY <1>a, <1>5 DEF CycleOK, ListRunningAppPods
        <4> QED
          BY <1>0, <1>5, <3>1, <4>2, <4>3, <4>4 DEF ListRunningAppPods, LocalTypes
      <3>2. CASE pc' = "failed"
        BY <1>0, <1>5, <3>2 DEF ListRunningAppPods, LocalTypes
      <3> QED
        BY <1>5, <3>1, <3>2 DEF ListRunningAppPods
    <2> QED
      BY <1>0, <1>a, <1>5, <2>1, <2>2
      DEF ListRunningAppPods, GaugeTypes, CycleOK, ClockOK, GoodNewsNow, ListedAreRecent
  <1>6. CASE Forget
    BY <1>0, <1>a, <1>6, NothingAssumption
    DEF Forget, ClusterTypes, LocalTypes, GaugeTypes, CycleOK, ClockOK, GoodNewsNow, ListedAreRecent
  <1>7. CASE MarkInvalid
    <2>1. LocalTypes' /\ pc' = "idle" /\ todo' = {} /\ stamp' = 0
      BY <1>7, ReturnTypes DEF MarkInvalid
    <2>2. GoodNewsNow'
      BY <1>a, <1>7, NothingAssumption DEF MarkInvalid, CycleOK, GoodNewsNow
    <2> QED
      BY <1>0, <1>a, <1>7, <2>1, <2>2
      DEF MarkInvalid, ClusterTypes, GaugeTypes, CycleOK, ClockOK, ListedAreRecent
  <1>8. CASE NotePodless
    <2> DEFINE podless == NotFound(nodeIPs, hostToPod)
    <2>1. talkCheck' = [h \in Hosts |-> IF h \in podless THEN 0 ELSE talkCheck[h]]
          /\ talkAt' = [h \in Hosts |-> IF h \in podless THEN now ELSE talkAt[h]]
          /\ listed' = listed \ podless /\ pc = "podless" /\ pc' = "mark"
          /\ UNCHANGED <<now, faults, cluster, locals, monCheck, dupCheck, monRecency>>
      BY <1>8 DEF NotePodless
    <2> HIDE DEF podless
    <2>2. GaugeTypes'
      BY <1>0, <2>1 DEF ClusterTypes, GaugeTypes
    <2>3. GoodNewsNow'
      BY <1>a, <2>1 DEF GoodNewsNow
    <2>4. ListedAreRecent'
      BY <1>0, <1>a, <2>1 DEF ListedAreRecent, GaugeTypes
    <2> QED
      BY <1>0, <1>a, <2>1, <2>2, <2>3, <2>4 DEF ClusterTypes, LocalTypes, CycleOK, ClockOK
  <1>9. CASE MarkValid
    BY <1>0, <1>a, <1>9
    DEF MarkValid, ClusterTypes, LocalTypes, GaugeTypes, CycleOK, ClockOK, GoodNewsNow, ListedAreRecent
  <1>10. ASSUME NEW h \in Hosts, Ping(h)
         PROVE  (ClusterTypes /\ LocalTypes /\ GaugeTypes)'
                /\ CycleOK' /\ ClockOK' /\ GoodNewsNow' /\ ListedAreRecent'
    <2>1. PICK pass \in {0, 1} :
            /\ talkCheck' = [talkCheck EXCEPT ![h] = pass]
            /\ talkAt' = [talkAt EXCEPT ![h] = now]
      BY <1>10 DEF Ping
    <2>2. pc = "ping" /\ todo' = todo \ {h}
          /\ UNCHANGED <<now, cluster, pc, nodeIPs, hostToPod, stamp, duplicates, monCheck, dupCheck, monRecency, listed>>
      BY <1>10 DEF Ping
    <2>3. faults' \in Nat
      BY <1>0, <1>10 DEF Ping, ClusterTypes
    <2>4. (ClusterTypes /\ LocalTypes /\ GaugeTypes)'
      BY <1>0, <2>1, <2>2, <2>3 DEF ClusterTypes, LocalTypes, GaugeTypes
    <2>5. CycleOK' /\ ClockOK'
      BY <1>0, <1>a, <2>1, <2>2 DEF CycleOK, ClockOK, ClusterTypes, LocalTypes, GaugeTypes
    <2>6. GoodNewsNow'
      BY <1>a, <2>2 DEF CycleOK, GoodNewsNow
    <2>7. ListedAreRecent'
      BY <1>0, <1>a, <2>1, <2>2 DEF ListedAreRecent, ClockOK, ClusterTypes, GaugeTypes
    <2> QED
      BY <2>4, <2>5, <2>6, <2>7
  <1>11. CASE Report
    <2>1. LocalTypes' /\ pc' = "idle" /\ todo' = {} /\ stamp' = 0
      BY <1>11, ReturnTypes DEF Report
    <2>2. ListedAreRecent'
      BY <1>0, <1>a, <1>11 DEF Report, CycleOK, ListedAreRecent
    <2> QED
      BY <1>0, <1>a, <1>11, <2>1, <2>2
      DEF Report, ClusterTypes, LocalTypes, GaugeTypes, CycleOK, ClockOK, GoodNewsNow
  <1>12. CASE Restart
    <2>1. LocalTypes' /\ pc' = "idle" /\ todo' = {} /\ stamp' = 0
      BY <1>12, ReturnTypes DEF Restart
    <2> QED
      BY <1>0, <1>12, <2>1, NothingAssumption
      DEF Restart, Fault, ClusterTypes, GaugeTypes, CycleOK, ClockOK, GoodNewsNow, ListedAreRecent
  <1> QED
    BY <1>1, <1>2, <1>3, <1>4, <1>5, <1>6, <1>7, <1>8, <1>9, <1>10, <1>11, <1>12 DEF CycleStep

\* A change of monitor_check is noted, and without one nothing changes for a scrape.
LEMMA MarkStep ==
    ASSUME ScrapeOK, ScrapeTypes, GoodNewsIsValid, monCheck \in {0, 1},
           \/ MarkScrape
           \/ scrape' = scrape /\ monCheck' = monCheck
           \/ scrape' = NoScrape
    PROVE  ScrapeOK' /\ ScrapeTypes' /\ GoodNewsIsValid'
<1>1. CASE scrape' = NoScrape
  BY <1>1 DEF NoScrape, ScrapeOK, ScrapeTypes, GoodNewsIsValid
<1>2. CASE scrape' = scrape /\ (monCheck' = monCheck \/ scrape.left = {})
  BY <1>2 DEF ScrapeOK, ScrapeTypes, GoodNewsIsValid
<1>3. CASE scrape' = [scrape EXCEPT !.saw = scrape.saw \cup {"changed"}] /\ scrape.left # {}
  <2>1. /\ DOMAIN scrape' = {"host", "left", "saw"} /\ scrape'.host = scrape.host
        /\ scrape'.left = scrape.left /\ scrape'.saw = scrape.saw \cup {"changed"}
    BY <1>3 DEF ScrapeOK
  <2> QED
    BY <2>1 DEF ScrapeOK, ScrapeTypes, GoodNewsIsValid
<1> QED
  BY <1>1, <1>2, <1>3 DEF MarkScrape

\* Scrapes read what is there.
LEMMA ScrapeStep ==
    ASSUME ScrapeInv, Scrape
    PROVE  ScrapeOK' /\ ScrapeTypes' /\ GoodNewsIsValid' /\ UNCHANGED monitor
<1>0. ScrapeOK /\ ScrapeTypes /\ GoodNewsIsValid /\ GoodNewsNow
  BY TypeParts DEF ScrapeInv, Inv
<1>1. UNCHANGED monitor /\ monCheck' = monCheck
  BY DEF Scrape, BeginScrape, ReadTalkCheck, ReadMonCheck, monitor, gauges
<1>2. ASSUME NEW h \in Scraped, BeginScrape(h)
      PROVE  ScrapeOK' /\ ScrapeTypes' /\ GoodNewsIsValid'
  <2>1. scrape' = [host |-> h, left |-> {"talk", "mon"}, saw |-> {}] /\ h \in Hosts
    BY <1>2, ScrapedAssumption DEF BeginScrape
  <2> QED
    BY <2>1 DEF ScrapeOK, ScrapeTypes, GoodNewsIsValid
<1>3. CASE ReadTalkCheck
  <2>1. /\ DOMAIN scrape' = {"host", "left", "saw"} /\ scrape'.host = scrape.host
        /\ scrape'.left = scrape.left \ {"talk"}
        /\ \/ scrape'.saw = scrape.saw
           \/ scrape'.saw = scrape.saw \cup {"reachable"} /\ talkCheck[scrape.host] = 1
    BY <1>0, <1>3 DEF ReadTalkCheck, ScrapeOK
  <2>2. scrape.left # {} /\ scrape.host \in Hosts
    BY <1>0, <1>3 DEF ReadTalkCheck, ScrapeOK
  <2>3. "reachable" \in scrape'.saw /\ "changed" \notin scrape'.saw => monCheck = 1
    BY <1>0, <2>1, <2>2 DEF ScrapeOK, GoodNewsNow
  <2>4. "invalid" \in scrape'.saw /\ "changed" \notin scrape'.saw => monCheck = 0
    BY <1>0, <2>1, <2>2 DEF ScrapeOK
  <2>5. ScrapeTypes'
    BY <1>0, <2>1 DEF ScrapeTypes
  <2>6. GoodNewsIsValid'
    BY <2>3, <2>4 DEF GoodNewsIsValid
  <2> QED
    BY <1>1, <2>1, <2>2, <2>3, <2>4, <2>5, <2>6 DEF ScrapeOK
<1>4. CASE ReadMonCheck
  <2>1. /\ DOMAIN scrape' = {"host", "left", "saw"} /\ scrape'.host = scrape.host
        /\ scrape'.left = scrape.left \ {"mon"}
        /\ \/ scrape'.saw = scrape.saw
           \/ scrape'.saw = scrape.saw \cup {"invalid"} /\ monCheck = 0
    BY <1>0, <1>4 DEF ReadMonCheck, ScrapeOK
  <2>2. scrape.left # {} /\ scrape.host \in Hosts
    BY <1>0, <1>4 DEF ReadMonCheck, ScrapeOK
  <2>3. "reachable" \in scrape'.saw /\ "changed" \notin scrape'.saw => monCheck = 1
    BY <1>0, <2>1, <2>2 DEF ScrapeOK
  <2>4. "invalid" \in scrape'.saw /\ "changed" \notin scrape'.saw => monCheck = 0
    BY <1>0, <2>1, <2>2 DEF ScrapeOK
  <2>5. ScrapeTypes'
    BY <1>0, <2>1 DEF ScrapeTypes
  <2>6. GoodNewsIsValid'
    BY <2>3, <2>4 DEF GoodNewsIsValid
  <2> QED
    BY <1>1, <2>1, <2>2, <2>3, <2>4, <2>5, <2>6 DEF ScrapeOK
<1> QED
  BY <1>1, <1>2, <1>3, <1>4 DEF Scrape

\* Every step keeps the whole invariant.
LEMMA NextInv == ScrapeInv /\ [Next]_vars => ScrapeInv'
<1> SUFFICES ASSUME ScrapeInv, [Next]_vars PROVE ScrapeInv'
  OBVIOUS
<1>1. CASE Scrape
  BY <1>1, ScrapeStep, MonitorStep DEF ScrapeInv
<1>2. CASE Change \/ Tick \/ Cycle \/ Restart \/ UNCHANGED vars
  <2>1. \/ MarkScrape
        \/ scrape' = scrape /\ monCheck' = monCheck
        \/ scrape' = NoScrape
    BY <1>2 DEF Change, Tick, Cycle, Restart, vars, gauges
  <2>2. ScrapeOK /\ ScrapeTypes /\ GoodNewsIsValid /\ monCheck \in {0, 1}
    BY TypeParts DEF ScrapeInv, Inv, GaugeTypes
  <2>3. ScrapeOK' /\ ScrapeTypes' /\ GoodNewsIsValid'
    BY <2>1, <2>2, MarkStep
  <2>4. Change \/ Tick \/ CycleStep \/ Restart \/ UNCHANGED monitor
    BY <1>2 DEF Cycle, vars, monitor
  <2> QED
    BY <2>3, <2>4, MonitorStep DEF ScrapeInv
<1> QED
  BY <1>1, <1>2 DEF Next

\* The inductive invariant, for the whole specification.
LEMMA Invariance == Spec => []ScrapeInv
  BY InitInv, NextInv, PTL DEF Spec
-----------------------------------------------------------------------------
\* Type correctness of the monitor's gauges and local variables.
THEOREM TypeCorrect == Spec => []TypeOK
  BY Invariance, PTL DEF ScrapeInv, Inv

\* A scrape, whose reads fall anywhere between the updates and in either order, only
\* shows a reachable host next to a monitor_check of 0 if monitor_check changed while
\* it was under way.
THEOREM NoInvalidGoodNews == Spec => []GoodNewsIsValid
  BY Invariance, PTL DEF ScrapeInv, Inv

\* monitor_recency bounds the age of the measurements of the hosts that the last
\* complete cycle pinged.
THEOREM RecencyOfListed == Spec => []ListedAreRecent
  BY Invariance, PTL DEF ScrapeInv, Inv
=============================================================================
