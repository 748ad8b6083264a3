----------------------------- MODULE MCServices -----------------------------
(***************************************************************************)
(* Seven components that share no state, one at a time: which of them runs *)
(* is chosen in the beginning, and the others stay as they are.            *)
(***************************************************************************)
EXTENDS ServerCert, Sequences

CONSTANTS
    Uids, NoPod, MaxOutages,
    Machines, Unexposed, MaxChanges,
    Specs, MaxLaunches, MaxErrors,
    Hostnames, NoValue, MaxClock, MaxDnsChanges,
    Versions, NoVersion, MaxEtcdChanges,
    Stanzas, ClusterTears, LocalTears, MaxMishaps,
    MaxFaults

VARIABLES
    component,
    faults, outages, registryUp, image, sandboxes, cycle, podid, failed, tempfiles,
    ociCheck, execCheck, orphans, strays,
    failures, changes, up, setup, accessible, hung, step, hostCA, todo,
    keyCheck, fetchCheck, authCheck, grantCheck, sshCheck,
    errors, launched, files, whole, uploading, running, listing, applied,
    clock, dnsChanges, resolves, stamp, unvisited, internalCheck, lookedUp, monRecency, scrape,
    etcdChanges, etcd, etcdState, certValid, asking, reported, lastSeen, etcdVersion, scraped,
    mishaps, keyserverUp, admitted, keyclient, autostart, stanza, completed, conf, due, writing,
    calm, enabled, unit, got

\* A service of each stanza for a master.
MasterStanzas == <<{"etcd"}, {"kubelet"}, {"apiserver"}>>

Pull == INSTANCE PullMonitor WITH pc <- cycle
Auth == INSTANCE AuthMonitor WITH pc <- step, faults <- failures
Queue == INSTANCE DeployQueue
Dns == INSTANCE DnsMonitor
Etcd == INSTANCE EtcdMetrics
Node == INSTANCE NodeServices

\* What the components take for granted: special values are no UIDs or times, and a
\* node has services.
ASSUME ServicesAssumption ==
    /\ NoPod \notin Uids
    /\ MaxClock \in Nat \ {0} /\ MaxDnsChanges \in Nat /\ NoValue \notin Nat
    /\ MaxEtcdChanges \in Nat
    /\ MaxMishaps \in Nat /\ Stanzas \in Seq(SUBSET STRING) /\ Stanzas # <<>>

pullVars == <<faults, outages, registryUp, image, sandboxes, cycle, podid, failed, tempfiles,
              ociCheck, execCheck, orphans, strays>>
authVars == <<failures, changes, up, setup, accessible, hung, step, hostCA, todo,
              keyCheck, fetchCheck, authCheck, grantCheck, sshCheck>>
queueVars == <<errors, launched, files, whole, uploading, running, listing, applied>>
dnsVars == <<clock, dnsChanges, resolves, stamp, unvisited, internalCheck, lookedUp, monRecency, scrape>>
etcdVars == <<etcdChanges, etcd, etcdState, certValid, asking, reported, lastSeen, etcdVersion, scraped>>
nodeVars == <<mishaps, keyserverUp, admitted, keyclient, autostart, stanza, completed, conf, due, writing,
              calm, enabled, unit, got>>
allvars == <<component, vars, pullVars, authVars, queueVars, dnsVars, etcdVars, nodeVars>>

OnlyCert ==
    component = "cert" /\ UNCHANGED <<component, pullVars, authVars, queueVars, dnsVars, etcdVars, nodeVars>>
OnlyPull ==
    component = "pull" /\ UNCHANGED <<component, vars, authVars, queueVars, dnsVars, etcdVars, nodeVars>>
OnlyAuth ==
    component = "auth" /\ UNCHANGED <<component, vars, pullVars, queueVars, dnsVars, etcdVars, nodeVars>>
OnlyQueue ==
    component = "queue" /\ UNCHANGED <<component, vars, pullVars, authVars, dnsVars, etcdVars, nodeVars>>
OnlyDns ==
    component = "dns" /\ UNCHANGED <<component, vars, pullVars, authVars, queueVars, etcdVars, nodeVars>>
OnlyEtcd ==
    component = "etcd" /\ UNCHANGED <<component, vars, pullVars, authVars, queueVars, dnsVars, nodeVars>>
OnlyNode ==
    component = "node" /\ UNCHANGED <<component, vars, pullVars, authVars, queueVars, dnsVars, etcdVars>>

MCInit ==
    /\ component \in {"cert", "pull", "auth", "queue", "dns", "etcd", "node"}
    /\ Init /\ Pull!Init /\ Auth!Init /\ Queue!Init /\ Dns!Init /\ Etcd!Init /\ Node!Init
    /\ component # "pull" => image
    /\ component # "auth" => setup = Machines
    /\ etcd = CHOOSE v \in Versions : TRUE

MCNext ==
    \/ OnlyCert /\ Next
    \/ OnlyPull /\ Pull!Next
    \/ OnlyAuth /\ Auth!Next
    \/ OnlyQueue /\ Queue!Next
    \/ OnlyDns /\ Dns!Next
    \/ OnlyEtcd /\ Etcd!Next
    \/ OnlyNode /\ Node!Next

\* The fairness of each component's own specification.
MCSpec ==
    /\ MCInit /\ [][MCNext]_allvars
    /\ WF_pullVars(component = "pull" /\ Pull!Cycle) /\ WF_pullVars(component = "pull" /\ Pull!ContainerExits)
    /\ WF_authVars(component = "auth" /\ Auth!Cycle)
    /\ WF_queueVars(component = "queue" /\ Queue!Run)
    /\ WF_etcdVars(component = "etcd" /\ Etcd!Loop) /\ WF_etcdVars(component = "etcd" /\ Etcd!Gather)
    /\ WF_nodeVars(component = "node" /\ Node!Autostart) /\ WF_nodeVars(component = "node" /\ Node!Keyclient)
    /\ \A f \in Node!Files : WF_nodeVars(component = "node" /\ Node!BeginWrite(f))
                            /\ WF_nodeVars(component = "node" /\ Node!RefreshDue(f))
    /\ \A s \in Node!Services : WF_nodeVars(component = "node" /\ Node!Launcher(s))
-----------------------------------------------------------------------------
MCTypeOK ==
    /\ TypeOK /\ Pull!TypeOK /\ Auth!TypeOK /\ Queue!TypeOK
    /\ Dns!TypeOK /\ Etcd!TypeOK /\ Node!TypeOK

\* Between two cycles of the pull monitor, nothing but what single faults have left
\* behind is on the node: at most a sandbox and two manifests for each.
NothingLeftBehind == Pull!NothingLeftBehind

\* The pull monitor's gauges follow the registry by themselves.
PullGaugesFollow == component = "pull" => Pull!PullGaugesFollow

\* The auth monitor's gauges end up true unless a node or the keygateway hangs for ever.
AuthGaugesSettle == component = "auth" => Auth!AuthGaugesSettle

\* setup-queue never replaces a newer specification by an older one.
NoRollback == Queue!NoRollback

\* The deployment queue empties itself.
QueueDrains == component = "queue" => Queue!QueueDrains

\* What a scrape of the DNS monitor reads is not older than the recency that was
\* exposed before the scrape began.
ScrapedMetricsAreRecent == Dns!ScrapedMetricsAreRecent

\* The version that etcd's exporter shows follows etcd.
VersionFollows == component = "etcd" => Etcd!VersionFollows

\* No service of a node is launched with less than whole values while each file has
\* been written but once.
WholeValuesUnlessDisturbed == Node!WholeValuesUnlessDisturbed

\* The services of a node come up, and come up again.
ServicesComeUp == component = "node" => Node!ServicesComeUp
=============================================================================
