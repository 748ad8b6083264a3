# homeworld: TLA+ models and proofs

This directory models the parts of [homeworld](../src/README.md) whose correctness
depends on the order in which things happen: the key infrastructure that admits
machines to a cluster and keeps their certificates current, the website that hands
out access to users, the operator's own certificates and keytabs, the monitors of the
overlay network, of image pulling, of authentication, of DNS and of etcd, the
deployment tool that brings a cluster up over ssh, the queue of the specifications
that it deploys, and the way the services of a node come up. TLC checks every module on small instances;
TLAPS proves every safety property that the passing runs check, for every value of the
constants. `PROJECT.json` lists the components, the runs, the lines of source
behind each definition, the hazards and the theorems.

## 1. Inventory

### How the system works

A homeworld cluster has one *supervisor*, some *masters* and some *workers*, all
listed in `setup.yaml`. The supervisor runs the **keyserver**, which holds the
private keys of all certificate authorities. Every node runs a **keyclient** that
asks the keyserver for certificates and files and keeps them current. A node gets
its first certificate, the *keygranting* certificate, with a one-time *bootstrap
token*; everything after that is authenticated with the keygranting certificate.
Administrators authenticate with Kerberos to the **keygateway** on the supervisor,
which forwards their requests to the keyserver under the supervisor's own
certificate, preceded by an impersonation. An administrator drives everything with
**spire**, which generates authorities and configuration on the operator's machine,
brings up the supervisor over ssh, requests tokens for the other nodes and verifies
the result. Kubernetes, etcd and flannel then run with the certificates the
keyclients have fetched. Small monitors export gauges to Prometheus.

| component | state it keeps | operations | what it interacts with | what is hard | what makes it correct |
|---|---|---|---|---|---|
| token registry (`keyserver/token`) | map of tokens in memory, a `sync.Once` in each | grant, look up, claim, purge | handlers of API requests | lookups, claims, grants and purges race; expiry; lost on restart | a token admits one request, for its subject, before its expiry, and is not lost before |
| keyserver API (`keyserver/keyapi`, `operation`, `account`, `worldconfig`) | accounts, privileges, token registry | authenticate by token or certificate; sign, grant tokens, reveal, impersonate | keyclients, keygateway, keyinitadmit | operations of concurrent requests interleave; a request fails in the middle; impersonation within a request | nobody acts for somebody else or from elsewhere; no keygranting certificate without a token |
| server certificate (`keyapi/api.go`) | cached certificate under a lock | check, sign, store | TLS handshakes | races for a renewal | a certificate is signed once, and only replaced by a newer one |
| keyclient (`keyclient`) | key, certificate, token and configuration files; the keygranting certificate and refusals in memory | one list of actions, again and again: keygen, bootstrap, request and renew, download, set the host name, tell systemd | keyserver, disk, systemd | crashes between any two system calls, torn files, lost answers, outages, clock | a token is not wasted, certificates are renewed in time, the node converges by itself |
| user-grant (`user-grant`) | none of its own; namespaces and role bindings in Kubernetes | TLS handshake, authenticate, create namespace, bind role, sign, answer | users' browsers, Kubernetes API | requests race and fail half-way; connections outlive certificates | a kubeconfig works and belongs to the user who proved to be one |
| flannel-monitor (`flannel-monitor/monitor`, `common`, `reflector`) | Prometheus gauges | list nodes and pods, ping, set gauges | Kubernetes API, reflector pods, Prometheus | lists are stale when used; scrapes fall between updates | gauges say nothing good that is not valid, unless that is just changing; an outage shows |
| spire deployment (`spire/src/seq.py`, `setup.py`, ...) | files and services of the supervisor and the nodes; the project directory | supervisor sequence, redeployment, admission | all of the above, over ssh | any operation may fail or be done without spire knowing; keyclients run all the time; files change under a running command | a failed command can be repeated; the operator keeps access; configuration is consistent |
| flannel-monitor collector (`flannel-monitor/collector`) | gauges and the gathered metrics | list monitors, fetch, replace the metrics; a scrape reads them | Kubernetes API, monitors, Prometheus | a slice that is assigned and read without a lock | what is handed on follows the monitors that are there |
| pull-monitor (`pull-monitor/pull-monitor`) | gauges; temporary manifests; sandboxes and containers of the runtime | delete and pull an image, run it in a sandbox, tear that down | cri-o (by crictl), the registry | a dozen calls, each of which may fail before or after its effect; kills | nothing is left behind that a fault did not leave; the gauges follow the registry |
| auth-monitor (`auth-monitor`) | gauges | probe the keyserver, the keygateway, the grant of ssh certificates and each node | keyserver, keygateway, ssh | services, nodes and `setup.yaml` change within a cycle; a node, the KDC or the gateway hangs | the gauges end up true |
| setup-queue (`setup-queue`, `spire/src/deploy.py`) | files of a queue directory | upload; apply and remove each | spire, Kubernetes API | crash between apply and remove, half-uploaded files, uploads during a run | a newer specification is not replaced by an older one |
| dns-monitor (`dns-monitor`) | gauges | resolve each name, set its gauge, then the recency | DNS, Prometheus | a scrape reads one metric after the other while a cycle replaces them | what a scrape reads is as recent as was said before it |
| etcd-metrics-exporter (`etcd-metrics-exporter`) | a gauge for the etcd version last seen | proxy etcd's metrics, refresh the version every 15 s | etcd, Prometheus | the old version is deleted before the new one is set; no timeout; a certificate that is loaded once | scrapes end up with the version that runs, and no other |
| kubernetes launcher, kube-state-metrics, autostart, etcd's scripts | none of their own; systemd's units | start and enable the services of a node's kind; read, check and use the downloaded configuration | keyclient's files, systemd | files are read while they are written, or torn by a power loss; autostart is tried once per boot | programs get whole values unless something disturbs the files; the services come up, and do so again after a reboot |
| spire access (`spire/src/access.py`, keyreq, keylocalcert) | the operator's key, certificate and authority in the project | check the age, replace by keyreq or by the local bypass, invoke kubectl or etcdctl | keygateway, keyserver, the project's authorities | three files written one by one without a lock; two commands at once; failures half-way | an undisturbed command works, and a disturbed one recovers by itself |
| spire keys (`spire/src/keys.py`) | encrypted keytabs and authorities in the project | import, rotate, delete old keys; generate | the Kerberos KDC, gpg | a crash between changing the key at the KDC, encrypting, removing and renaming | the newest key that was written to the project is never lost |
| keygen, keygenupstream, API clients, utilities | none | key generation, requests, parsing | keyserver | | |
| spire: configuration, verification, images, virtual clusters | files that are generated anew | render, query, build | operator | | |
| build, packaging, third-party services | | | | | not program logic |

### Hazards

`PROJECT.json` lists, line by line, what a test would hardly reach: races between
handlers of the keyserver, crashes between two steps of the keyclient, answers that
are lost after the server has acted, files that a crash has torn and that look
fresh, gauges between two updates, deployments that stop half-way. Each hazard
names the properties that would catch it going wrong, or says why none does. One has
none: two accounts with one principal, which the models assume away
(`DistinctPrincipals`).

## 2. Modules

Each component has a module of its own; an `MC` module gives it a small instance,
and a `Proofs` module holds its theorems (`ServicesProofs` and `UserGrantProofs` those of
the components that `MCServices` and `MCUserGrant` combine, except for `ServerCertProofs`).

| module | models | state and actions |
|---|---|---|
| `OneTimeTokens` | what the token registry promises (abstract) | grants made, redemptions; `Grant`, `Redeem` atomic |
| `TokenRegistry` | `token/registry.go`, `token/scoped/token.go`, `verifier/token.go` | `byToken` is the map; a handler's `pc` and `held` are a goroutine and its copy of a `ScopedToken`; `LookupToken`, `ClaimCheck`, `ClaimOnce`, `expireOldEntries`, `GenerateToken`, `addToken` are the critical sections |
| `WorldConfig` | `worldconfig/keyserver.go`, `spiresetup.go`, `apis.go` | accounts and privileges as functions of the configured nodes and administrators |
| `KeyServer` | `keyapi`, `operation`, `account`, `authorities`, keygateway, keyinitadmit | uses `OneTimeTokens` through `INSTANCE` for its tokens; `TokenRequest`, `CertRequest`, `GatewayRequest` authenticate, `Operation` performs one operation of a request |
| `ServerCert` | `GetValidServerCert` | `Lock`, `Check`, `Sign`, `Store`, `Serve` of concurrent handshakes |
| `KeyClient` | `keyclient/*`, `worldconfig/keyclient.go` | `pos` is the place in the list of `ConvergeState`, `stage` the system call within an action; files are absent, torn or whole, and a torn `local.conf` may hold a part of the node's name. `StartTimeout` is systemd's hour for a process that does not get ready. The list is a constant: `AllActions` of `MCKeyClient` is the one in the source, of which a run takes some |
| `UserGrant` | `user-grant/grant.go` | one action per call that can fail: `CreateNamespace`, `GrantAccess`, `Render` |
| `AppPods`, `FlannelMonitor` | `flannel-monitor/common`, `monitor` | `AppPods` is the pure matching of pods to nodes; the cycle's steps set gauges one by one while `Change` changes the cluster; a scrape is `BeginScrape` and then `ReadTalkCheck` and `ReadMonCheck` in either order |
| `Deployment` | `spire/src/seq.py`, `setup.py`, `infra.py`, `command.py`, `ssh.py`, the parts of `verify.py`, `access.py` and `deploy.py` that they use | a command is a list of operations; `pc` walks through it while keyclients, systemd, the operator and faults act. The loop over the nodes has four operations for each; for the supervisor the first of them is to skip what its condition excludes. `Edit` changes `setup.yaml` to any other version, also back to an earlier one; `Rendered` says which versions have the same `cluster.conf` (`get_cluster_conf` shows a part of `setup.yaml`), and `check_keystatics` (`Holds`) compares contents |
| `PullMonitor` | `pull-monitor/pull-monitor`, `pullcheck` | `pc` is the next crictl call, file operation or gauge of a cycle; `sandboxes` is the runtime's state; `orphans` and `strays` record what a fault has left behind, such as the manifest that `createJSONTempfile` could not close and whose path its caller drops |
| `AuthMonitor` | `auth-monitor/auth-monitor.go` | one action per probe, which sets its gauge; `Change` changes services, nodes and `setup.yaml`, and lets a node or the keygateway hang (`Hangable`), which holds up the ssh or Kerberos probe until it answers or goes |
| `DeployQueue` | `setup-queue/deploy.go`, `launch_spec` of `spire/src/deploy.py` | `BeginUpload` and `EndUpload` of scp; `StartQueue`, `DeploySingle`, `RemoveFile` of a run of setup-queue; a file is the number of its launch, as its name begins with the time of it |
| `Collector` | `flannel-monitor/collector`, with `AppPods` | a cycle's steps; `GatherWhole` and `GatherTorn` are scrapes, of which the second reads `additional_metrics` during its assignment and gets a part of the old or new metrics, or nothing, or ends the process (`Crash`) |
| `DnsMonitor` | `dns-monitor` | `StartCycle`, `Lookup`, `EndCycle`; a scrape is `BeginScrape` and then `ReadGauge` and `ReadRecency` in any order |
| `EtcdMetrics` | `etcd-metrics-exporter` | `AskVersion`, `GetVersion`, `GetVersionFails`, `DeleteOld`, `SetNew`, `Gather`; etcd is up, refuses or is silent |
| `NodeServices` | `kubernetes/launch.go` and `wrapper`, `kube-state-metrics`, `autostart`, the launch scripts of etcd and its exporter, with a coarse keyclient | a file is the number of its whole lines and what follows them, so that a value is whole, cut, empty after its name, or missing; `calm` is the history of whether something has disturbed the files; `LaunchChecks` and `LaunchRuns` are the two reads of a launcher, `StartStanza` and `EnableStanza` the calls of `launch-autostart.sh` |
| `AccessCerts` | `access.py`, `keyreq.go` (kube-cert, etcd-cert), `keylocalcert.go` | `at` is what a caller does: `CheckAge`, `RequestCert`, `GetPubkey`, `DecryptAuthority`, `WriteKey`, `WriteCert`, `WriteCA`, `Invoke`; a number names a pair of a key and its certificate |
| `Keytab` | `keys.py` | `DecryptKeytab`, `ChangeKey`, `DeleteOldKeys`, `Encrypt`, `RemoveSource`, `RenameTarget`, `Interrupt`; a keytab is a set of numbered keys |
| `MCServices` | | `ServerCert`, `PullMonitor`, `AuthMonitor`, `DeployQueue`, `DnsMonitor`, `EtcdMetrics` and `NodeServices`, which share no state, one at a time |
| `MCUserGrant` | | `UserGrant`, `AccessCerts` and `Keytab`, one at a time |
| `MCFlannelMonitor` | | `FlannelMonitor` or `Collector` in a changing cluster |

`KeyServer` composes with the token registry by its abstract specification:
`TokenRegistry` is shown to implement `OneTimeTokens` (checked and proved), and
`KeyServer` only uses `OneTimeTokens!Grant` and `OneTimeTokens!Redeem`. `KeyClient`
sees the keyserver through its answers (granted, forbidden, expired certificate,
outage, lost answer). `Deployment` contains a coarse keyclient and keyserver: a
pass has one step for each file that the sequences depend on. `NodeServices`
contains an even coarser keyclient: the two files that the launchers read.

What is abstracted, everywhere: certificates are their owner and expiry, tokens and
names are model values, the clock is in days (`KeyClient`), renewal units
(`ServerCert`) or ticks, logging and encoding are left out. The operations of a
request to the keyserver are chosen when they are performed, which covers every
list that a client can send.

## 3. Runs

| run | instance | distinct states | what it shows |
|---|---|---|---|
| `token_registry` | 3 handlers, 1 token string, 2 subjects, 2 grants, 3 times | 182,398 | A token lets one request in (`SingleClaim`), is not lost before it expires (`LiveGrantsRegistered`), is not burnt by a refused request (`RefusedOnlyIfSpent`); racing claims do not all lose (`FoundTokenIsClaimed`); the registry implements `OneTimeTokens`, so claims are for the subject of a grant and in time (`ImplementsOneTimeTokens`). |
| `keyserver` | a supervisor, a master, a worker, 2 administrators, the host keytab, a stranger; 2 handlers; 1 token | 104,507 | Effects are for the authenticated node from its address, or for a Kerberos account on a request of the supervisor (`EffectsConfined`); a gateway user acts as themselves only (`GatewayConfined`); admission needs a token (`KeygrantNeedsToken`); administrator powers need the supervisor (`AdminPowerNeedsSupervisor`). |
| `keyserver_batches` | 2 nodes, 1 handler | violated | See findings. |
| `services` | 3 handshakes, margin 1 of 3; 3 sandbox UIDs, 2 outages; 2 nodes, 2 changes; 2 specifications, 3 launches; 2 hostnames, 3 times; 2 versions of etcd, 3 changes; a master with 3 of its services, 2 mishaps; 2 faults elsewhere | 251,910 | Of the handshakes that find the certificate stale one signs another (`NoWastedSigning`), and the cached one is only replaced by a later one (`CacheNeverGoesBack`); the pull monitor leaves nothing behind but what a fault has left, and not more than one sandbox and two manifests for each (`NothingLeftBehind`), and its gauges follow the registry (`PullGaugesFollow`); the auth monitor's gauges end up true (`AuthGaugesSettle`); the queue does not roll back (`NoRollback`) and empties itself (`QueueDrains`); a scrape of the DNS monitor reads nothing older than the recency exposed before it (`ScrapedMetricsAreRecent`); the version in etcd's metrics follows etcd (`VersionFollows`); the services of a node are launched with whole values as long as nothing disturbed the two files (`WholeValuesUnlessDisturbed`), and come up (`ServicesComeUp`); the types of all seven (`MCTypeOK`). |
| `keyclient` | the keygranting certificate and another, a download for this node and one that it may not have; outages of a day; 6 days without a fault, 4 with one by day 2, 2 with a second one by day 1; 1 token | 1,500,652 | An admission is not lost without a fault (`AdmissionNotLost`); torn downloads are replaced (`TornFilesReplaced`); the keygranting certificate never expires, and no other does unless a fault cost the node that one (`RenewedInTime`); once the keyserver stays up the node ends up ready, with its certificates, files and name, unless it has no keygranting certificate and not what it takes to get one (`Settles`). |
| `keyclient_forbidden` | a certificate that is not intended for the node | violated | See findings. |
| `user_grant` | 2 connections, 6 certificates, 3 command lines, 2 faults; 2 commands of the kubectl wrapper, 2 failures or interruptions; 4 keys of a keytab, 3 accidents | 297,267 | The website hands out only what works (`KubeconfigsWork`), to its owner (`OnlyTheOwner`), and a retry gets through (`WebsiteRetriesSucceed`); kubectl works after an undisturbed replacement of its certificate (`UndisturbedCallsWork`) and works again after a disturbed one (`AccessRecovers`); the newest key that was written to the project is never lost (`KeytabKept`). |
| `etcdctl_bypass` | the same wrapper for etcdctl | violated | See findings. |
| `flannel_monitor` | 2 nodes, 2 pods, 2 addresses; 2 changes and 1 fault, or 1 change, 2 faults and scrapes | 759,342 | A scrape, which reads the gauges one by one, shows a host as reachable next to a failed `monitor_check` only if `monitor_check` changed while it was reading (`GoodNewsIsValid`); the hosts last pinged are as recent as the monitor says (`ListedAreRecent`), an outage is noticed (`MonitorNotices`); what the collector hands on follows the monitors (`CollectionFollows`). |
| `flannel_recency` | the same without faults and scrapes | violated | See findings. |
| `deployment` | the supervisor and a worker, Kerberos, 3 versions of `setup.yaml` of which two have the same `cluster.conf`; 2 edits, or a fault and an edit | 818,351 | The keyserver's `cluster.conf` is the one of its `setup.yaml` once that was verified, unless `setup.yaml` was edited twice meanwhile (`ServedConfigConsistent`); the operator is not locked out (`OperatorKeepsAccess`); a redeployment reaches the nodes (`RedeployReachesNodes`); the supervisor sequence, and later a redeployment of a changed configuration, succeed when they are repeated after a failure (`StartingOverSucceeds`). |
| `redeploy_supervisor` | 2 versions, 1 edit, no fault | violated | See findings. |

Run one with `tlc -workers 2 -config MCKeyServer.cfg MCKeyServer`.

### Why the bounds are enough

* Token registry: the interesting races are between two claims of one token, and
  between a claim and a grant that collides with the token's string or purges it.
  Three handlers, one string and two grants contain all pairs and one onlooker; two
  ticks let tokens expire before, between and after the steps of a claim. The
  proofs do not depend on any of these bounds.
* Keyserver: two requests in progress meet every pair of operations; one node of
  each kind and each sort of Kerberos principal meets every entry of the privilege
  table. The proofs cover any number of nodes, administrators and handlers.
* Keyclient: a fault may hit any step, and the run continues for long enough to
  renew and refresh afterwards. Actions of one kind differ only in their constants,
  so one or two of each kind represent the list of `ConvergeState`. The renewal
  margins are scaled (40 days and 2 weeks become 5 and 3); there is at most one day
  (`MaxOutage`) without an undisturbed pass, one in which the keyserver was up and no
  fault occurred. Six days without a fault contain the third renewal of the
  keygranting certificate. A fault comes early enough that a renewal and a refresh follow
  (`LastFault`); for `Settles` a second one, on the first two days, tears `local.conf`
  and fails the notification, or loses an answer and crashes after it.
* User-grant: two connections, two faults, and certificates of every kind that
  `Authenticate` tells apart.
* Access and keytabs: two commands overlap in every pair of steps; two slips are a
  failure and an interruption in either order. The certificates live for 4 hours and
  are replaced after 2; a call takes up to one of them. Three accidents interrupt
  a rotation, the next one, and the cleaning after it.
* Flannel monitor: two changes are enough for a node to lose its reflector and
  another to take over its address within a cycle; the proofs cover any number. For a
  scrape the changes matter less than two failed cycles, or one and a restart, around it. The
  same changes replace a monitor under the collector.
* Services: three UIDs are two orphans and the current sandbox, as many as two faults
  can leave behind. Two nodes are one that is reached and one that is not, or one that
  stays in `setup.yaml` and one that leaves. Three launches of two specifications
  contain a repeated one with another in between; two errors hit any two calls. The
  clock of the DNS monitor runs over two cycles and a half, which is more than a scrape
  can span. Three changes of etcd are an upgrade with an outage before and after. A
  torn file has none of its lines or all but one, and half a line after them: the two
  ends meet every outcome (`missing`, `empty`, `cut`, `whole`) for some value of each
  service.
  The three services are one that bash launches, one with a kubeconfig and one without.
  The invariants are proved for any number of all of these.
* Deployment: one fault at any operation of any command, and edits at any time. Two
  edits contain one that is undone, and one that changes what `cluster.conf` does not
  show; with them the race that `check_keystatics` does not notice is reached, and
  `ServedConfigConsistent` is false without its premise. The second edit is made during
  the same supervisor sequence (`EditsTogether`: an earlier edit only means to start with
  another version), and two edits and a fault do not come together (`FaultsAlone`); the
  proofs of the invariants have no such bounds. A second worker would repeat
  the same operations. `Kerberos = FALSE` leaves out operations only.

### Fairness

Fairness is assumed of what the code or systemd keeps going, never of faults. Where a
property is about what happens if somebody uses the program again (`AccessCerts`,
`Deployment`), scrapes it again (`Collector`, `EtcdMetrics`), or waits (`AccessCerts`,
`NodeServices`), it is assumed that they do so, as said below.

* `TokenRegistry`: a goroutine inside a call is scheduled again.
* `KeyClient`: the single loop keeps taking steps (its waits are sleeps, and calls
  that end in an answer or an error; `keyclient.service` has `Restart=always`). systemd's hour
  (`TimeoutStartSec`) ends for a process that again and again is not ready
  (strong fairness of `StartTimeout`: it is only at rest between two passes).
  `Settles` assumes that the keyserver stays up from some time on, as its premise.
* `UserGrant`: a request that has begun is served to its end.
* `AccessCerts`: a command that has begun goes on, hours pass, and the operator uses the
  wrapper again and again. `AccessRecovers` has as its premise that the keyserver can be
  reached for good, or that the project's authorities can be decrypted for good.
* `DeployQueue`: the timer starts setup-queue again, and a run goes on. Errors are
  bounded, so from some time on calls succeed.
* `Collector`: its loop never ends, and Prometheus keeps scraping it between two
  assignments.
* `EtcdMetrics`: its loop never ends unless etcd is silent, and Prometheus keeps
  scraping. `VersionFollows` assumes that etcd stays up and the certificate valid.
* `NodeServices`: systemd starts and restarts services, keyclient goes on, and days pass.
  `ServicesComeUp` leaves out an autostart that was lost for this boot (`Stranded`).
* `FlannelMonitor`: the loop goroutine never ends. Pings have a timeout; the lists of
  nodes and pods have none of their own, and end when the API server answers or the
  connection to it is found to be dead.
* `PullMonitor`: the loop goroutine never ends, and `pullcheck`, which prints its
  argument, ends by itself. `runContainer` waits for it without a time limit.
* `AuthMonitor`: the loop goroutine waits for ever only for a node that accepts
  connections and then hangs (the timeout of `ssh.Dial` is for the connection), or for
  a KDC or keygateway that does so (`kinit` and `knc` are run without a deadline);
  `AuthGaugesSettle` has as its premise that in the end nothing hangs any more.
* `Deployment`: operations end, the loops of the keyclients go on, systemd restarts
  the keyserver (`Restart=always`), and the operator starts a command again until it
  has succeeded. Faults are bounded, so from some time on nothing fails.

## 4. Findings

* `keyserver_batches`: the design document says that a set of operations is
  performed only if all of them are allowed. The code performs them one by one; when
  a later one is forbidden, the earlier ones have been performed.
* `keyclient_forbidden`: a certificate API that answers 403 is meant to be left
  alone for a while. `keyreq.go` tests the error without unwrapping it, so the
  request is made again in every pass. (Bootstrap and downloads unwrap it.)
* `etcdctl_bypass`: after the local bypass, the etcdctl wrapper verifies the server with
  the authority of etcd's clients, and cannot reach it until keyreq has replaced the
  files, two hours later or more.
* `flannel_recency`: `monitor_recency` is described as the time of the oldest metric
  that is reported. The gauge of a node that left the cluster keeps its value, which
  becomes older than that.
* `redeploy_supervisor`: a redeployment leaves the old `cluster.conf` on the
  supervisor until the next daily refresh. A comment says that keyserver and
  keyclient share that file there; they use different ones.

What the models show about the limits of the code, without contradicting it:

* a torn keygranting key, a torn keytab on the supervisor, and a token that has run out or
  whose answer was lost need an operator (`NeedsOperator` in `KeyClient` and `Deployment`);
  another torn key means that the node goes without that certificate;
* a torn download is used until it is a day old (`TornFilesReplaced`); with a torn
  `local.conf` a node may give itself the beginning of its name until then, and a service
  that is launched meanwhile may run with a value that is cut or empty
  (`WholeValuesUnlessDisturbed` says in which cases only);
* a node whose autostart fails starts its services only after the next reboot (`Stranded`);
* two edits of `setup.yaml` during a supervisor sequence, of which the second undoes what
  the first did to `cluster.conf`, leave the keyserver with a `setup.yaml` that is not the
  one of its `cluster.conf`, and `check_keystatics` does not notice;
* a manifest of the pull monitor whose `Close` fails stays on the disk, as the path is
  dropped with the error, and so does a sandbox that cannot be stopped or removed;
* a scrape of the flannel monitor that overlaps a failing cycle may show a host as reachable
  next to a failed `monitor_check`;
* as long as a node, the KDC or the keygateway hangs, the auth monitor reports what it
  last knew;
* a mismatch of the wrapper's files is not noticed until the certificate is two hours old;
* an exporter whose certificate has expired has to be restarted by somebody;
* a keytab between removal and renaming is only in the `.tmp` file, and gpg refuses to
  overwrite that one until somebody moves it; the KDC's new key is lost then.

## 5. Proofs

Eight modules have machine-checked theorems, for all values of the constants that
satisfy the named assumptions of their modules (natural numbers for durations and
bounds; exactly one supervisor and no administrator who is listed twice, which
`LoadSpireSetup` validates; distinct principals of all accounts, which nothing validates
and `DistinctPrincipals` assumes; a special value that is not a member of a set; and those named below). TLC
evaluates every assumption on the instances of the runs, and has checked the
inductive invariants on small instances before they were proved.

* `TokenRegistryProofs`. The inductive invariant says, beyond the types: strings in
  `byToken` are distinct; every `Once` in use is one that was allocated, and belongs
  to one token; a token that a handler holds, and is not in the middle of adding,
  was issued; a `Once` is done exactly if its claim is recorded; what was checked
  was checked before the expiry; what was issued since the last restart and has not
  expired is still registered. Single claims, justified refusals, live grants
  and the refinement of `OneTimeTokens` follow: `addToken` is `Grant`, the winning
  `ClaimOnce` is `Redeem`, `Tick` is `Pass`, and all other steps stutter.
* `KeyServerProofs`. `Inv` adds to the types what a request in progress may be
  (`RequestsOK`: the account is the authenticated node, from its address, or a
  Kerberos account on a request of the supervisor, and a gateway request is either
  still before its impersonation or runs as its user), that keygranting certificates
  stem from tokens, and the same about the last effect. `EffectsConfined` alone is
  not inductive: an effect is confined because of what the request is.
* `ServerCertProofs`. `Inv` says that only the holder of the lock is between check and
  store, that a cached or held certificate is the last one signed, that the handshake
  about to sign found that one stale, and that no certificate is valid for longer than one
  signed now: a store therefore never goes back (`CacheOnlyAdvances`), which is an action
  property and needs the lock to be held from the check to the store.
* `KeyClientProofs`, for every list of actions that fits together (`FitsTogether`, which
  TLC evaluates on the whole list of the source) and renewal margins that are longer
  than the outages (`MaxOutage < InAdvance`); without that the properties are false.
  The clock makes the argument: `RenewedInTime` says that today is before the expiry,
  which no step but the passing of a day could break, and by then it is too late to
  argue. So `GrantOK` and `CertsOK` say that a certificate was good for its margin when
  the last undisturbed pass began and, if this pass is undisturbed so far and past the
  certificate's action, also when this one began; the end of an undisturbed pass turns
  the second into the first. `FilesOK` is the same for the age of torn downloads.
  `StageOK`, `KeysOK`, `RetriesOK` and `MembersOK` exclude what would keep an
  undisturbed pass from renewing: no request that the node may make is put off, its key
  is whole, and only a fault takes the keygranting certificate away, or makes its file
  differ from the one in memory (`MembersOK`). A node without one
  is let off for as long as it has none (`Unadmitted`). `RefusalsOK` yields the theorem
  that the comment on `RetryAt` holds for downloads, the part of it that
  `keyclient_forbidden` does not refute.
* `DeploymentProofs`, for any list of nodes, with and without Kerberos, any number
  of edits and faults, and any `Rendered`. The lists of operations are worked out first (`SupervisorList`,
  `RedeployList`), so that the invariant can say what holds after which operation.
  `FilesOK` follows the two files of the keyserver from upload to upload: `cluster.conf`
  is the rendering of what the command was started with; with one edit at most,
  `setup.yaml` is that version or today's, and `check_keystatics`, which finds that
  today's renders alike, closes the gap. With two edits neither follows, and the theorem
  does not say so. Without faults the keyserver, once it is up, stays
  up (`KeyserverUp`: whenever it is restarted its files are there), so that a keyclient
  has the user CA before it has any certificate (`UserCAFirst`); the sequence checks the
  certificates before it shifts the old keys aside, which is why the operator keeps
  access (`AccessOK`). `NodesOK` says how far the redeployment of the current node is,
  that its restarted keyclient is not ready before it has fetched what was deleted
  (`Prepared`), and that all nodes before it are done.
* `UserGrantProofs`. For the website, `Inv` adds that a request that has been let in has
  an admitted user, that one that has come to `GrantAccess` has its namespace and one at
  `Render` its role binding. For the keytab, `KeytabInv` says that the newest key is in
  the keytab or beside it, that no file has a newer one, what the temporary copy has at
  each step, and that the file about to replace the keytab has the newest key; without
  accidents that is the KDC's. For the kubectl wrapper, `AccessInv` says what a caller
  that has not been overlapped has written so far, and that the last replacement that
  ran alone left files that belong together and are recent enough. The numbers that
  name pairs are as many as the callers and the files can hold (`AccessAssumption`), so
  a new pair can always be told from those in use. For etcdctl the property is false
  (`etcdctl_bypass`), and the theorem says so by its assumption `Variant = "kube"`.
* `FlannelMonitorProofs`. `Inv` adds where in a cycle `monitor_check` can be what
  (a failed cycle forgets the hosts before it says so), that hosts already
  pinged in this cycle were pinged after its time stamp, and that at any one instant no
  host is shown as reachable while `monitor_check` is 0. `ScrapeOK` carries that from one
  read to the other: as long as `monitor_check` has not changed, what a scrape has seen
  still says what it is.
* `ServicesProofs`. For the pull monitor, `PullInv` counts the manifests that the running
  cycle has at each of its steps, and says that every sandbox is the current one or an
  orphan, and from which step to which there is a current one; `NothingLeftBehind` speaks
  of the moments between two cycles only. `LeaksOK` counts what a fault can leave: one
  sandbox, and two manifests if the process is killed. For the queue, `NoRollback` needs that nothing
  newer than a file of the directory has been applied for its specification
  (`NothingNewer`), which holds as the listing contains every file that is older than one
  of its own (`OldestFirst`): new files sort behind it, and a run ends at its first
  error. For the DNS monitor, `DnsInv` says that the hosts visited in this cycle were
  looked up after its time stamp, and all of them after the exposed recency. For the
  services of a node, `NodeInv` says that, as long as nothing has disturbed the files,
  nothing is written any more once both are whole (`WrittenOnce`), and only then is
  keyclient ready, autostart under way and a unit enabled or started (`FollowsKeyclient`):
  launchers are kept from half a file by nothing but this order, over reboots included. The types of all components
  follow, also those of `AuthMonitor` and `EtcdMetrics`.

Only model-checked: all liveness properties (`FoundTokenIsClaimed`, `Settles`,
`WebsiteRetriesSucceed`, `AccessRecovers`, `MonitorNotices`, `CollectionFollows`,
`StartingOverSucceeds`, `PullGaugesFollow`, `AuthGaugesSettle`, `QueueDrains`,
`VersionFollows`, `ServicesComeUp`), which need fairness and are out of the prover's
reach. The types of `Collector` are neither checked nor proved by themselves; they
document its variables.

## 6. What is not modelled

* Cryptography, encodings, file formats, the contents of certificates beyond owner,
  kind and expiry; log output; timing histograms.
* Keyserver: start-up from the files on disk, except for what `Deployment` needs.
* User-grant: nobody else deletes namespaces or role bindings.
* Flannel monitor: the reflector's start-up. Collector: clashes between the metric
  families of several monitors, which make Prometheus's handler refuse a scrape.
* Auth monitor: how Prometheus and `verify.py` use the gauges: `check_online` compares
  the sum of the ssh gauges with the number of nodes, a query without an effect. The
  ssh gauge of a node that has left `setup.yaml` keeps its value, and
  `AuthGaugesSettle` speaks of the listed nodes only.
* Deployment queue: one operator launches at a time, with a clock that does not go
  back; the contents of specifications, and what half of one does.
* Access: `update-known-hosts`, which rewrites one local file; keyreq's `ssh-cert`, which
  is as `kube-cert` with other files, and `check` and `bootstrap-token`, single requests
  whose server side is in `KeyServer`. Keys: the generation of authorities, which writes
  one file once, and the copying of HTTPS keys.
* Node services: the constant parts of command lines; supervisors and workers, whose
  lists of services are shorter.
* Deployment: the daily refresh of downloads, torn keys and expiring ssh
  certificates; a download and its write are one step; the supervisor sequence is not
  run again after it succeeded; `seq cluster`, `update-keygateway`, `dns-bootstrap`,
  `install-packages`.
* The components marked `not_modelled` in `PROJECT.json`, with the reason for each.

## 7. Plan

Written so far, in this order: token registry and its abstract specification,
keyserver, server certificate, keyclient, user-grant, flannel monitor, deployment,
pull monitor, auth monitor, deployment queue, collector, DNS monitor, etcd's metrics,
the services of a node, the operator's certificates, keytabs.

What is left of the program's own logic does not lend itself to a model of this kind:
it renders configuration, builds images, queries without an effect, or writes a file
once (section 6). All invariants of the runs are proved. Next are, in this order:

1. Action properties that follow from the inductive invariants, such as what a redeployment
   or a reboot may never undo.
2. The steps towards the liveness properties that do not need fairness: what stays true
   once it is reached (a redeployed node, a renewed certificate, a replaced file).
3. For the pure parts (`AppPods`), lemmas about the matching.
