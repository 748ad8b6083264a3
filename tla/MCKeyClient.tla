---------------------------- MODULE MCKeyClient ----------------------------
(* A worker: it may have the certificates of a worker, and no certificate of  *)
(* a supervisor and no service account key.                                   *)
EXTENDS KeyClient, TLC

Worker == "grant-kubernetes-worker"
Sup == "grant-kubernetes-supervisor"
SSH == "grant-ssh-host"
SAKey == "fetch-serviceaccount-key"
CA == "kubernetes"

\* RequestOrRenewTLSKey and RequestOrRenewSSHKey differ in how they read and
\* build a certificate only.
RequestOrRenew(c) == <<"request", c>>

\* keygen.GenerateKey and keyreq.RequestOrRenewTLSKey
TLSKey(c) == <<<<"keygen", c>>, RequestOrRenew(c)>>

\* DownloadAuthority, DownloadStatic and DownloadFromAPI
DownloadAll(ds) == [i \in DOMAIN ds |-> <<"download", ds[i]>>]

\* Every action of ConvergeState, of which a run has some.
AllActions ==
    <<<<"keygen", G>>, <<"bootstrap", G>>>>
    \o DownloadAll(<<CA, "clusterca", "ssh-user", "cluster.conf", LocalConf>>)
    \o <<<<"hostname", LocalConf>>>>
    \o DownloadAll(<<"serviceaccount", "etcd-client", "etcd-server", SAKey>>)
    \o TLSKey(G) \o <<RequestOrRenew(SSH)>> \o TLSKey(Worker) \o TLSKey(Sup)
    \o TLSKey("grant-registry-host") \o TLSKey("grant-kubernetes-master")
    \o TLSKey("grant-kubernetes-ctrl-mgr") \o TLSKey("grant-kubernetes-proxy")
    \o TLSKey("grant-kubernetes-scheduler")
    \o TLSKey("grant-etcd-server") \o TLSKey("grant-etcd-client")

\* What the proofs assume of a list of actions is true of this one.
ASSUME AllActionsAssumption == FitsTogether(AllActions)

ActionsOn(names) == SelectSeq(AllActions, LAMBDA action : action[2] \in names)
MCActions == ActionsOn({G, LocalConf, SAKey, SSH})
MCActionsForbidden == ActionsOn({G, CA, LocalConf, SAKey, Sup})
MCLife == (G :> 5) @@ (Worker :> 4) @@ (SSH :> 4) @@ (Sup :> 4)
MCInAdvance == (G :> 3) @@ (Worker :> 2) @@ (SSH :> 2) @@ (Sup :> 2)
MCMaxTime == [f \in 0..2 |-> 6 - 2 * f]
MCOneDay == [f \in {0} |-> 1]
MCRefresh == (CA :> 1) @@ (LocalConf :> 1) @@ (SAKey :> 1)

\* Bound: the last day of the first and of the second fault, after which there is time
\* to see what comes of them.
LastFault == <<2, 1>>
MCNext == Next /\ (faults' # faults => now <= LastFault[faults'])
MCSpec == Init /\ [][MCNext]_vars /\ Fairness
=============================================================================
