---------------------------- MODULE WorldConfig ----------------------------
(***************************************************************************)
(* The accounts and privileges the keyserver generates from setup.yaml     *)
(* (keysystem/worldconfig/keyserver.go, spiresetup.go, apis.go).           *)
(*                                                                         *)
(* A node is its principal (its DNS name).  What a signing privilege puts  *)
(* into a certificate is left out, except for what the models tell apart:  *)
(* whether it is a keygranting certificate and whose.                      *)
(***************************************************************************)
EXTENDS Integers

CONSTANTS
    Nodes,        \* principals of conf.Nodes
    Kind,         \* Kind[n]: "supervisor", "master" or "worker"
    NodeIP,       \* NodeIP[n]: the address in the configuration
    RootAdmins,   \* conf.RootAdmins
    Metrics,      \* metrics@NONEXISTENT.REALM.INVALID
    HostKeytab    \* host/<supervisor>@<realm>

\* What LoadSpireSetup validates.
LoadSpireSetup ==
    /\ Kind \in [Nodes -> {"supervisor", "master", "worker"}]
    /\ \E s \in Nodes : \A n \in Nodes : Kind[n] = "supervisor" <=> n = s
ASSUME SetupAssumption == LoadSpireSetup

\* What nothing validates: that no administrator is called like a node.
ASSUME DistinctPrincipals ==
    Nodes \cap (RootAdmins \cup {Metrics, HostKeytab}) = {}

IsSupervisor(n) == Kind[n] = "supervisor"
IsMaster(n) == Kind[n] = "master"
Supervisor == CHOOSE n \in Nodes : IsSupervisor(n)

(* The privileges, by what they do. *)

SigningAPIs == {"renew-keygrant", "grant-ssh-host", "grant-kubernetes-worker",
    "grant-kubernetes-master", "grant-kubernetes-supervisor",
    "grant-kubernetes-ctrl-mgr", "grant-kubernetes-proxy",
    "grant-kubernetes-scheduler", "grant-registry-host", "grant-etcd-server",
    "grant-etcd-client", "access-ssh", "access-etcd", "access-kubernetes"}
SSHAPIs == {"grant-ssh-host", "access-ssh"}
BootstrapAPIs == {"bootstrap", "bootstrap-keyinit"}
EmptyRequestAPIs == {"get-local-config", "fetch-serviceaccount-key"}
APIs == SigningAPIs \cup BootstrapAPIs \cup EmptyRequestAPIs \cup {"auth-to-kerberos"}

GrantsForRootAdminAccount ==
    {"access-ssh", "access-etcd", "access-kubernetes", "bootstrap"}

\* Mutant: the grants for the supervisor are given to every node.
GrantsForAnyNodeAccount(n) ==
    {"renew-keygrant", "get-local-config", "grant-ssh-host",
     "bootstrap-keyinit", "auth-to-kerberos"}

GrantsForNodeAccount(n) ==
    {"renew-keygrant", "get-local-config", "grant-ssh-host"}
    \cup (IF IsSupervisor(n)
            THEN {"bootstrap-keyinit", "auth-to-kerberos", "grant-registry-host",
                  "grant-kubernetes-supervisor"}
            ELSE {"grant-kubernetes-worker", "grant-kubernetes-proxy"})
    \cup (IF IsMaster(n)
            THEN {"grant-kubernetes-master", "grant-etcd-server",
                  "grant-kubernetes-ctrl-mgr", "grant-kubernetes-scheduler",
                  "grant-etcd-client", "fetch-serviceaccount-key"}
            ELSE {})

(* The accounts: groups.Nodes is Nodes; no kerberos account has an address or *)
(* may authenticate directly.                                                 *)
Admins == {Metrics} \cup RootAdmins
KerberosAccounts == Admins \cup (IF RootAdmins # {} THEN {HostKeytab} ELSE {})
Accounts == Nodes \cup KerberosAccounts
DisableDirectAuth(p) == p \notin Nodes

Privileges(p) ==
    IF p \in Nodes THEN GrantsForNodeAccount(p)
    ELSE IF p \in Admins THEN GrantsForRootAdminAccount
    ELSE {}
=============================================================================
