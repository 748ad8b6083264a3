----------------------------- MODULE Deployment -----------------------------
(***************************************************************************)
(* Bring-up and reconfiguration of a cluster with spire (spire/src/seq.py, *)
(* setup.py, infra.py), acting over ssh on the supervisor, whose keyserver *)
(* and keyclient run all the while, and on the other nodes' keyclients.    *)
(*                                                                         *)
(* A command is a list of operations, put together when it starts and run  *)
(* one by one; the first failure ends it, and the operator starts it over. *)
(* What an operation was given as bytes is as old as the list; a file that *)
(* is uploaded by its path is read when the operation runs.                *)
(*                                                                         *)
(* The passes of the keyclients are a coarse version of module KeyClient;  *)
(* the refresh of downloads that are a day old is left out.                *)
(* A configuration is known by the contents of the operator's setup.yaml   *)
(* that it was made from, its version; the operator may go back to an      *)
(* earlier one.  cluster.conf shows only a part of it (get_cluster_conf).  *)
(***************************************************************************)
EXTENDS Integers, Sequences

CONSTANTS
    Sup,          \* the supervisor
    NodeList,     \* config.nodes, in the order of setup.yaml
    Kerberos,     \* is_kerberos_enabled
    MaxVersion,   \* bound: versions of setup.yaml
    Rendered,     \* Rendered[v]: a version that has the cluster.conf of version v
    MaxEdits,     \* bound: edits of setup.yaml
    MaxFaults     \* bound: lost connections, crashes, lost answers

VARIABLES
    project, hascert,         \* at the operator: setup.yaml, an ssh certificate
    cmd, pc, captured,        \* the command, its next operation, the version it was made from
    edited,                   \* history: edits during the command, up to its check of the files
    file,                     \* what spire uploads to the supervisor
    enabled, running, sshd,   \* services of the supervisor
    authkeys,                 \* the operator's key is still in authorized_keys
    ks,                       \* the version the keyserver has loaded, Absent if it is down
    token, granted, userca, conf, local, certs, \* files of the nodes
    client,                   \* the keyclient processes
    completed, faults, edits

spire == <<cmd, pc, captured, edited>>
services == <<enabled, running, sshd, ks>>
node == <<token, granted, userca, conf, local, certs, client>>
vars == <<project, hascert, spire, file, services, authkeys, node, completed, faults, edits>>

Absent == 0
Torn == -1
Versions == 1..MaxVersion
Nodes == {NodeList[i] : i \in DOMAIN NodeList}
Files == {"authorities", "cluster.conf", "setup.yaml", "keytab", "sshd_config"}
Services == {"keyserver", "auth-monitor", "prometheus", "docker-registry", "nginx"}
            \cup (IF Kerberos THEN {"keygateway"} ELSE {})

ASSUME ConstantsAssumption ==
    /\ NodeList \in Seq(Nodes) /\ Sup \in Nodes /\ Kerberos \in BOOLEAN
    /\ MaxVersion \in Nat \ {0} /\ MaxFaults \in Nat /\ MaxEdits \in Nat
    /\ Rendered \in [Versions -> Versions]
-----------------------------------------------------------------------------
(* The commands, as lists of <<operation, node, argument>>. *)

start(s) == <<<<"enable", Sup, s>>, <<"restart", Sup, s>>>>

setup_keyserver ==
    <<<<"upload", Sup, "authorities">>, <<"upload", Sup, "cluster.conf">>,
      <<"upload", Sup, "setup.yaml">>>> \o start("keyserver")

\* Mutant: the keyserver is restarted before it has its new setup.yaml.
redeploy_keyserver_restart_first ==
    <<<<"remove", Sup, "cluster.conf">>, <<"remove", Sup, "setup.yaml">>,
      <<"upload", Sup, "cluster.conf">>, <<"restart", Sup, "keyserver">>,
      <<"upload", Sup, "setup.yaml">>>>

redeploy_keyserver ==
    <<<<"remove", Sup, "cluster.conf">>, <<"remove", Sup, "setup.yaml">>,
      <<"upload", Sup, "cluster.conf">>, <<"upload", Sup, "setup.yaml">>,
      <<"restart", Sup, "keyserver">>>>

\* "systemctl restart" of a service that notifies systemd returns once it has.
kick(n) == <<<<"kick", n, "keyclient">>, <<"await", n, "keyclient">>>>

\* Mutant: the keyclient is restarted with the files it has.
redeploy_node_in_place(n) == <<<<"skip", n, "conf">>, <<"skip", n, "local">>>> \o kick(n)

\* The supervisor's cluster.conf is passed over.
redeploy_node(n) ==
    <<<<IF n = Sup THEN "skip" ELSE "forget", n, "conf">>, <<"forget", n, "local">>>> \o kick(n)

\* The loop over config.nodes adds four operations for each.
redeploy_keyclients ==
    [k \in 1..(4 * Len(NodeList)) |-> redeploy_node(NodeList[(k + 3) \div 4])[((k - 1) % 4) + 1]]

\* The shell empties the token file before keyinitadmit runs.
admit_keyserver ==
    <<<<"truncate", Sup, "token">>, <<"keyinitadmit", Sup, "token">>>> \o kick(Sup)
    \o <<<<"confirm", Sup, "granting.pem">>>> \o start("auth-monitor")

setup_keygateway ==
    IF Kerberos THEN <<<<"keytab", Sup, "keytab">>>> \o start("keygateway")
                     \o <<<<"verify", Sup, "keygateway">>>>
    ELSE <<>>

sequence_keysystem ==
    <<<<"verify", Sup, "ssh">>>> \o setup_keyserver \o <<<<"verify", Sup, "statics">>>>
    \o admit_keyserver \o setup_keygateway

\* Mutant: the old keys are shifted aside first.
sequence_ssh_shift_first ==
    <<<<"shift", Sup, "authorized_keys">>, <<"access", Sup, "ssh">>, <<"upload", Sup, "sshd_config">>,
      <<"restart", Sup, "ssh">>, <<"verify", Sup, "sshcert">>>>
sequence_ssh ==
    <<<<"access", Sup, "ssh">>, <<"upload", Sup, "sshd_config">>, <<"restart", Sup, "ssh">>,
      <<"shift", Sup, "authorized_keys">>, <<"verify", Sup, "sshcert">>>>

\* Uploads and runs without an effect on what is modelled are one operation each.
setup_prometheus == <<<<"run", Sup, "prometheus.yaml">>>> \o start("prometheus")
setup_registry == start("docker-registry") \o start("nginx") \o <<<<"run", Sup, "push-ocis">>>>
launch_specs == <<<<"run", Sup, "deployqueue">>>>

sequence_supervisor ==
    sequence_keysystem \o <<<<"verify", Sup, "certs">>>> \o setup_prometheus
    \o sequence_ssh \o setup_registry \o launch_specs

sequence_redeploy == redeploy_keyserver \o redeploy_keyclients

Operations(c) == IF c = "supervisor" THEN sequence_supervisor ELSE sequence_redeploy
-----------------------------------------------------------------------------
(* Running an operation *)

Fault == faults < MaxFaults /\ faults' = faults + 1
NoFault == UNCHANGED faults

Busy == cmd # "none" /\ pc \in DOMAIN Operations(cmd)
Op == Operations(cmd)[pc]
At(kind) == Busy /\ Op[1] = kind
What == Op[3]

\* Root logins: with the key from the installation, or with a certificate once
\* the node's keyclient has fetched the user CA.
Reach(n) ==
    /\ n = Sup => sshd
    /\ (n = Sup /\ authkeys) \/ (hascert /\ userca[n])
Remote(kind) == At(kind) /\ Reach(Op[2])

Advance == pc' = pc + 1 /\ UNCHANGED <<cmd, captured, edited>>
Abort == cmd' = "none" /\ pc' = 0 /\ captured' = Absent /\ edited' = 0

\* It worked, whether or not its success gets back to spire.
Ends == (Advance /\ NoFault) \/ (Abort /\ Fault)

\* It did nothing: the node refuses the login or the connection fails.
NotRun ==
    /\ Busy /\ Op[1] # "skip" /\ Abort
    /\ \/ Op[1] \notin {"access", "await", "verify"} /\ ~Reach(Op[2]) /\ NoFault
       \/ Fault
    /\ UNCHANGED <<project, edits, hascert, file, services, authkeys, node, completed>>

\* The configuration in memory, or the file in the project directory.
Content(f) == IF f = "cluster.conf" THEN Rendered[captured]
              ELSE IF f = "setup.yaml" THEN project ELSE 1

\* scp writes in place.
Put(f) == \/ file' = [file EXCEPT ![f] = Content(f)] /\ Ends
          \/ file' = [file EXCEPT ![f] = Torn] /\ Abort /\ Fault

Upload ==
    /\ Remote("upload") /\ Put(What)
    /\ UNCHANGED <<project, edits, hascert, services, authkeys, node, completed>>

Remove ==
    /\ Remote("remove")
    /\ file' = [file EXCEPT ![What] = Absent] /\ Ends
    /\ UNCHANGED <<project, edits, hascert, services, authkeys, node, completed>>

Forget ==
    /\ Remote("forget") /\ Ends
    /\ \/ What = "conf" /\ conf' = [conf EXCEPT ![Op[2]] = Absent] /\ UNCHANGED local
       \/ What = "local" /\ local' = [local EXCEPT ![Op[2]] = Absent] /\ UNCHANGED conf
    /\ UNCHANGED <<project, edits, hascert, file, services, authkeys, token, granted, userca, certs, client,
                   completed>>

Enable ==
    /\ Remote("enable")
    /\ enabled' = enabled \cup {What} /\ Ends
    /\ UNCHANGED <<project, edits, hascert, file, running, sshd, ks, authkeys, node, completed>>

RestartService ==
    /\ Remote("restart") /\ What \notin {"keyserver", "ssh"}
    /\ running' = running \cup {What} /\ Ends
    /\ UNCHANGED <<project, edits, hascert, file, enabled, sshd, ks, authkeys, node, completed>>

RestartSSH ==
    /\ Remote("restart") /\ What = "ssh"
    /\ sshd' = (file["sshd_config"] # Torn) /\ Ends
    /\ UNCHANGED <<project, edits, hascert, file, enabled, running, ks, authkeys, node, completed>>

\* GenerateConfig: the static file only has to exist.  A torn setup.yaml may
\* still be one, with fewer nodes.
Loadable == /\ file["authorities"] = 1 /\ file["cluster.conf"] # Absent
            /\ file["setup.yaml"] # Absent

\* The tokens die with the process that granted them.
Forgotten == [n \in Nodes |-> IF token[n] = "live" THEN "dead" ELSE token[n]]

RestartKeyserver ==
    /\ Remote("restart") /\ What = "keyserver"
    /\ running' = running \cup {"keyserver"} /\ token' = Forgotten
    /\ IF Loadable THEN ks' = file["setup.yaml"] /\ Ends
                   ELSE ks' = Absent /\ Abort /\ NoFault
    /\ UNCHANGED <<project, edits, hascert, file, enabled, sshd, authkeys, granted, userca, conf, local, certs,
                   client, completed>>

Truncate ==
    /\ Remote("truncate")
    /\ token' = [token EXCEPT ![Sup] = "blank"] /\ Ends
    /\ UNCHANGED <<project, edits, hascert, file, services, authkeys, granted, userca, conf, local, certs,
                   client, completed>>

Keyinitadmit ==
    /\ Remote("keyinitadmit")
    /\ \/ ks # Absent /\ token' = [token EXCEPT ![Sup] = "live"] /\ Ends
       \/ ks = Absent /\ UNCHANGED token /\ Abort /\ NoFault
    /\ UNCHANGED <<project, edits, hascert, file, services, authkeys, granted, userca, conf, local, certs,
                   client, completed>>

\* busy: something was performed or blocked in this pass.
Fresh == [at |-> "boot", busy |-> FALSE, ready |-> FALSE]

\* A restart between the answer to the bootstrap request and the end of the
\* write loses the certificate; it counts as a fault, so that it does not
\* happen every time.
Kick ==
    /\ Remote("kick")
    /\ client' = [client EXCEPT ![Op[2]] = Fresh]
    /\ IF client[Op[2]].at = "grant" THEN Advance /\ Fault ELSE Ends
    /\ UNCHANGED <<project, edits, hascert, file, services, authkeys, token, granted, userca, conf, local, certs,
                   completed>>

\* Without a certificate and a way to get one the keyclient is never ready.
NeverReady(n) == ~granted[n] /\ client[n].at # "grant" /\ (token[n] # "live" \/ ks = Absent)

\* TimeoutStartSec is an hour.
Await ==
    /\ At("await")
    /\ \/ client[Op[2]].ready /\ Ends /\ UNCHANGED client
       \/ /\ NeverReady(Op[2])
          /\ client' = [client EXCEPT ![Op[2]] = Fresh]
          /\ Abort /\ NoFault
    /\ UNCHANGED <<project, edits, hascert, file, services, authkeys, token, granted, userca, conf, local, certs,
                   completed>>

Confirm ==
    /\ Remote("confirm")
    /\ IF granted[Sup] THEN Ends ELSE Abort /\ NoFault
    /\ UNCHANGED <<project, edits, hascert, file, services, authkeys, node, completed>>

\* safe_upload_keytab: a keytab that differs from the local one is not touched.
SafeUploadKeytab ==
    /\ Remote("keytab")
    /\ \/ file["keytab"] = Absent /\ Put("keytab")
       \/ file["keytab"] = Content("keytab") /\ Ends /\ UNCHANGED file
       \/ file["keytab"] = Torn /\ Abort /\ NoFault /\ UNCHANGED file
    /\ UNCHANGED <<project, edits, hascert, services, authkeys, node, completed>>

\* access_ssh: through keyreq, or with the local copy of the authorities.
Access ==
    /\ At("access")
    /\ hascert' = TRUE /\ Ends
    /\ UNCHANGED <<project, edits, file, services, authkeys, node, completed>>

ShiftAuthorizedKeys ==
    /\ Remote("shift")
    /\ authkeys' = FALSE /\ Ends
    /\ UNCHANGED <<project, edits, hascert, file, services, node, completed>>

\* Mutant: the served file is compared with the uploaded bytes.
HoldsCaptured(what) ==
    CASE what = "ssh" -> Reach(Sup)
      [] what = "statics" -> ks # Absent /\ file["cluster.conf"] = Rendered[captured]
      [] what = "keygateway" -> "keygateway" \in running /\ ks # Absent
      [] what = "certs" -> certs[Sup]
      [] what = "sshcert" -> sshd /\ hascert /\ userca[Sup]

\* The checks of verify.py.  The configuration to compare with is made anew.
Holds(what) ==
    CASE what = "ssh" -> Reach(Sup)
      [] what = "statics" -> ks # Absent /\ file["cluster.conf"] = Rendered[project]
      [] what = "keygateway" -> "keygateway" \in running /\ ks # Absent
      [] what = "certs" -> certs[Sup]
      [] what = "sshcert" -> sshd /\ hascert /\ userca[Sup]

\* A check is repeated until it holds or its time is over.
Verify ==
    /\ At("verify")
    /\ \/ Holds(What) /\ Ends
       \/ ~Holds(What) /\ Abort /\ NoFault
    /\ UNCHANGED <<project, edits, hascert, file, services, authkeys, node, completed>>

Run ==
    /\ Remote("run") /\ Ends
    /\ UNCHANGED <<project, edits, hascert, file, services, authkeys, node, completed>>

Skip ==
    /\ At("skip") /\ Advance /\ NoFault
    /\ UNCHANGED <<project, edits, hascert, file, services, authkeys, node, completed>>

\* The supervisor sequence is repeated until it has succeeded; from then on
\* changes of setup.yaml are redeployed.
Start(c) ==
    /\ cmd = "none" /\ (c = "redeploy" <=> completed)
    /\ cmd' = c /\ pc' = 1 /\ captured' = project /\ edited' = 0
    /\ UNCHANGED <<project, edits, hascert, file, services, authkeys, node, completed, faults>>

Finish ==
    /\ cmd # "none" /\ pc > Len(Operations(cmd))
    /\ completed' = (completed \/ cmd = "supervisor")
    /\ Abort
    /\ UNCHANGED <<project, edits, hascert, file, services, authkeys, node, faults>>

Spire == \/ NotRun \/ Upload \/ Remove \/ Forget \/ Enable \/ RestartService \/ RestartSSH
         \/ RestartKeyserver \/ Truncate \/ Keyinitadmit \/ Kick \/ Await \/ Confirm
         \/ SafeUploadKeytab \/ Access \/ ShiftAuthorizedKeys \/ Verify \/ Run \/ Skip \/ Finish
-----------------------------------------------------------------------------
(* The keyclients *)

Goes(n, step) == client' = [client EXCEPT ![n].at = step]
NotQuiet(n, step) == client' = [client EXCEPT ![n].at = step, ![n].busy = TRUE]

\* A pass ends: after one in which nothing was performed or blocked the
\* keyclient is ready.
EndPass(n, busy) ==
    client' = [client EXCEPT ![n] = [Fresh EXCEPT !.ready = client[n].ready \/ ~(client[n].busy \/ busy)]]

\* Bootstrap: the keyserver takes the token, and its answer may be lost.  A
\* blank or dead token is only an error.
Bootstrap(n) ==
    /\ client[n].at = "boot"
    /\ \/ /\ ~granted[n] /\ token[n] = "live" /\ ks # Absent
          /\ token' = [token EXCEPT ![n] = "dead"]
          /\ \/ Goes(n, "grant") /\ NoFault
             \/ Goes(n, "userca") /\ Fault
       \/ /\ granted[n] \/ token[n] # "live" \/ ks = Absent
          /\ UNCHANGED token /\ Goes(n, "userca") /\ NoFault
    /\ UNCHANGED <<granted, userca, conf, local, certs>>

\* The token file is removed and granting.pem written.
ReplaceKeygrantingCert(n) ==
    /\ client[n].at = "grant"
    /\ token' = [token EXCEPT ![n] = "none"]
    /\ granted' = [granted EXCEPT ![n] = TRUE]
    /\ NotQuiet(n, "userca") /\ NoFault
    /\ UNCHANGED <<userca, conf, local, certs>>

FetchUserCA(n) ==
    /\ client[n].at = "userca"
    /\ \/ ~userca[n] /\ ks # Absent /\ userca' = [userca EXCEPT ![n] = TRUE] /\ NotQuiet(n, "conf") /\ NoFault
       \/ (userca[n] \/ ks = Absent) /\ Goes(n, "conf") /\ NoFault /\ UNCHANGED userca
       \/ ~userca[n] /\ Goes(n, "conf") /\ Fault /\ UNCHANGED userca
    /\ UNCHANGED <<token, granted, conf, local, certs>>

\* The keyserver reads the static file for each request.
FetchConf(n) ==
    LET needed == conf[n] = Absent
        served == ks # Absent /\ file["cluster.conf"] # Absent
    IN /\ client[n].at = "conf"
       /\ \/ /\ needed /\ served
             /\ conf' = [conf EXCEPT ![n] = file["cluster.conf"]]
             /\ NotQuiet(n, "local") /\ NoFault
          \/ ~(needed /\ served) /\ Goes(n, "local") /\ NoFault /\ UNCHANGED conf
          \/ needed /\ Goes(n, "local") /\ Fault /\ UNCHANGED conf
       /\ UNCHANGED <<token, granted, userca, local, certs>>

\* local.conf was made when the keyserver loaded its configuration.
FetchLocal(n) ==
    LET needed == local[n] = Absent
    IN /\ client[n].at = "local"
       /\ \/ /\ needed /\ granted[n] /\ ks # Absent
             /\ local' = [local EXCEPT ![n] = ks]
             /\ NotQuiet(n, "certs") /\ NoFault
          \/ needed /\ ~granted[n] /\ NotQuiet(n, "certs") /\ NoFault /\ UNCHANGED local
          \/ (~needed \/ (granted[n] /\ ks = Absent)) /\ Goes(n, "certs") /\ NoFault /\ UNCHANGED local
          \/ needed /\ granted[n] /\ Goes(n, "certs") /\ Fault /\ UNCHANGED local
       /\ UNCHANGED <<token, granted, userca, conf, certs>>

\* The certificates are the last of the list.
RequestCerts(n) ==
    /\ client[n].at = "certs"
    /\ \/ ~certs[n] /\ granted[n] /\ ks # Absent /\ certs' = [certs EXCEPT ![n] = TRUE] /\ EndPass(n, TRUE) /\ NoFault
       \/ ~certs[n] /\ ~granted[n] /\ EndPass(n, TRUE) /\ NoFault /\ UNCHANGED certs
       \/ (certs[n] \/ (granted[n] /\ ks = Absent)) /\ EndPass(n, FALSE) /\ NoFault /\ UNCHANGED certs
       \/ ~certs[n] /\ granted[n] /\ EndPass(n, FALSE) /\ Fault /\ UNCHANGED certs
    /\ UNCHANGED <<token, granted, userca, conf, local>>

\* A node other than the supervisor is installed with its token.
Installed(n) == n = Sup \/ granted[n] \/ token[n] # "none"

Keyclient(n) ==
    /\ Installed(n)
    /\ \/ Bootstrap(n) \/ ReplaceKeygrantingCert(n) \/ FetchUserCA(n) \/ FetchConf(n)
       \/ FetchLocal(n) \/ RequestCerts(n)
    /\ UNCHANGED <<project, edits, hascert, spire, file, services, authkeys, completed>>
-----------------------------------------------------------------------------
(* The operator and the machines *)

\* check_keystatics has passed.
StaticsChecked == cmd = "supervisor" /\ \E i \in 1..(pc-1) : Operations(cmd)[i] = <<"verify", Sup, "statics">>

\* setup.yaml gets other contents, earlier ones perhaps.
Edit ==
    /\ edits < MaxEdits /\ edits' = edits + 1
    /\ project' \in Versions \ {project}
    /\ edited' = IF cmd = "none" \/ StaticsChecked THEN edited ELSE edited + 1
    /\ UNCHANGED <<hascert, cmd, pc, captured, file, services, authkeys, node, completed, faults>>

\* infra admit, and the installation of the node with the token.
Admit(n) ==
    /\ completed /\ n # Sup /\ ~granted[n] /\ token[n] \in {"none", "dead"}
    /\ client[n].at # "grant" /\ ks # Absent
    /\ token' = [token EXCEPT ![n] = "live"]
    /\ UNCHANGED <<project, edits, hascert, spire, file, services, authkeys, granted, userca, conf, local, certs,
                   client, completed, faults>>

CrashKeyserver ==
    /\ ks # Absent /\ Fault
    /\ ks' = Absent /\ token' = Forgotten
    /\ UNCHANGED <<project, edits, hascert, spire, file, enabled, running, sshd, authkeys, granted, userca, conf,
                   local, certs, client, completed>>

\* systemd starts the keyserver again and again.
StartKeyserver ==
    /\ "keyserver" \in running /\ ks = Absent /\ Loadable
    /\ ks' = file["setup.yaml"]
    /\ UNCHANGED <<project, edits, hascert, spire, file, enabled, running, sshd, authkeys, node, completed, faults>>

\* The supervisor reboots.
Reboot ==
    /\ Fault
    /\ running' = running \cap enabled
    /\ sshd' = (file["sshd_config"] # Torn)
    /\ ks' = Absent /\ token' = Forgotten
    /\ client' = [client EXCEPT ![Sup] = Fresh]
    /\ Abort
    /\ UNCHANGED <<project, edits, hascert, file, enabled, authkeys, granted, userca, conf, local, certs,
                   completed>>

\* After the installation of the supervisor.
Init ==
    /\ project = 1 /\ hascert = FALSE /\ authkeys = TRUE
    /\ cmd = "none" /\ pc = 0 /\ captured = Absent /\ edited = 0 /\ edits = 0
    /\ file = [f \in Files |-> IF f = "sshd_config" THEN 1 ELSE Absent]
    /\ enabled = {} /\ running = {} /\ sshd = TRUE /\ ks = Absent
    /\ token = [n \in Nodes |-> "none"] /\ granted = [n \in Nodes |-> FALSE]
    /\ userca = [n \in Nodes |-> FALSE] /\ certs = [n \in Nodes |-> FALSE]
    /\ conf = [n \in Nodes |-> Absent] /\ local = [n \in Nodes |-> Absent]
    /\ client = [n \in Nodes |-> Fresh]
    /\ completed = FALSE /\ faults = 0

Next ==
    \/ Spire \/ (\E c \in {"supervisor", "redeploy"} : Start(c))
    \/ \E n \in Nodes : Keyclient(n) \/ Admit(n)
    \/ Edit \/ CrashKeyserver \/ StartKeyserver \/ Reboot

Spec == Init /\ [][Next]_vars

\* Operations end, the loops of the keyclients and systemd keep going, and the
\* operator starts a command that failed again.  A keyserver with a torn
\* setup.yaml need not come up.
Fairness == /\ WF_vars(Spire)
            /\ WF_vars(\E c \in {"supervisor", "redeploy"} : Start(c))
            /\ WF_vars(StartKeyserver /\ file["setup.yaml"] # Torn)
            /\ \A n \in Nodes : WF_vars(Keyclient(n))

FairSpec == Spec /\ Fairness
-----------------------------------------------------------------------------
(* Properties *)

Uploaded == Versions \cup {Absent, Torn}

\* The types; nothing but the services of the sequence is ever enabled or run.
TypeOK ==
    /\ project \in Versions /\ hascert \in BOOLEAN /\ authkeys \in BOOLEAN
    /\ cmd \in {"none", "supervisor", "redeploy"} /\ pc \in Nat
    /\ captured \in (IF cmd = "none" THEN {Absent} ELSE Versions) /\ edited \in Nat /\ edits \in 0..MaxEdits
    /\ file \in [Files -> Uploaded]
    /\ enabled \subseteq Services /\ running \subseteq Services /\ sshd \in BOOLEAN /\ ks \in Uploaded
    /\ token \in [Nodes -> {"none", "blank", "live", "dead"}]
    /\ granted \in [Nodes -> BOOLEAN] /\ userca \in [Nodes -> BOOLEAN] /\ certs \in [Nodes -> BOOLEAN]
    /\ conf \in [Nodes -> Uploaded] /\ local \in [Nodes -> Uploaded]
    /\ client \in [Nodes -> [at : {"boot", "grant", "userca", "conf", "local", "certs"},
                             busy : BOOLEAN, ready : BOOLEAN]]
    /\ completed \in BOOLEAN /\ faults \in 0..MaxFaults

\* Once check_keystatics has passed, the cluster.conf of the keyserver is the one of
\* its setup.yaml, and it runs with that one, although the first was made when the
\* command started and the second read when it was uploaded.  It does not notice two
\* edits of which the second undoes what the first did to cluster.conf.
ServedConfigConsistent ==
    (StaticsChecked /\ edited <= 1) =>
        /\ file["setup.yaml"] \in Versions
        /\ file["cluster.conf"] = Rendered[file["setup.yaml"]]
        /\ ks \in {Absent, file["setup.yaml"]}

\* Without faults the operator is never locked out of the supervisor: when the
\* old keys are shifted aside the keyclient has fetched the user CA.
OperatorKeepsAccess == faults = 0 => Reach(Sup)

Redeployed(n) == conf[n] = Rendered[project] /\ local[n] = project
RedeployEnds == cmd = "redeploy" /\ pc > Len(Operations(cmd)) /\ edited = 0 /\ faults = 0

\* At the end of an undisturbed redeployment all nodes but the supervisor have
\* the new cluster.conf and local.conf.
RedeployReachesNodes == RedeployEnds => \A n \in Nodes \ {Sup} : Redeployed(n)

\* The comment in redeploy_keyclients: the same holds for the supervisor,
\* although its cluster.conf is not deleted.
RedeployReachesAll == RedeployEnds => \A n \in Nodes : Redeployed(n)

\* What a repeated setup does not repair: a keytab that a lost connection has
\* torn, and a torn sshd_config that was followed by a reboot.
NeedsOperator == file["keytab"] = Torn \/ ~sshd

\* Wherever a lost connection, a reboot or an edit of setup.yaml interrupts a
\* command, starting it over helps: the supervisor sequence succeeds, and after
\* it a redeployment, which deletes both files of the keyserver before it uploads
\* the new ones, brings back a keyserver with both files of the operator's
\* version, even from a state in which the keyserver cannot be started.
Serves(v) == ks = v /\ file["cluster.conf"] = Rendered[v] /\ file["setup.yaml"] = v
StartingOverSucceeds == []<>((completed /\ Serves(project)) \/ NeedsOperator)
=============================================================================
