---------------------------- MODULE NodeServices ----------------------------
(***************************************************************************)
(* How the services of a node come up: systemd starts keyclient, which     *)
(* fetches local.conf and cluster.conf (abstracted from KeyClient); once   *)
(* it is ready, homeworld-autostart runs and starts and enables services   *)
(* by the kind of the node (autostart); each service is a launcher that    *)
(* reads the two files, checks them and runs the program (kube-launch,     *)
(* kube-state-metrics, launch-etcd.sh, launch-etcd-metrics-exporter.sh).   *)
(*                                                                         *)
(* keyclient overwrites the files in place, and the node may lose power at *)
(* any time: what is read may be the beginning of a file.  Such a file is  *)
(* described by the number of its whole lines and by what follows them.    *)
(***************************************************************************)
EXTENDS Naturals, Sequences, FiniteSets

CONSTANTS
    Stanzas,       \* the services of the node, in the order in which autostart starts them
    ClusterTears,  \* how many lines of cluster.conf may be left of it
    LocalTears,    \* the same of local.conf
    MaxMishaps     \* bound: power losses, crashes, outages, failed calls, early refreshes

VARIABLES
    mishaps,
    keyserverUp, admitted,
    keyclient,  \* "starting" or "ready", as systemd sees it
    conf,       \* the two files
    due,        \* the files that keyclient will fetch again
    writing,    \* the file that keyclient is writing, or "none"
    autostart,  \* in this boot: "waiting", "start", "enable", "ended", "failed" or "unmatched"
    stanza,     \* the stanza that autostart is at
    completed,  \* history: autostart has ended, in this boot or in an earlier one
    calm,       \* history: each file was written once at most, to the end and in time
    enabled,    \* the services that systemd starts at boot
    unit,       \* each service: "inactive", "launching", "checked" or "running"
    got         \* what each service that runs was given: "whole", "cut" or "empty" values

files == <<conf, due, writing, calm>>
boot == <<keyclient, autostart, stanza, completed>>
units == <<enabled, unit, got>>
vars == <<mishaps, keyserverUp, admitted, boot, files, units>>

Mishap == mishaps < MaxMishaps /\ mishaps' = mishaps + 1

Services == UNION {Stanzas[i] : i \in DOMAIN Stanzas}
-----------------------------------------------------------------------------
(* The two files *)

\* Their lines, in order.
cluster_conf == <<"APISERVER", "APISERVER_COUNT", "CLUSTER_CIDR", "CLUSTER_DOMAIN", "DOMAIN",
                  "ETCD_CLUSTER", "ETCD_ENDPOINTS", "ETCD_TOKEN", "SERVICE_API", "SERVICE_CIDR",
                  "SERVICE_DNS">>
LocalConf == <<"HOST_NODE", "HOST_DNS", "HOST_IP", "SCHEDULE_WORK", "KIND">>
Lines == [cluster |-> cluster_conf, local |-> LocalConf]

Files == DOMAIN Lines
Missing == [lines |-> 0, then |-> "nofile"]
Whole(f) == [lines |-> Len(Lines[f]), then |-> "nothing"]

\* What is left of a file: whole lines, and perhaps the beginning of a name, a name
\* with nothing after its "=", or a name with the beginning of its value.
Torn(f) == {t \in [lines : IF f = "cluster" THEN ClusterTears ELSE LocalTears,
                   then : {"nothing", "name", "empty", "value"}] : t.lines < Len(Lines[f])}

\* Half a name is an error for GetConf, and an unknown command for bash.
Readable(f) == conf[f].then \notin {"nofile", "name"}

LineOf(f, name) == CHOOSE i \in DOMAIN Lines[f] : Lines[f][i] = name

\* A value of a readable file.
Value(f, name) ==
    LET i == LineOf(f, name) IN
    IF i <= conf[f].lines THEN "whole"
    ELSE IF i = conf[f].lines + 1 /\ conf[f].then = "value" THEN "cut"
    ELSE IF i = conf[f].lines + 1 /\ conf[f].then = "empty" THEN "empty"
    ELSE "missing"

AllWhole == \A f \in Files : conf[f] = Whole(f)
-----------------------------------------------------------------------------
(* The launchers *)

\* The values that a launcher reads first and checks by their format (Launch...),
\* those that only have to be set (bash with -u), and those that it reads
\* afterwards (GetAPIServer), which only have to be set too: "NAME=" will do.
Formatted(s) ==
    CASE s = "apiserver" -> {<<"cluster", "APISERVER_COUNT">>, <<"cluster", "SERVICE_CIDR">>,
                             <<"local", "HOST_IP">>, <<"cluster", "ETCD_ENDPOINTS">>}
      [] s = "kube-ctrlmgr" -> {<<"cluster", "SERVICE_CIDR">>, <<"cluster", "CLUSTER_CIDR">>}
      [] s = "kubelet" -> {<<"cluster", "SERVICE_DNS">>, <<"cluster", "CLUSTER_DOMAIN">>,
                           <<"local", "SCHEDULE_WORK">>}
      [] OTHER -> {}
Sourced(s) ==
    CASE s = "etcd" -> {<<"local", "HOST_NODE">>, <<"local", "HOST_IP">>,
                        <<"cluster", "ETCD_CLUSTER">>, <<"cluster", "ETCD_TOKEN">>}
      [] s = "etcd-metrics-exporter" -> {<<"local", "HOST_IP">>}
      [] OTHER -> {}
OnlyKubeconfig == {"kube-proxy", "kube-scheduler", "kube-state-metrics"}
ForKubeconfig(s) ==
    IF s \in OnlyKubeconfig \cup {"kubelet", "kube-ctrlmgr"}
    THEN {<<"cluster", "APISERVER">>} ELSE {}

\* Both launch scripts of etcd source both files.
ReadFirst(s) ==
    IF Sourced(s) # {} THEN Files ELSE {v[1] : v \in Formatted(s)}

Values(names) == {Value(v[1], v[2]) : v \in names}

\* The worst of what has been read.
Worst(set) ==
    IF "missing" \in set THEN "missing"
    ELSE IF "empty" \in set THEN "empty"
    ELSE IF "cut" \in set THEN "cut" ELSE "whole"

\* The values of the command line and of the environment.
Checked(s) == Formatted(s) \cup Sourced(s)

\* A check of the format passes on a whole value, and fails on one that is missing or
\* empty; the beginning of a number, an address, a network or a list may pass for one.
MayPass(s) ==
    /\ Worst(Values(Formatted(s))) \in {"whole", "cut"}
    /\ Worst(Values(Sourced(s))) # "missing"

MayFail(s) ==
    \/ Worst(Values(Sourced(s))) = "missing"
    \/ Worst(Values(Formatted(s))) # "whole"

Exits(s) == unit' = [unit EXCEPT ![s] = "launching"] /\ got' = [got EXCEPT ![s] = "whole"]

\* The launcher reads and checks the files.  If that fails, it exits, sometimes
\* with status 0, and systemd starts it again after five seconds in any case.
LaunchChecks(s) ==
    LET readable == \A f \in ReadFirst(s) : Readable(f) IN
    /\ unit[s] = "launching"
    /\ \/ /\ readable /\ MayPass(s)
          /\ unit' = [unit EXCEPT ![s] = "checked"]
          /\ got' = [got EXCEPT ![s] = Worst(Values(Checked(s)))]
       \/ /\ ~readable \/ MayFail(s)
          /\ Exits(s)
    /\ UNCHANGED <<mishaps, keyserverUp, admitted, boot, files, enabled>>

\* It writes the kubeconfig, for which it reads cluster.conf again, and runs the
\* program.
LaunchRuns(s) ==
    LET names == ForKubeconfig(s) IN
    /\ unit[s] = "checked"
    /\ \/ /\ names = {} \/ (Readable("cluster") /\ Worst(Values(names)) # "missing")
          /\ unit' = [unit EXCEPT ![s] = "running"]
          /\ got' = [got EXCEPT ![s] = Worst({got[s]} \cup Values(names))]
       \/ /\ names # {} /\ (~Readable("cluster") \/ Worst(Values(names)) = "missing")
          /\ Exits(s)
    /\ UNCHANGED <<mishaps, keyserverUp, admitted, boot, files, enabled>>

\* The program ends.
ServiceExits(s) ==
    /\ Mishap
    /\ unit[s] = "running" /\ Exits(s)
    /\ UNCHANGED <<keyserverUp, admitted, boot, files, enabled>>
-----------------------------------------------------------------------------
(* launch-autostart.sh *)

\* It is started once keyclient is ready and reads KIND.  Without a file, or
\* without KIND in it, it fails; with no kind or the beginning of one after the
\* "=", it does nothing.
AutostartBegins ==
    /\ autostart = "waiting" /\ keyclient = "ready"
    /\ autostart' = IF ~Readable("local") THEN "failed"
                    ELSE CASE Value("local", "KIND") = "whole" -> "start"
                           [] Value("local", "KIND") \in {"cut", "empty"} -> "unmatched"
                           [] OTHER -> "failed"
    /\ UNCHANGED <<mishaps, keyserverUp, admitted, keyclient, stanza, completed, files, units>>

\* systemctl start.  A failed call ends the script.
StartStanza ==
    /\ autostart = "start"
    /\ \/ /\ unit' = [s \in Services |->
                        IF s \in Stanzas[stanza] /\ unit[s] = "inactive" THEN "launching" ELSE unit[s]]
          /\ autostart' = "enable"
          /\ UNCHANGED mishaps
       \/ /\ Mishap
          /\ autostart' = "failed"
          /\ UNCHANGED unit
    /\ UNCHANGED <<keyserverUp, admitted, keyclient, stanza, completed, files, enabled, got>>

NextStanza ==
    IF stanza = Len(Stanzas)
    THEN autostart' = "ended" /\ completed' = TRUE /\ UNCHANGED stanza
    ELSE autostart' = "start" /\ stanza' = stanza + 1 /\ UNCHANGED completed

\* Mutant: the services are started and not enabled.
EnableNothing ==
    /\ autostart = "enable"
    /\ NextStanza
    /\ UNCHANGED <<mishaps, keyserverUp, admitted, keyclient, files, units>>

\* systemctl enable.
EnableStanza ==
    /\ autostart = "enable"
    /\ \/ /\ enabled' = enabled \cup Stanzas[stanza]
          /\ NextStanza
          /\ UNCHANGED mishaps
       \/ /\ Mishap
          /\ autostart' = "failed"
          /\ UNCHANGED <<enabled, stanza, completed>>
    /\ UNCHANGED <<keyserverUp, admitted, keyclient, files, unit, got>>
-----------------------------------------------------------------------------
(* keyclient, as far as the other services see it *)

Fetching == admitted /\ keyserverUp

Admit ==
    /\ ~admitted /\ keyserverUp /\ admitted' = TRUE
    /\ UNCHANGED <<mishaps, keyserverUp, boot, files, units>>

\* Half of a file is written, and then the rest.  A file that could not be written
\* to the end looks fresh and stays as it is for a day.
BeginWrite(f) ==
    /\ Fetching /\ writing = "none" /\ (conf[f] = Missing \/ f \in due)
    /\ writing' = f
    /\ due' = due \ {f}
    /\ \E t \in Torn(f) : conf' = [conf EXCEPT ![f] = t]
    /\ calm' = (calm /\ conf[f] = Missing)
    /\ UNCHANGED <<mishaps, keyserverUp, admitted, boot, units>>

EndWrite ==
    /\ writing # "none"
    /\ writing' = "none"
    /\ \/ conf' = [conf EXCEPT ![writing] = Whole(writing)] /\ UNCHANGED <<mishaps, calm>>
       \/ Mishap /\ calm' = FALSE /\ UNCHANGED conf
    /\ UNCHANGED <<keyserverUp, admitted, boot, due, units>>

\* A day has passed since the file was written.
RefreshDue(f) ==
    /\ conf[f] # Missing /\ f \notin due /\ writing # f
    /\ due' = due \cup {f}
    /\ IF conf[f] = Whole(f) THEN Mishap ELSE UNCHANGED mishaps
    /\ UNCHANGED <<keyserverUp, admitted, boot, conf, writing, calm, units>>

\* Mutant: keyclient is ready before it has written the files to the end.
KeyclientReadyEarly ==
    /\ admitted
    /\ keyserverUp => \A f \in Files : conf[f] # Missing /\ f \notin due
    /\ keyclient' = "ready"
    /\ UNCHANGED <<mishaps, keyserverUp, admitted, autostart, stanza, completed, files, units>>

\* A pass in which there is nothing to do.  Downloads that fail do not count.
KeyclientReady ==
    /\ admitted /\ writing = "none"
    /\ keyserverUp => \A f \in Files : conf[f] # Missing /\ f \notin due
    /\ keyclient' = "ready"
    /\ UNCHANGED <<mishaps, keyserverUp, admitted, autostart, stanza, completed, files, units>>

\* keyclient is not ready within the hour, or it crashes; systemd starts it again.
\* An autostart that waits for it fails, and is not tried again.
KeyclientFails ==
    /\ \/ keyclient = "starting" /\ ~admitted /\ UNCHANGED mishaps
       \/ Mishap
    /\ keyclient' = "starting"
    /\ autostart' = IF autostart = "waiting" THEN "failed" ELSE autostart
    /\ writing' = "none" /\ calm' = (calm /\ writing = "none")
    /\ UNCHANGED <<keyserverUp, admitted, stanza, completed, conf, due, units>>

KeyserverChanges ==
    /\ Mishap
    /\ keyserverUp' = ~keyserverUp
    /\ calm' = (calm /\ AllWhole)
    /\ UNCHANGED <<admitted, boot, conf, due, writing, units>>

\* The node loses power, or is rebooted.  The services that are enabled do not
\* wait for keyclient or autostart.
Reboot ==
    /\ Mishap
    /\ keyclient' = "starting" /\ autostart' = "waiting" /\ stanza' = 1
    /\ writing' = "none" /\ calm' = (calm /\ writing = "none")
    /\ unit' = [s \in Services |-> IF s \in enabled THEN "launching" ELSE "inactive"]
    /\ got' = [s \in Services |-> "whole"]
    /\ UNCHANGED <<keyserverUp, admitted, completed, conf, due, enabled>>

Init ==
    /\ mishaps = 0
    /\ keyserverUp = TRUE /\ admitted = FALSE
    /\ keyclient = "starting" /\ autostart = "waiting" /\ stanza = 1 /\ completed = FALSE
    /\ conf = [f \in Files |-> Missing] /\ due = {} /\ writing = "none" /\ calm = TRUE
    /\ enabled = {}
    /\ unit = [s \in Services |-> "inactive"] /\ got = [s \in Services |-> "whole"]

Autostart == AutostartBegins \/ StartStanza \/ EnableStanza
Launcher(s) == LaunchChecks(s) \/ LaunchRuns(s)
Keyclient == Admit \/ EndWrite \/ KeyclientReady

Next ==
    \/ Autostart \/ Keyclient
    \/ \E f \in Files : BeginWrite(f) \/ RefreshDue(f)
    \/ \E s \in Services : Launcher(s) \/ ServiceExits(s)
    \/ KeyclientFails \/ KeyserverChanges \/ Reboot

\* systemd starts what it has to, keyclient goes on for ever, and days pass.
Fairness ==
    /\ WF_vars(Autostart) /\ WF_vars(Keyclient)
    /\ \A f \in Files : WF_vars(BeginWrite(f)) /\ WF_vars(RefreshDue(f))
    /\ \A s \in Services : WF_vars(Launcher(s))

FairSpec == Init /\ [][Next]_vars /\ Fairness
-----------------------------------------------------------------------------
(* Properties *)

TypeOK ==
    /\ mishaps \in 0..MaxMishaps /\ {keyserverUp, admitted, completed, calm} \subseteq BOOLEAN
    /\ keyclient \in {"starting", "ready"}
    /\ autostart \in {"waiting", "start", "enable", "ended", "failed", "unmatched"}
    /\ stanza \in DOMAIN Stanzas
    /\ \A f \in Files : conf[f] \in Torn(f) \cup {Missing, Whole(f)}
    /\ due \subseteq Files /\ writing \in Files \cup {"none"}
    /\ enabled \subseteq Services
    /\ unit \in [Services -> {"inactive", "launching", "checked", "running"}]
    /\ got \in [Services -> {"whole", "cut", "empty"}]

\* No service is given less than the values that the keyserver has for it, in this
\* boot and after any number of reboots, crashes, failed calls and exits, as long as
\* each of the two files was written but once: not again in place, not cut short by
\* a power loss, a crash or an error, and not late because the keyserver was away when
\* keyclient called itself ready.  Nothing but the order in which keyclient, autostart
\* and systemd proceed keeps launchers from a file that is being written for the first
\* time.  (After such a disturbance a launcher may use a cut value, or an empty one.)
WholeValuesUnlessDisturbed == calm => \A s \in Services : got[s] = "whole"

AllRunning == \A s \in Services : unit[s] = "running"

\* Nothing starts the services any more in this boot: autostart has failed, or
\* found no KIND that it knows, and it has never enabled them all.
Stranded == autostart \in {"failed", "unmatched"} /\ ~completed

\* With the keyserver there for good, the services of the node come up and stay up,
\* through power losses and torn files, unless autostart is lost for this boot.
\* Once it has ended in some boot, they come up after every reboot, even if the
\* keyserver is gone and keyclient or autostart fail, as long as the files are
\* whole.
ServicesComeUp ==
    /\ <>[]keyserverUp => <>[](AllRunning \/ Stranded)
    /\ <>[](completed /\ \A f \in Files : conf[f] = Whole(f)) => <>[]AllRunning
=============================================================================
