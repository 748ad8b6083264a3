---------------------------- MODULE PullMonitor ----------------------------
(***************************************************************************)
(* The pull monitor (pull-monitor/pull-monitor): on every node of a        *)
(* cluster, it deletes an image, pulls it again, runs it in a pod sandbox  *)
(* of its own and tears the sandbox down, cycle after cycle.               *)
(*                                                                         *)
(* Every action of the cycle is one call to crictl or one change of a      *)
(* temporary file or of a gauge.  A call to the container runtime may fail *)
(* before or after it had its effect, and the monitor may be killed (and   *)
(* is then restarted by systemd) between any two of them.                  *)
(***************************************************************************)
EXTENDS Naturals, FiniteSets

CONSTANTS
    Uids,        \* the UIDs that generateUID draws from
    NoPod,       \* not a UID
    MaxFaults,   \* bound: failures of calls, evictions of the image, and crashes
    MaxOutages   \* bound: changes of the registry

VARIABLES
    faults, outages,
    registryUp,  \* the registry has the image to offer
    image,       \* the image is in the store of the runtime
    sandboxes,   \* the monitor's sandboxes, by UID: the state of the container within
    pc,          \* where the cycle is
    podid,       \* the sandbox of this cycle
    failed,      \* runPod has met an error, or the output is not as expected
    tempfiles,   \* manifests in the directory for temporary files
    ociCheck, execCheck,  \* the gauges
    orphans,     \* history: sandboxes that a fault has left behind
    strays       \* history: manifests that a fault has left behind

runtime == <<registryUp, image, sandboxes>>
gauges == <<ociCheck, execCheck>>
history == <<orphans, strays>>
vars == <<faults, outages, runtime, pc, podid, failed, tempfiles, gauges, history>>

Works == UNCHANGED faults
Fault == faults < MaxFaults /\ faults' = faults + 1
Goto(label) == pc' = label

With(uid, container) ==
    [u \in DOMAIN sandboxes \cup {uid} |-> IF u = uid THEN container ELSE sandboxes[u]]
Without(uid) == [u \in DOMAIN sandboxes \ {uid} |-> sandboxes[u]]
-----------------------------------------------------------------------------
(* refetch *)

\* doesImageExist, which is false on an error too.
LookForImage ==
    /\ pc = "idle"
    /\ \/ image /\ Works /\ Goto("delete")
       \/ ~image /\ Works /\ Goto("pull")
       \/ image /\ Fault /\ Goto("pull")
    /\ UNCHANGED <<outages, runtime, podid, failed, tempfiles, gauges, history>>

\* A container, running or not, was made from the image.  The runtime may refuse
\* to delete an image for that.
InUse == \E u \in DOMAIN sandboxes : sandboxes[u] # "none"

DeleteImage ==
    /\ pc = "delete"
    /\ \/ Works /\ image' = FALSE /\ Goto("pull")
       \/ Works /\ InUse /\ UNCHANGED image /\ Goto("refetch_failed")
       \/ Fault /\ image' \in {image, FALSE} /\ Goto("refetch_failed")
    /\ UNCHANGED <<outages, registryUp, sandboxes, podid, failed, tempfiles, gauges, history>>

PullImage ==
    /\ pc = "pull"
    /\ \/ registryUp /\ Works /\ image' = TRUE /\ Goto("confirm")
       \/ ~registryUp /\ Works /\ UNCHANGED image /\ Goto("refetch_failed")
       \/ registryUp /\ Fault /\ image' \in {image, TRUE} /\ Goto("refetch_failed")
    /\ UNCHANGED <<outages, registryUp, sandboxes, podid, failed, tempfiles, gauges, history>>

ConfirmImage ==
    /\ pc = "confirm"
    /\ \/ image /\ Works /\ Goto("pulled")
       \/ ~image /\ Works /\ Goto("refetch_failed")
       \/ image /\ Fault /\ Goto("refetch_failed")
    /\ UNCHANGED <<outages, runtime, podid, failed, tempfiles, gauges, history>>

Pulled ==
    /\ pc = "pulled"
    /\ ociCheck' = 1
    /\ Goto("pod_config")
    /\ UNCHANGED <<faults, outages, runtime, podid, failed, tempfiles, execCheck, history>>

RefetchFailed ==
    /\ pc = "refetch_failed"
    /\ ociCheck' = 0
    /\ Goto("exec_failed")
    /\ UNCHANGED <<faults, outages, runtime, podid, failed, tempfiles, execCheck, history>>

ExecFailed ==
    /\ pc = "exec_failed"
    /\ execCheck' = 0
    /\ failed' = FALSE
    /\ Goto("idle")
    /\ UNCHANGED <<faults, outages, runtime, podid, tempfiles, ociCheck, history>>
-----------------------------------------------------------------------------
(* runPod *)

\* Mutant: every sandbox gets the same UID.
FixedUID == {CHOOSE u \in Uids : TRUE}

\* Sixteen random bytes are the UID of no sandbox that still exists.
GenerateUID == Uids \ DOMAIN sandboxes

\* createJSONTempfile returns an error.  It removes the file if encoding failed, but
\* not if closing it did, and its callers drop the path: a manifest may stay.
CreateJSONTempfileFails ==
    /\ Fault
    /\ \/ UNCHANGED <<tempfiles, strays>>
       \/ tempfiles' = tempfiles + 1 /\ strays' = strays + 1

WritePodConfig ==
    /\ pc = "pod_config"
    /\ \/ Works /\ tempfiles' = tempfiles + 1 /\ Goto("runp") /\ UNCHANGED strays
       \/ CreateJSONTempfileFails /\ Goto("exec_failed")
    /\ UNCHANGED <<outages, runtime, podid, failed, gauges, orphans>>

\* os.Remove on a path where something has failed: it may fail as well.
RemoveManifest ==
    \/ tempfiles' = tempfiles - 1 /\ UNCHANGED strays
    \/ strays' = strays + 1 /\ UNCHANGED tempfiles

\* crictl runp: the runtime refuses a second sandbox of the same name and UID.
\* A failed call, or an answer that is no ID, may have created a sandbox.
StartPodSandbox ==
    /\ pc = "runp"
    /\ \E uid \in GenerateUID :
        \/ /\ uid \notin DOMAIN sandboxes /\ Works
           /\ sandboxes' = With(uid, "none") /\ podid' = uid
           /\ Goto("container_config")
           /\ UNCHANGED <<tempfiles, history>>
        \/ /\ IF uid \in DOMAIN sandboxes
              THEN Works /\ UNCHANGED sandboxes
              ELSE Fault /\ sandboxes' \in {sandboxes, With(uid, "none")}
           /\ orphans' = orphans \cup (DOMAIN sandboxes' \ DOMAIN sandboxes)
           /\ RemoveManifest
           /\ Goto("exec_failed")
           /\ UNCHANGED podid
    /\ UNCHANGED <<outages, registryUp, image, failed, gauges>>

\* runContainer returns an error: runPod still deletes the sandbox.
ContainerFailed == failed' = TRUE /\ Goto("stopp")

WriteContainerConfig ==
    /\ pc = "container_config"
    /\ \/ Works /\ tempfiles' = tempfiles + 1 /\ Goto("create") /\ UNCHANGED <<failed, strays>>
       \/ CreateJSONTempfileFails /\ ContainerFailed
    /\ UNCHANGED <<outages, runtime, podid, gauges, orphans>>

\* Mutant: a container that could not be created ends the cycle.
CreateOrReturn ==
    /\ pc = "create"
    /\ tempfiles' = tempfiles - 1
    /\ \/ Works /\ sandboxes' = With(podid, "created") /\ Goto("start")
       \/ Fault /\ UNCHANGED sandboxes /\ Goto("exec_failed")
    /\ UNCHANGED <<outages, registryUp, image, podid, failed, gauges, history>>

\* crictl create, and the deferred removal of the container's manifest, whose
\* failure counts as one of createContainer.
CreateContainer ==
    /\ pc = "create"
    /\ \/ /\ Works /\ sandboxes' = With(podid, "created")
          /\ tempfiles' = tempfiles - 1
          /\ Goto("start") /\ UNCHANGED <<failed, strays>>
       \/ /\ Fault /\ sandboxes' \in {sandboxes, With(podid, "created")}
          /\ RemoveManifest
          /\ ContainerFailed
    /\ UNCHANGED <<outages, registryUp, image, podid, gauges, orphans>>

StartContainer ==
    /\ pc = "start"
    /\ \/ Works /\ sandboxes' = With(podid, "running") /\ Goto("wait") /\ UNCHANGED failed
       \/ Fault /\ sandboxes' \in {sandboxes, With(podid, "running")} /\ ContainerFailed
    /\ UNCHANGED <<outages, registryUp, image, podid, tempfiles, gauges, history>>

\* The loop over isContainerRunning.
AwaitContainer ==
    /\ pc = "wait"
    /\ \/ sandboxes[podid] = "exited" /\ Works /\ Goto("logs") /\ UNCHANGED failed
       \/ Fault /\ ContainerFailed
    /\ UNCHANGED <<outages, runtime, podid, tempfiles, gauges, history>>

\* getContainerLogs; output that differs from what attemptEcho expects is a
\* failure in the end too.
ReadLogs ==
    /\ pc = "logs"
    /\ \/ Works /\ UNCHANGED failed
       \/ Fault /\ failed' = TRUE
    /\ Goto("stopp")
    /\ UNCHANGED <<outages, runtime, podid, tempfiles, gauges, history>>

\* deletePodSandbox: the sandbox is only removed once it is stopped.
StopPodSandbox ==
    /\ pc = "stopp"
    /\ \/ Works /\ Goto("rmp") /\ UNCHANGED <<failed, orphans>>
       \/ Fault /\ orphans' = orphans \cup {podid} /\ failed' = TRUE /\ Goto("cleanup")
    /\ sandboxes' = IF sandboxes[podid] = "running" /\ pc' = "rmp" THEN With(podid, "exited") ELSE sandboxes
    /\ UNCHANGED <<outages, registryUp, image, podid, tempfiles, gauges, strays>>

RemovePodSandbox ==
    /\ pc = "rmp"
    /\ \/ Works /\ sandboxes' = Without(podid) /\ UNCHANGED <<failed, orphans>>
       \/ /\ Fault /\ sandboxes' \in {sandboxes, Without(podid)}
          /\ orphans' = orphans \cup {podid} /\ failed' = TRUE
    /\ Goto("cleanup")
    /\ UNCHANGED <<outages, registryUp, image, podid, tempfiles, gauges, strays>>

\* The deferred removal of the pod's manifest.
RemovePodConfig ==
    /\ pc = "cleanup"
    /\ podid' = NoPod
    /\ \/ Works /\ tempfiles' = tempfiles - 1 /\ UNCHANGED <<failed, strays>>
          /\ Goto(IF failed THEN "exec_failed" ELSE "echoed")
       \/ Fault /\ failed' = TRUE /\ strays' = strays + 1 /\ UNCHANGED tempfiles
          /\ Goto("exec_failed")
    /\ UNCHANGED <<outages, runtime, gauges, orphans>>

Echoed ==
    /\ pc = "echoed"
    /\ execCheck' = 1
    /\ Goto("idle")
    /\ UNCHANGED <<faults, outages, runtime, podid, failed, tempfiles, ociCheck, history>>
-----------------------------------------------------------------------------
(* What happens around the monitor *)

\* pullcheck prints its argument and ends.
ContainerExits ==
    /\ \E u \in DOMAIN sandboxes : sandboxes[u] = "running" /\ sandboxes' = With(u, "exited")
    /\ UNCHANGED <<faults, outages, registryUp, image, pc, podid, failed, tempfiles, gauges, history>>

\* The kubelet deletes images when the disk is full.
ImageEvicted ==
    /\ image /\ image' = FALSE
    /\ Fault
    /\ UNCHANGED <<outages, registryUp, sandboxes, pc, podid, failed, tempfiles, gauges, history>>

RegistryChanges ==
    /\ outages < MaxOutages /\ outages' = outages + 1
    /\ registryUp' = ~registryUp
    /\ UNCHANGED <<faults, image, sandboxes, pc, podid, failed, tempfiles, gauges, history>>

\* The monitor is killed; its first cycle exposes both gauges as 0.
Crash ==
    /\ Fault
    /\ orphans' = orphans \cup ({podid} \ {NoPod})
    /\ strays' = tempfiles
    /\ ociCheck' = 0 /\ execCheck' = 0
    /\ podid' = NoPod /\ failed' = FALSE
    /\ Goto("idle")
    /\ UNCHANGED <<outages, runtime, tempfiles>>

Init ==
    /\ faults = 0 /\ outages = 0
    /\ registryUp = TRUE /\ image \in BOOLEAN
    /\ sandboxes = <<>>
    /\ pc = "idle" /\ podid = NoPod /\ failed = FALSE /\ tempfiles = 0
    /\ ociCheck = 0 /\ execCheck = 0
    /\ orphans = {} /\ strays = 0

Cycle ==
    \/ LookForImage \/ DeleteImage \/ PullImage \/ ConfirmImage
    \/ Pulled \/ RefetchFailed \/ ExecFailed
    \/ WritePodConfig \/ StartPodSandbox
    \/ WriteContainerConfig \/ CreateContainer \/ StartContainer \/ AwaitContainer \/ ReadLogs
    \/ StopPodSandbox \/ RemovePodSandbox \/ RemovePodConfig \/ Echoed

Next == Cycle \/ ContainerExits \/ ImageEvicted \/ RegistryChanges \/ Crash

\* loop runs in a goroutine of its own, and pullcheck ends by itself.
FairSpec == Init /\ [][Next]_vars /\ WF_vars(Cycle) /\ WF_vars(ContainerExits)
-----------------------------------------------------------------------------
(* Properties *)

Containers == {"none", "created", "running", "exited"}

TypeOK ==
    /\ faults \in Nat /\ outages \in Nat /\ tempfiles \in Nat /\ strays \in Nat
    /\ registryUp \in BOOLEAN /\ image \in BOOLEAN /\ failed \in BOOLEAN
    /\ DOMAIN sandboxes \subseteq Uids /\ \A u \in DOMAIN sandboxes : sandboxes[u] \in Containers
    /\ podid \in Uids \cup {NoPod} /\ orphans \subseteq Uids
    /\ ociCheck \in {0, 1} /\ execCheck \in {0, 1}

\* Between two cycles, nothing of the earlier ones is on the node but what single
\* faults have left there: sandboxes that the runtime failed to stop or remove or
\* whose ID it did not tell, manifests that could not be closed or removed, and
\* what a killed monitor was using.  A fault costs one sandbox and two manifests at
\* most, so that cycles without faults use up nothing.
NothingLeftBehind ==
    pc = "idle" => /\ DOMAIN sandboxes \subseteq orphans /\ tempfiles = strays
                   /\ Cardinality(DOMAIN sandboxes) <= faults /\ tempfiles <= 2 * faults

\* Sandboxes that were left behind with a container hold on to the image.
Held == \E u \in orphans \cap DOMAIN sandboxes : sandboxes[u] # "none"

\* The gauges follow the registry by themselves.  Once it is gone for good, both
\* become 0; once it is there for good, both become 1, although earlier cycles
\* failed at any call, unless a container that was left behind keeps the image
\* from being deleted.
PullGaugesFollow ==
    /\ <>[]~registryUp => <>[](ociCheck = 0 /\ execCheck = 0)
    /\ <>[](registryUp /\ ~Held) => <>[](ociCheck = 1 /\ execCheck = 1)
=============================================================================
