--------------------------- MODULE ServicesProofs ---------------------------
(* Proofs about the services of MCServices: what a cycle of the pull monitor    *)
(* leaves on a node, the order in which setup-queue applies specifications, how *)
(* recent a scrape of the DNS monitor is, what a node's services start with,    *)
(* and the types of all of them.                                                *)
EXTENDS MCServices, ServerCertProofs, FiniteSetTheorems, TLAPS

-----------------------------------------------------------------------------
(* The pull monitor *)

\* The steps of runPod at which it has a sandbox.
PodSteps == {"container_config", "create", "start", "wait", "logs", "stopp", "rmp", "cleanup"}
OtherSteps == {"idle", "delete", "pull", "confirm", "pulled", "refetch_failed", "pod_config",
               "runp", "exec_failed", "echoed"}

\* The manifests of the running cycle: the pod's, and the container's while it
\* is created.
Manifests(label) ==
    IF label = "create" THEN 2 ELSE IF label \in PodSteps \cup {"runp"} THEN 1 ELSE 0

ManifestsOK == tempfiles \in Nat /\ strays \in Nat /\ tempfiles = strays + Manifests(cycle)

\* The sandbox of the running cycle until it has been deleted.
Current == IF cycle = "cleanup" THEN {} ELSE {podid} \ {NoPod}
SandboxesOK == DOMAIN sandboxes \subseteq orphans \cup Current

StepsOK == cycle \in PodSteps \cup OtherSteps /\ (cycle \in OtherSteps <=> podid = NoPod)

\* No fault has left more than one sandbox and two manifests behind.
LeaksOK ==
    /\ faults \in Nat /\ IsFiniteSet(orphans)
    /\ Cardinality(orphans) <= faults /\ strays <= 2 * faults

PullInv == ManifestsOK /\ SandboxesOK /\ StepsOK
-----------------------------------------------------------------------------
\* refetch, and the gauges: neither sandboxes nor manifests change.
LEMMA RefetchStep ==
    ASSUME PullInv,
           \/ Pull!LookForImage \/ Pull!DeleteImage \/ Pull!PullImage \/ Pull!ConfirmImage
           \/ Pull!Pulled \/ Pull!RefetchFailed \/ Pull!ExecFailed \/ Pull!Echoed
    PROVE  PullInv'
<1>1. UNCHANGED <<sandboxes, podid, tempfiles, Pull!history>>
  BY DEF Pull!LookForImage, Pull!DeleteImage, Pull!PullImage, Pull!ConfirmImage, Pull!Pulled,
     Pull!RefetchFailed, Pull!ExecFailed,
         Pull!Echoed, Pull!runtime
<1>2. cycle \in OtherSteps \ {"runp"} /\ cycle' \in OtherSteps \ {"runp"}
  BY DEF Pull!LookForImage, Pull!DeleteImage, Pull!PullImage, Pull!ConfirmImage, Pull!Pulled,
     Pull!RefetchFailed, Pull!ExecFailed,
         Pull!Echoed, Pull!Goto, OtherSteps
<1> QED
  BY <1>1, <1>2 DEF PullInv, ManifestsOK, Manifests, SandboxesOK, Current, StepsOK, Pull!history,
                    PodSteps, OtherSteps

\* The steps up to the creation of the sandbox.
LEMMA PodStep ==
    ASSUME PullInv, Pull!WritePodConfig \/ Pull!StartPodSandbox
    PROVE  PullInv'
<1>1. CASE Pull!WritePodConfig
  BY <1>1 DEF Pull!WritePodConfig, Pull!CreateJSONTempfileFails, Pull!Goto, Pull!runtime,
              PullInv, ManifestsOK, Manifests, SandboxesOK, Current, StepsOK, PodSteps, OtherSteps
<1>2. CASE Pull!StartPodSandbox
  <2>1. cycle = "runp" /\ podid = NoPod /\ DOMAIN sandboxes \subseteq orphans
        /\ tempfiles = strays + 1 /\ strays \in Nat /\ tempfiles \in Nat
    BY <1>2 DEF Pull!StartPodSandbox, PullInv, ManifestsOK, Manifests, SandboxesOK, Current,
       StepsOK,
                PodSteps, OtherSteps
  <2>2. ASSUME NEW uid \in Uids, sandboxes' = Pull!With(uid, "none"), podid' = uid,
               cycle' = "container_config", UNCHANGED <<tempfiles, Pull!history>>
        PROVE  PullInv'
    <3>1. DOMAIN sandboxes' \subseteq orphans \cup {uid}
      <4>1. DOMAIN Pull!With(uid, "none") = DOMAIN sandboxes \cup {uid}
        BY DEF Pull!With
      <4> QED
        BY <2>1, <2>2, <4>1
    <3>2. uid # NoPod
      BY ServicesAssumption
    <3> QED
      BY <2>1, <2>2, <3>1, <3>2 DEF Pull!history, PullInv, ManifestsOK, Manifests, SandboxesOK,
         Current,
                                    StepsOK, PodSteps, OtherSteps
  <2>3. ASSUME orphans' = orphans \cup (DOMAIN sandboxes' \ DOMAIN sandboxes),
               Pull!RemoveManifest, cycle' = "exec_failed", podid' = podid
        PROVE  PullInv'
    <3>1. strays' \in Nat /\ tempfiles' \in Nat /\ tempfiles' = strays' + 0
      BY <2>1, <2>3 DEF Pull!RemoveManifest
    <3>2. DOMAIN sandboxes' \subseteq orphans'
      BY <2>1, <2>3
    <3>3. ManifestsOK'
      <4>1. Manifests(cycle)' = 0
        BY <2>3 DEF Manifests, PodSteps
      <4> QED
        BY <3>1, <4>1 DEF ManifestsOK
    <3>4. SandboxesOK'
      BY <3>2 DEF SandboxesOK
    <3>5. StepsOK'
      BY <2>1, <2>3 DEF StepsOK, OtherSteps
    <3> QED
      BY <3>3, <3>4, <3>5 DEF PullInv
  <2> QED
    BY <1>2, <2>2, <2>3 DEF Pull!StartPodSandbox, Pull!GenerateUID, Pull!Goto
<1> QED
  BY <1>1, <1>2

\* The steps of runContainer.
LEMMA ContainerStep ==
    ASSUME PullInv,
           \/ Pull!WriteContainerConfig \/ Pull!CreateContainer \/ Pull!StartContainer
           \/ Pull!AwaitContainer \/ Pull!ReadLogs
    PROVE  PullInv'
<1>1. UNCHANGED <<podid, orphans>>
  BY DEF Pull!WriteContainerConfig, Pull!CreateContainer, Pull!StartContainer,
     Pull!AwaitContainer, Pull!ReadLogs, Pull!history
<1>2. /\ cycle \in PodSteps \ {"cleanup"} /\ cycle' \in PodSteps \ {"cleanup"}
      /\ cycle \notin OtherSteps /\ cycle' \notin OtherSteps
  BY DEF Pull!WriteContainerConfig, Pull!CreateContainer, Pull!StartContainer,
     Pull!AwaitContainer, Pull!ReadLogs,
         Pull!ContainerFailed, Pull!Goto, PodSteps, OtherSteps
<1>3. podid # NoPod
  BY <1>2 DEF PullInv, StepsOK
<1>4. SandboxesOK'
  <2>1. \/ sandboxes' = sandboxes
        \/ sandboxes' = Pull!With(podid, "created")
        \/ sandboxes' = Pull!With(podid, "running")
    BY DEF Pull!WriteContainerConfig, Pull!CreateContainer, Pull!StartContainer,
       Pull!AwaitContainer, Pull!ReadLogs, Pull!runtime
  <2>2. DOMAIN sandboxes' \subseteq DOMAIN sandboxes \cup {podid}
    BY <2>1 DEF Pull!With
  <2> QED
    BY <1>1, <1>2, <1>3, <2>2 DEF PullInv, SandboxesOK, Current
<1>5. StepsOK'
  BY <1>1, <1>2, <1>3 DEF StepsOK
<1>6. ManifestsOK'
  BY DEF Pull!WriteContainerConfig, Pull!CreateContainer, Pull!StartContainer,
     Pull!AwaitContainer, Pull!ReadLogs, Pull!CreateJSONTempfileFails,
         Pull!ContainerFailed, Pull!RemoveManifest, Pull!Goto, Pull!history, PullInv,
         ManifestsOK, Manifests, PodSteps
<1> QED
  BY <1>4, <1>5, <1>6 DEF PullInv

\* The steps after it: the sandbox and the pod's manifest are removed.
LEMMA CleanupStep ==
    ASSUME PullInv, Pull!StopPodSandbox \/ Pull!RemovePodSandbox \/ Pull!RemovePodConfig
    PROVE  PullInv'
<1>1. CASE Pull!StopPodSandbox
  <2>1. DOMAIN sandboxes' \subseteq DOMAIN sandboxes \cup {podid}
    BY <1>1 DEF Pull!StopPodSandbox, Pull!With
  <2>2. cycle = "stopp" /\ podid # NoPod /\ podid' = podid
    BY <1>1 DEF Pull!StopPodSandbox, PullInv, StepsOK, OtherSteps
  <2>3. \/ cycle' = "rmp" /\ orphans' = orphans
        \/ cycle' = "cleanup" /\ orphans' = orphans \cup {podid}
    BY <1>1 DEF Pull!StopPodSandbox, Pull!Goto
  <2>4. SandboxesOK'
    BY <2>1, <2>2, <2>3 DEF PullInv, SandboxesOK, Current
  <2>5. ManifestsOK'
    BY <1>1, <2>2, <2>3 DEF Pull!StopPodSandbox, PullInv, ManifestsOK, Manifests, PodSteps
  <2> QED
    BY <2>2, <2>3, <2>4, <2>5 DEF PullInv, StepsOK, PodSteps, OtherSteps
<1>2. CASE Pull!RemovePodSandbox
  <2>1. cycle = "rmp" /\ cycle' = "cleanup" /\ podid # NoPod /\ podid' = podid
    BY <1>2 DEF Pull!RemovePodSandbox, Pull!Goto, PullInv, StepsOK, OtherSteps
  <2>2. SandboxesOK'
    <3>1. \/ DOMAIN sandboxes' = DOMAIN sandboxes \ {podid} /\ orphans' = orphans
          \/ DOMAIN sandboxes' \subseteq DOMAIN sandboxes /\ orphans' = orphans \cup {podid}
      BY <1>2 DEF Pull!RemovePodSandbox, Pull!Without
    <3> QED
      BY <2>1, <3>1 DEF PullInv, SandboxesOK, Current
  <2>3. ManifestsOK'
    BY <1>2, <2>1 DEF Pull!RemovePodSandbox, PullInv, ManifestsOK, Manifests, PodSteps
  <2> QED
    BY <2>1, <2>2, <2>3 DEF PullInv, StepsOK, PodSteps, OtherSteps
<1>3. CASE Pull!RemovePodConfig
  <2>1. cycle = "cleanup" /\ cycle' \in {"exec_failed", "echoed"} /\ podid' = NoPod
    BY <1>3 DEF Pull!RemovePodConfig, Pull!Goto
  <2>2. SandboxesOK'
    BY <1>3, <2>1 DEF Pull!RemovePodConfig, Pull!runtime, PullInv, SandboxesOK, Current
  <2>3. ManifestsOK'
    BY <1>3, <2>1 DEF Pull!RemovePodConfig, PullInv, ManifestsOK, Manifests, PodSteps
  <2> QED
    BY <2>1, <2>2, <2>3 DEF PullInv, StepsOK, PodSteps, OtherSteps
<1> QED
  BY <1>1, <1>2, <1>3

\* What happens around the monitor, and its death.
LEMMA EnvironmentStep ==
    ASSUME PullInv, Pull!ContainerExits \/ Pull!ImageEvicted \/ Pull!RegistryChanges \/ Pull!Crash \/ UNCHANGED Pull!vars
    PROVE  PullInv'
<1>1. CASE Pull!ContainerExits \/ Pull!ImageEvicted \/ Pull!RegistryChanges \/ UNCHANGED Pull!vars
  <2>1. DOMAIN sandboxes' = DOMAIN sandboxes
    BY <1>1 DEF Pull!ContainerExits, Pull!ImageEvicted, Pull!RegistryChanges, Pull!vars,
       Pull!runtime, Pull!With
  <2>2. UNCHANGED <<cycle, podid, tempfiles, Pull!history>>
    BY <1>1 DEF Pull!ContainerExits, Pull!ImageEvicted, Pull!RegistryChanges, Pull!vars,
       Pull!history
  <2> QED
    BY <2>1, <2>2 DEF Pull!history, PullInv, ManifestsOK, Manifests, SandboxesOK, Current, StepsOK
<1>2. CASE Pull!Crash
  <2>1. cycle' = "idle" /\ podid' = NoPod
    BY <1>2 DEF Pull!Crash, Pull!Goto
  <2>2. SandboxesOK'
    BY <1>2 DEF Pull!Crash, Pull!runtime, PullInv, SandboxesOK, Current
  <2>3. ManifestsOK'
    BY <1>2, <2>1 DEF Pull!Crash, PullInv, ManifestsOK, Manifests, PodSteps
  <2> QED
    BY <2>1, <2>2, <2>3 DEF PullInv, StepsOK, PodSteps, OtherSteps
<1> QED
  BY <1>1, <1>2

\* The runtime's sandboxes with one set or added, and with one removed.
LEMMA SandboxesChange ==
    ASSUME NEW uid, NEW container
    PROVE  /\ DOMAIN Pull!With(uid, container) = DOMAIN sandboxes \cup {uid}
           /\ \A u \in DOMAIN sandboxes \cup {uid} :
                 Pull!With(uid, container)[u] = IF u = uid THEN container ELSE sandboxes[u]
           /\ DOMAIN Pull!Without(uid) = DOMAIN sandboxes \ {uid}
           /\ \A u \in DOMAIN sandboxes \ {uid} : Pull!Without(uid)[u] = sandboxes[u]
  BY DEF Pull!With, Pull!Without

\* What the monitor does to sandboxes is one of these changes.
LEMMA SandboxesTyped ==
    ASSUME Pull!TypeOK,
           \/ sandboxes' = sandboxes
           \/ \E u \in Uids, c \in Pull!Containers : sandboxes' = Pull!With(u, c)
           \/ \E u \in Uids : sandboxes' = Pull!Without(u)
    PROVE  /\ DOMAIN sandboxes' \subseteq Uids
           /\ \A u \in DOMAIN sandboxes' : sandboxes'[u] \in Pull!Containers
<1>1. DOMAIN sandboxes \subseteq Uids /\ \A u \in DOMAIN sandboxes : sandboxes[u] \in Pull!Containers
  BY DEF Pull!TypeOK
<1>2. ASSUME NEW u \in Uids, NEW c \in Pull!Containers, sandboxes' = Pull!With(u, c)
      PROVE  /\ DOMAIN sandboxes' \subseteq Uids
             /\ \A v \in DOMAIN sandboxes' : sandboxes'[v] \in Pull!Containers
  <2>1. /\ DOMAIN sandboxes' = DOMAIN sandboxes \cup {u}
        /\ \A v \in DOMAIN sandboxes \cup {u} : sandboxes'[v] = IF v = u THEN c ELSE sandboxes[v]
    BY <1>2 DEF Pull!With
  <2> QED
    BY <1>1, <2>1
<1>3. ASSUME NEW u \in Uids, sandboxes' = Pull!Without(u)
      PROVE  /\ DOMAIN sandboxes' \subseteq Uids
             /\ \A v \in DOMAIN sandboxes' : sandboxes'[v] \in Pull!Containers
  BY <1>1, <1>3, SandboxesChange
<1> QED
  BY <1>1, <1>2, <1>3

\* The flags are only set to TRUE and FALSE.
LEMMA FlagsTyped ==
    ASSUME Pull!TypeOK, [Pull!Next]_(Pull!vars)
    PROVE  registryUp' \in BOOLEAN /\ image' \in BOOLEAN /\ failed' \in BOOLEAN
<1>1. registryUp' = registryUp \/ registryUp' = ~registryUp
  BY DEF Pull!Next, Pull!Cycle, Pull!vars, Pull!runtime, Pull!LookForImage, Pull!DeleteImage,
         Pull!PullImage, Pull!ConfirmImage, Pull!Pulled, Pull!RefetchFailed, Pull!ExecFailed,
         Pull!Echoed, Pull!WritePodConfig, Pull!StartPodSandbox, Pull!WriteContainerConfig,
         Pull!CreateContainer, Pull!StartContainer, Pull!AwaitContainer, Pull!ReadLogs,
         Pull!StopPodSandbox, Pull!RemovePodSandbox, Pull!RemovePodConfig, Pull!ContainerExits,
         Pull!ImageEvicted, Pull!RegistryChanges, Pull!Crash
<1>2. image' = image \/ image' = TRUE \/ image' = FALSE
  BY DEF Pull!Next, Pull!Cycle, Pull!vars, Pull!runtime, Pull!LookForImage, Pull!DeleteImage,
         Pull!PullImage, Pull!ConfirmImage, Pull!Pulled, Pull!RefetchFailed, Pull!ExecFailed,
         Pull!Echoed, Pull!WritePodConfig, Pull!StartPodSandbox, Pull!WriteContainerConfig,
         Pull!CreateContainer, Pull!StartContainer, Pull!AwaitContainer, Pull!ReadLogs,
         Pull!StopPodSandbox, Pull!RemovePodSandbox, Pull!RemovePodConfig, Pull!ContainerExits,
         Pull!ImageEvicted, Pull!RegistryChanges, Pull!Crash
<1>3. failed' = failed \/ failed' = TRUE \/ failed' = FALSE
  BY DEF Pull!Next, Pull!Cycle, Pull!vars, Pull!runtime, Pull!LookForImage, Pull!DeleteImage,
         Pull!PullImage, Pull!ConfirmImage, Pull!Pulled, Pull!RefetchFailed, Pull!ExecFailed,
         Pull!Echoed, Pull!WritePodConfig, Pull!StartPodSandbox, Pull!WriteContainerConfig,
         Pull!CreateContainer, Pull!StartContainer, Pull!AwaitContainer, Pull!ReadLogs,
         Pull!StopPodSandbox, Pull!RemovePodSandbox, Pull!RemovePodConfig, Pull!ContainerExits,
         Pull!ImageEvicted, Pull!RegistryChanges, Pull!Crash, Pull!ContainerFailed
<1>4. registryUp \in BOOLEAN /\ image \in BOOLEAN /\ failed \in BOOLEAN
  BY DEF Pull!TypeOK
<1> QED
  BY <1>1, <1>2, <1>3, <1>4, Zenon

\* The pull monitor's variables have values of their types.
LEMMA PullTyped ==
    ASSUME Pull!TypeOK, PullInv, PullInv', [Pull!Next]_(Pull!vars)
    PROVE  Pull!TypeOK'
<1> DEFINE Rest == /\ faults' \in Nat /\ outages' \in Nat
                   /\ DOMAIN sandboxes' \subseteq Uids
                   /\ \A u \in DOMAIN sandboxes' : sandboxes'[u] \in Pull!Containers
                   /\ podid' \in Uids \cup {NoPod} /\ orphans' \subseteq Uids
                   /\ ociCheck' \in {0, 1} /\ execCheck' \in {0, 1}
<1>0. /\ faults \in Nat /\ faults + 1 \in Nat /\ outages \in Nat /\ outages + 1 \in Nat
      /\ podid \in Uids \cup {NoPod} /\ orphans \subseteq Uids /\ ociCheck \in {0, 1} /\ execCheck \in {0, 1}
      /\ DOMAIN sandboxes \subseteq Uids /\ \A u \in DOMAIN sandboxes : sandboxes[u] \in Pull!Containers
      /\ {"none", "created", "running", "exited"} = Pull!Containers
  BY DEF Pull!TypeOK, Pull!Containers
<1> SUFFICES Rest
  BY FlagsTyped DEF Pull!TypeOK, PullInv, ManifestsOK
<1>1. CASE \/ Pull!LookForImage \/ Pull!DeleteImage \/ Pull!PullImage \/ Pull!ConfirmImage
           \/ Pull!Pulled \/ Pull!RefetchFailed \/ Pull!ExecFailed \/ Pull!Echoed
  <2>1. UNCHANGED <<outages, sandboxes, podid, orphans>> /\ faults' \in {faults, faults + 1}
    BY <1>1 DEF Pull!LookForImage, Pull!DeleteImage, Pull!PullImage, Pull!ConfirmImage,
       Pull!Pulled,
           Pull!RefetchFailed, Pull!ExecFailed, Pull!Echoed, Pull!runtime, Pull!history,
           Pull!Works, Pull!Fault
  <2>2. ociCheck' \in {0, 1, ociCheck} /\ execCheck' \in {0, 1, execCheck}
    BY <1>1 DEF Pull!LookForImage, Pull!DeleteImage, Pull!PullImage, Pull!ConfirmImage,
       Pull!Pulled,
           Pull!RefetchFailed, Pull!ExecFailed, Pull!Echoed, Pull!gauges
  <2> QED
    BY <1>0, <2>1, <2>2
<1>2. CASE Pull!WritePodConfig \/ Pull!WriteContainerConfig \/ Pull!AwaitContainer \/ Pull!ReadLogs
  BY <1>0, <1>2 DEF Pull!WritePodConfig, Pull!WriteContainerConfig, Pull!AwaitContainer,
     Pull!ReadLogs,
     Pull!CreateJSONTempfileFails, Pull!runtime, Pull!history, Pull!gauges, Pull!Works, Pull!Fault
<1>3. CASE Pull!StartPodSandbox
  <2>1. PICK uid \in Pull!GenerateUID :
          \/ sandboxes' = Pull!With(uid, "none") /\ podid' = uid /\ UNCHANGED orphans
          \/ /\ sandboxes' \in {sandboxes, Pull!With(uid, "none")} /\ UNCHANGED podid
             /\ orphans' = orphans \cup (DOMAIN sandboxes' \ DOMAIN sandboxes)
    BY <1>3 DEF Pull!StartPodSandbox, Pull!history
  <2>2. uid \in Uids
    BY DEF Pull!GenerateUID
  <2>3. /\ DOMAIN sandboxes' \subseteq Uids
        /\ \A u \in DOMAIN sandboxes' : sandboxes'[u] \in Pull!Containers
    BY <1>0, <2>1, <2>2, SandboxesTyped
  <2>4. UNCHANGED <<outages, ociCheck, execCheck>> /\ faults' \in {faults, faults + 1}
    BY <1>3 DEF Pull!StartPodSandbox, Pull!gauges, Pull!Works, Pull!Fault
  <2> QED
    BY <1>0, <2>1, <2>2, <2>3, <2>4
<1>4. CASE Pull!CreateContainer \/ Pull!StartContainer \/ Pull!StopPodSandbox \/ Pull!RemovePodSandbox
  <2>1. podid \in Uids
    BY <1>4 DEF Pull!CreateContainer, Pull!StartContainer, Pull!StopPodSandbox,
       Pull!RemovePodSandbox,
                PullInv, StepsOK, PodSteps, OtherSteps, Pull!TypeOK
  <2>2. \/ sandboxes' = sandboxes \/ sandboxes' = Pull!Without(podid)
        \/ \E c \in {"created", "running", "exited"} : sandboxes' = Pull!With(podid, c)
    BY <1>4 DEF Pull!CreateContainer, Pull!StartContainer, Pull!StopPodSandbox,
       Pull!RemovePodSandbox
  <2>3. /\ DOMAIN sandboxes' \subseteq Uids
        /\ \A u \in DOMAIN sandboxes' : sandboxes'[u] \in Pull!Containers
    BY <1>0, <2>1, <2>2, SandboxesTyped
  <2>4. /\ UNCHANGED <<outages, podid, ociCheck, execCheck>> /\ faults' \in {faults, faults + 1}
        /\ orphans' \in {orphans, orphans \cup {podid}}
    BY <1>4 DEF Pull!CreateContainer, Pull!StartContainer, Pull!StopPodSandbox,
       Pull!RemovePodSandbox,
                Pull!gauges, Pull!history, Pull!Works, Pull!Fault
  <2> QED
    BY <1>0, <2>1, <2>3, <2>4
<1>5. CASE Pull!RemovePodConfig
  BY <1>0, <1>5 DEF Pull!RemovePodConfig, Pull!runtime, Pull!history, Pull!gauges, Pull!Works,
     Pull!Fault
<1>6. CASE Pull!ContainerExits
  <2>1. \E u \in Uids, c \in Pull!Containers : sandboxes' = Pull!With(u, c)
    BY <1>0, <1>6 DEF Pull!ContainerExits
  <2>2. /\ DOMAIN sandboxes' \subseteq Uids
        /\ \A u \in DOMAIN sandboxes' : sandboxes'[u] \in Pull!Containers
    BY <2>1, SandboxesTyped
  <2> QED
    BY <1>0, <1>6, <2>2 DEF Pull!ContainerExits, Pull!gauges, Pull!history
<1>7. CASE Pull!ImageEvicted \/ Pull!RegistryChanges \/ UNCHANGED Pull!vars
  BY <1>0, <1>7 DEF Pull!ImageEvicted, Pull!RegistryChanges, Pull!vars, Pull!runtime,
     Pull!history, Pull!gauges, Pull!Fault
<1>8. CASE Pull!Crash
  BY <1>0, <1>8 DEF Pull!Crash, Pull!runtime, Pull!Fault
<1> QED
  BY <1>1, <1>2, <1>3, <1>4, <1>5, <1>6, <1>7, <1>8 DEF Pull!Next, Pull!Cycle

\* A step leaves nothing behind, or is a fault that leaves a sandbox and two
\* manifests at most.
LEMMA LeakStep ==
    ASSUME PullInv, LeaksOK, [Pull!Next]_(Pull!vars)
    PROVE  LeaksOK'
<1> DEFINE None == UNCHANGED <<orphans, strays>> /\ faults' \in {faults, faults + 1}
           Leak == /\ faults' = faults + 1 /\ strays' \in {strays, strays + 1, strays + 2}
                   /\ \E u : orphans' \in {orphans, orphans \cup {u}}
<1>0. Cardinality(orphans) \in Nat /\ strays \in Nat
  BY FS_CardinalityType DEF LeaksOK, PullInv, ManifestsOK
<1>1. CASE None
  <2>1. orphans' = orphans /\ strays' = strays
    BY <1>1
  <2>2. IsFiniteSet(orphans)' /\ Cardinality(orphans)' = Cardinality(orphans)
    BY <2>1 DEF LeaksOK
  <2>3. faults' \in Nat
    BY <1>1 DEF LeaksOK
  <2>4. CASE faults' = faults
    BY <2>1, <2>2, <2>4 DEF LeaksOK
  <2>5. CASE faults' = faults + 1
    <3>1. Cardinality(orphans) <= faults + 1 /\ strays <= 2 * (faults + 1)
      BY <1>0 DEF LeaksOK
    <3> QED
      BY <2>1, <2>2, <2>3, <2>5, <3>1 DEF LeaksOK
  <2> QED
    BY <1>1, <2>4, <2>5
<1>2. CASE Leak
  <2>1. PICK u : orphans' \in {orphans, orphans \cup {u}}
    BY <1>2
  <2>2. /\ IsFiniteSet(orphans \cup {u})
        /\ Cardinality(orphans \cup {u}) \in {Cardinality(orphans), Cardinality(orphans) + 1}
    BY FS_AddElement DEF LeaksOK
  <2>3. IsFiniteSet(orphans') /\ Cardinality(orphans') <= faults + 1
    BY <1>0, <2>1, <2>2 DEF LeaksOK
  <2> QED
    BY <1>0, <1>2, <2>3 DEF LeaksOK
<1>3. CASE \/ Pull!LookForImage \/ Pull!DeleteImage \/ Pull!PullImage \/ Pull!ConfirmImage
           \/ Pull!Pulled \/ Pull!RefetchFailed \/ Pull!ExecFailed \/ Pull!Echoed
           \/ Pull!StartContainer \/ Pull!AwaitContainer \/ Pull!ReadLogs
           \/ Pull!ContainerExits \/ Pull!ImageEvicted \/ Pull!RegistryChanges \/ UNCHANGED Pull!vars
  <2>1. None
    BY <1>3 DEF Pull!LookForImage, Pull!DeleteImage, Pull!PullImage, Pull!ConfirmImage,
       Pull!Pulled, Pull!RefetchFailed, Pull!ExecFailed, Pull!Echoed, Pull!StartContainer,
       Pull!AwaitContainer, Pull!ReadLogs, Pull!ContainerExits, Pull!ImageEvicted,
       Pull!RegistryChanges, Pull!vars, Pull!history, Pull!Works, Pull!Fault
  <2> QED
    BY <1>1, <2>1
<1>4. CASE \/ Pull!WritePodConfig \/ Pull!WriteContainerConfig \/ Pull!CreateContainer
           \/ Pull!RemovePodConfig
  <2>1. None \/ Leak
    BY <1>4 DEF Pull!WritePodConfig, Pull!WriteContainerConfig, Pull!CreateContainer,
       Pull!RemovePodConfig, Pull!CreateJSONTempfileFails, Pull!RemoveManifest, Pull!history,
       Pull!Works, Pull!Fault
  <2> QED
    BY <1>1, <1>2, <2>1
<1>5. CASE Pull!StopPodSandbox \/ Pull!RemovePodSandbox
  <2>1. None \/ Leak
    BY <1>5 DEF Pull!StopPodSandbox, Pull!RemovePodSandbox, Pull!Works, Pull!Fault
  <2> QED
    BY <1>1, <1>2, <2>1
<1>6. CASE Pull!StartPodSandbox
  <2>1. PICK uid \in Pull!GenerateUID :
          \/ Pull!Works /\ UNCHANGED Pull!history
          \/ /\ Pull!Fault /\ sandboxes' \in {sandboxes, Pull!With(uid, "none")}
             /\ orphans' = orphans \cup (DOMAIN sandboxes' \ DOMAIN sandboxes)
             /\ Pull!RemoveManifest
    BY <1>6 DEF Pull!StartPodSandbox, Pull!GenerateUID
  <2>2. ASSUME Pull!Fault, sandboxes' \in {sandboxes, Pull!With(uid, "none")},
               orphans' = orphans \cup (DOMAIN sandboxes' \ DOMAIN sandboxes), Pull!RemoveManifest
        PROVE  Leak
    <3>1. DOMAIN sandboxes' \ DOMAIN sandboxes \subseteq {uid}
      BY <2>2, SandboxesChange
    <3>2. orphans' \in {orphans, orphans \cup {uid}}
      BY <2>2, <3>1
    <3> QED
      BY <2>2, <3>2 DEF Pull!RemoveManifest, Pull!Fault
  <2>3. None \/ Leak
    BY <2>1, <2>2 DEF Pull!Works, Pull!history
  <2> QED
    BY <1>1, <1>2, <2>3
<1>7. CASE Pull!Crash
  <2>1. strays' \in {strays, strays + 1, strays + 2}
    BY <1>7 DEF Pull!Crash, PullInv, ManifestsOK, Manifests
  <2>2. orphans' \in {orphans, orphans \cup {podid}}
    BY <1>7 DEF Pull!Crash
  <2> QED
    BY <1>2, <1>7, <2>1, <2>2 DEF Pull!Crash, Pull!Fault
<1> QED
  BY <1>3, <1>4, <1>5, <1>6, <1>7 DEF Pull!Next, Pull!Cycle

\* The pull monitor's invariant holds at first.
LEMMA PullInit == Pull!Init => Pull!TypeOK /\ PullInv /\ LeaksOK
<1>1. Pull!Init => registryUp \in BOOLEAN /\ image \in BOOLEAN /\ failed \in BOOLEAN
  BY Zenon DEF Pull!Init
<1>2. Pull!Init => LeaksOK
  BY FS_EmptySet DEF Pull!Init, LeaksOK
<1> QED
  BY <1>1, <1>2 DEF Pull!Init, Pull!TypeOK, PullInv, ManifestsOK, Manifests, SandboxesOK, Current,
     StepsOK,
     PodSteps, OtherSteps

\* Every step keeps the pull monitor's invariant.
LEMMA PullNext ==
    Pull!TypeOK /\ PullInv /\ LeaksOK /\ [Pull!Next]_(Pull!vars) => Pull!TypeOK' /\ PullInv' /\ LeaksOK'
<1>1. PullInv /\ [Pull!Next]_(Pull!vars) => PullInv'
  BY RefetchStep, PodStep, ContainerStep, CleanupStep, EnvironmentStep DEF Pull!Next, Pull!Cycle
<1> QED
  BY <1>1, PullTyped, LeakStep

\* The monitor's module counts as this one does.
LEMMA SameCount == ASSUME NEW set PROVE Pull!Cardinality(set) = Cardinality(set)
  BY DEF Pull!Cardinality, Cardinality

\* Between two cycles, nothing is left on the node but sandboxes that the
\* runtime failed to stop or remove, or did not name, or that were in use when
\* the monitor was killed, and manifests that could not be closed or removed, and
\* that is at most a sandbox and two manifests for each fault.
THEOREM LeavesNothing == Pull!FairSpec => []NothingLeftBehind
<1>1. PullInv /\ LeaksOK => NothingLeftBehind
  <2> SUFFICES ASSUME PullInv, LeaksOK, cycle = "idle"
               PROVE  /\ DOMAIN sandboxes \subseteq orphans /\ tempfiles = strays
                      /\ Cardinality(DOMAIN sandboxes) <= faults /\ tempfiles <= 2 * faults
    BY SameCount DEF NothingLeftBehind, Pull!NothingLeftBehind
  <2>1. DOMAIN sandboxes \subseteq orphans /\ tempfiles = strays
    BY DEF PullInv, ManifestsOK, Manifests, SandboxesOK, Current, StepsOK, PodSteps, OtherSteps
  <2>2. /\ Cardinality(DOMAIN sandboxes) <= Cardinality(orphans)
        /\ Cardinality(DOMAIN sandboxes) \in Nat /\ Cardinality(orphans) \in Nat
    BY <2>1, FS_Subset, FS_CardinalityType DEF LeaksOK
  <2> QED
    BY <2>1, <2>2 DEF LeaksOK
<1> QED
  BY PullInit, PullNext, <1>1, PTL DEF Pull!FairSpec
-----------------------------------------------------------------------------
(* setup-queue *)

\* What is applied is never newer than a file that is still to be applied.
NothingNewer == \A f \in files : applied[launched[f]] <= f

\* The listing of setup-queue holds every file that is older than one of its own.
OldestFirst == \A g \in listing, f \in files : f <= g => f \in listing

\* scp is only writing a file that has been launched.
UploadBegan == uploading => Len(launched) > 0

QueueInv == Queue!TypeOK /\ NothingNewer /\ OldestFirst /\ UploadBegan
-----------------------------------------------------------------------------
\* Applying the next file of the listing keeps the invariant, and does not go
\* back to an older file.
LEMMA ApplyStep ==
    ASSUME QueueInv, NEW f \in listing, Queue!IsNext(f), Queue!Apply(f),
           UNCHANGED <<launched, files>>
    PROVE  /\ applied' \in [Specs -> 0..Len(launched)]
           /\ NothingNewer'
           /\ \A s \in Specs : applied'[s] >= applied[s]
<1>1. f \in files /\ files \subseteq 1..Len(launched) /\ f \in Nat /\ Len(launched) \in Nat
  BY DEF QueueInv, Queue!TypeOK
<1>2. \A g \in files : g \in Nat /\ launched[g] \in Specs
  BY <1>1 DEF QueueInv, Queue!TypeOK
<1>3. applied' \in [Specs -> 0..Len(launched)]
  BY <1>1, <1>2 DEF Queue!Apply, QueueInv, Queue!TypeOK
<1>4. \A s \in Specs : applied'[s] = IF s = launched[f] THEN f ELSE applied[s]
  BY DEF Queue!Apply, QueueInv, Queue!TypeOK
<1>5. \A g \in files : f <= g
  <2> SUFFICES ASSUME NEW g \in files, ~(f <= g) PROVE FALSE
    OBVIOUS
  <2>1. g <= f
    BY <1>1, <1>2
  <2>2. g \in listing
    BY <2>1 DEF QueueInv, OldestFirst
  <2> QED
    BY <2>2 DEF Queue!IsNext
<1>6. \A s \in Specs : applied[s] \in Nat
  BY <1>1 DEF QueueInv, Queue!TypeOK
<1>7. applied[launched[f]] <= f
  BY <1>1 DEF QueueInv, NothingNewer
<1>8. NothingNewer'
  BY <1>2, <1>4, <1>5 DEF QueueInv, NothingNewer
<1>9. \A s \in Specs : applied'[s] >= applied[s]
  BY <1>1, <1>4, <1>6, <1>7
<1> QED
  BY <1>3, <1>8, <1>9

\* Every step keeps the invariant and does not go back to an older file.
LEMMA QueueStep ==
    ASSUME QueueInv, [Queue!Next]_(Queue!vars)
    PROVE  QueueInv' /\ \A s \in Specs : applied'[s] >= applied[s]
<1>0. /\ Len(launched) \in Nat
      /\ \A s \in Specs : applied[s] \in Nat /\ applied[s] <= Len(launched)
      /\ \A f \in files : f \in Nat /\ f <= Len(launched) /\ launched[f] \in Specs
  BY DEF QueueInv, Queue!TypeOK
<1>1. ASSUME NEW s \in Specs, Queue!BeginUpload(s)
      PROVE  QueueInv' /\ \A t \in Specs : applied'[t] >= applied[t]
  <2>1. /\ launched' \in Seq(Specs) /\ Len(launched') = Len(launched) + 1
        /\ \A f \in 1..Len(launched) : launched'[f] = launched[f]
        /\ launched'[Len(launched')] = s
    BY <1>1 DEF Queue!BeginUpload, QueueInv, Queue!TypeOK
  <2>2. Queue!TypeOK'
    <3>1. /\ files' = files \cup {Len(launched) + 1} /\ uploading' = TRUE
          /\ UNCHANGED <<errors, whole, running, listing, applied>>
      BY <1>1, <2>1 DEF Queue!BeginUpload
    <3>2. files' \subseteq 1..Len(launched') /\ whole' \subseteq 1..Len(launched')
      <4>1. 1..Len(launched') = 1..Len(launched) \cup {Len(launched) + 1}
        BY <1>0, <2>1
      <4> QED
        BY <3>1, <4>1 DEF QueueInv, Queue!TypeOK
    <3>3. applied' \in [Specs -> 0..Len(launched')]
      <4>1. 0..Len(launched) \subseteq 0..Len(launched')
        BY <1>0, <2>1
      <4> QED
        BY <3>1, <4>1 DEF QueueInv, Queue!TypeOK
    <3>4. listing' \subseteq files'
      BY <3>1 DEF QueueInv, Queue!TypeOK
    <3> QED
      BY <2>1, <3>1, <3>2, <3>3, <3>4 DEF QueueInv, Queue!TypeOK
  <2>3. NothingNewer'
    <3> SUFFICES ASSUME NEW f \in files' PROVE applied[launched'[f]] <= f
      BY <1>1 DEF NothingNewer, Queue!BeginUpload
    <3>1. CASE f \in files
      BY <1>0, <2>1, <3>1 DEF QueueInv, NothingNewer, Queue!TypeOK
    <3>2. CASE f = Len(launched')
      BY <1>0, <2>1, <3>2
    <3> QED
      BY <1>1, <3>1, <3>2 DEF Queue!BeginUpload
  <2>4. OldestFirst'
    BY <1>0, <1>1, <2>1 DEF Queue!BeginUpload, QueueInv, Queue!TypeOK, OldestFirst
  <2> QED
    BY <1>0, <1>1, <2>1, <2>2, <2>3, <2>4 DEF Queue!BeginUpload, QueueInv, UploadBegan
<1>2. ASSUME NEW f \in listing, Queue!DeploySingle(f)
      PROVE  QueueInv' /\ \A t \in Specs : applied'[t] >= applied[t]
  <2>1. UNCHANGED <<launched, files, whole, uploading>> /\ Queue!IsNext(f)
        /\ errors' \in Nat /\ running' \in {"no", "apply", "remove"}
        /\ (listing' = listing \/ listing' = {})
    BY <1>2 DEF Queue!DeploySingle, Queue!StopQueue, Queue!NewError, QueueInv, Queue!TypeOK
  <2>2. OldestFirst' /\ UploadBegan'
    BY <2>1 DEF QueueInv, OldestFirst, UploadBegan
  <2>3. CASE Queue!Apply(f)
    BY <2>1, <2>2, <2>3, ApplyStep DEF QueueInv, Queue!TypeOK
  <2>4. CASE UNCHANGED applied
    <3>1. Queue!TypeOK'
      BY <2>1, <2>4 DEF QueueInv, Queue!TypeOK
    <3>2. NothingNewer'
      BY <2>1, <2>4 DEF QueueInv, NothingNewer
    <3> QED
      BY <1>0, <2>2, <2>4, <3>1, <3>2 DEF QueueInv
  <2> QED
    BY <1>2, <2>3, <2>4 DEF Queue!DeploySingle
<1>3. ASSUME NEW f \in listing, Queue!RemoveFile(f)
      PROVE  QueueInv' /\ \A t \in Specs : applied'[t] >= applied[t]
  <2>1. UNCHANGED <<launched, whole, uploading, applied>>
        /\ errors' \in Nat /\ running' \in {"no", "apply", "remove"}
        /\ \/ files' = files \ {f} /\ listing' = listing \ {f}
           \/ files' = files /\ listing' = {}
    BY <1>3 DEF Queue!RemoveFile, Queue!StopQueue, Queue!NewError, QueueInv, Queue!TypeOK
  <2>2. Queue!TypeOK'
    BY <2>1 DEF QueueInv, Queue!TypeOK
  <2>3. NothingNewer' /\ OldestFirst' /\ UploadBegan'
    BY <2>1 DEF QueueInv, NothingNewer, OldestFirst, UploadBegan
  <2> QED
    BY <1>0, <2>1, <2>2, <2>3 DEF QueueInv
<1>4. ASSUME Queue!EndUpload \/ Queue!StartQueue \/ Queue!Reboot
      PROVE  QueueInv' /\ \A t \in Specs : applied'[t] >= applied[t]
  <2>1. UNCHANGED <<launched, files, applied>>
        /\ (listing' = listing \/ listing' = files \/ listing' = {})
    BY <1>4 DEF Queue!EndUpload, Queue!StartQueue, Queue!Reboot, Queue!StopQueue
  <2>2. errors' \in Nat
    BY <1>4 DEF Queue!EndUpload, Queue!StartQueue, Queue!Reboot, Queue!NewError, QueueInv,
       Queue!TypeOK
  <2>3. whole' \subseteq 1..Len(launched)
    <3>1. CASE Queue!EndUpload
      <4>1. files' = files /\ (whole' = whole \/ whole' = whole \cup {Len(launched)})
        BY <3>1 DEF Queue!EndUpload
      <4>2. Len(launched) > 0
        BY <3>1 DEF Queue!EndUpload, QueueInv, UploadBegan
      <4>3. Len(launched) \in 1..Len(launched)
        BY <1>0, <4>2
      <4> QED
        BY <4>1, <4>3 DEF QueueInv, Queue!TypeOK
    <3> QED
      BY <1>4, <3>1 DEF Queue!StartQueue, Queue!Reboot, QueueInv, Queue!TypeOK
  <2>4. running' \in {"no", "apply", "remove"} /\ uploading' \in BOOLEAN
    BY <1>4 DEF Queue!EndUpload, Queue!StartQueue, Queue!Reboot, Queue!StopQueue, QueueInv,
       Queue!TypeOK
  <2>5. Queue!TypeOK'
    BY <2>1, <2>2, <2>3, <2>4 DEF QueueInv, Queue!TypeOK
  <2>6. NothingNewer' /\ OldestFirst'
    BY <2>1 DEF QueueInv, NothingNewer, OldestFirst
  <2>7. UploadBegan'
    BY <1>4 DEF Queue!EndUpload, Queue!StartQueue, Queue!Reboot, QueueInv, UploadBegan
  <2> QED
    BY <1>0, <2>1, <2>5, <2>6, <2>7 DEF QueueInv
<1>5. CASE UNCHANGED Queue!vars
  BY <1>0, <1>5 DEF Queue!vars, QueueInv, Queue!TypeOK, NothingNewer, OldestFirst, UploadBegan
<1> QED
  BY <1>1, <1>2, <1>3, <1>4, <1>5 DEF Queue!Next

\* The invariant of the queue holds at first.
LEMMA QueueInit == Queue!Init => QueueInv
<1> SUFFICES ASSUME Queue!Init PROVE QueueInv
  OBVIOUS
<1>1. launched \in Seq(Specs) /\ Len(launched) = 0
  BY DEF Queue!Init
<1>2. applied \in [Specs -> 0..Len(launched)]
  BY <1>1 DEF Queue!Init
<1> QED
  BY <1>1, <1>2 DEF Queue!Init, QueueInv, Queue!TypeOK, NothingNewer, OldestFirst, UploadBegan

\* The invariant holds in every reachable state.
THEOREM QueueInvariance == Queue!Spec => []QueueInv
<1>1. QueueInv /\ [Queue!Next]_(Queue!vars) => QueueInv'
  BY QueueStep
<1> QED
  BY QueueInit, <1>1, PTL DEF Queue!Spec

\* setup-queue never replaces a newer specification by an older one, although it
\* applies files again after errors and reboots and new ones arrive in between.
THEOREM NeverRollsBack == Queue!Spec => NoRollback
<1>1. QueueInv /\ [Queue!Next]_(Queue!vars) => [\A s \in Specs : applied'[s] >= applied[s]]_(Queue!vars)
  BY QueueStep
<1> QED
  BY <1>1, QueueInvariance, PTL DEF Queue!Spec, NoRollback, Queue!NoRollback
-----------------------------------------------------------------------------
(* The DNS monitor *)

\* The gauges that the cycle has set since it began, and those of the last whole cycle.
DnsOrder ==
    /\ clock > 0 /\ stamp <= clock /\ monRecency <= clock
    /\ stamp = 0 => unvisited = {}
    /\ stamp # 0 => monRecency <= stamp
    /\ scrape.settled # NoValue => scrape.settled <= monRecency
\* The gauges of these hosts were set at t or after it.
VisitedSince(t, hosts) ==
    \A h \in hosts : internalCheck[h] # NoValue /\ lookedUp[h] \in Nat /\ lookedUp[h] >= t

DnsInv ==
    /\ Dns!TypeOK /\ DnsOrder
    /\ \A h \in Hostnames : internalCheck[h] # NoValue => lookedUp[h] \in Nat
    /\ stamp # 0 => VisitedSince(stamp, Hostnames \ unvisited)
    /\ monRecency # 0 => VisitedSince(monRecency, Hostnames)
    /\ ScrapedMetricsAreRecent

\* The DNS monitor's invariant holds at first.
LEMMA DnsInit == Dns!Init => DnsInv
  BY ServicesAssumption DEF Dns!Init, DnsInv, Dns!TypeOK, Dns!Times, Dns!NoScrape, DnsOrder,
     VisitedSince,
     ScrapedMetricsAreRecent, Dns!ScrapedMetricsAreRecent

\* Every step of the monitor, of a scrape and of DNS keeps it.
LEMMA DnsNext == DnsInv /\ [Dns!Next]_(Dns!vars) => DnsInv'
  <1> SUFFICES ASSUME DnsInv, [Dns!Next]_(Dns!vars) PROVE DnsInv'
    OBVIOUS
  <1> USE ServicesAssumption DEF DnsInv, Dns!TypeOK, Dns!Times, DnsOrder, VisitedSince,
     ScrapedMetricsAreRecent, Dns!ScrapedMetricsAreRecent
  <1>1. CASE Dns!StartCycle
    BY <1>1 DEF Dns!StartCycle
  <1>2. CASE Dns!EndCycle
    BY <1>2 DEF Dns!EndCycle
  <1>3. CASE Dns!BeginScrape
    BY <1>3 DEF Dns!BeginScrape, Dns!NoScrape
  <1>4. CASE Dns!ReadRecency
    BY <1>4 DEF Dns!ReadRecency
  <1>5. CASE Dns!Tick
    BY <1>5 DEF Dns!Tick
  <1>6. CASE Dns!RestartPod
    BY <1>6 DEF Dns!RestartPod, Dns!Change, Dns!Fresh, Dns!NoScrape
  <1>7. ASSUME NEW h \in Hostnames, Dns!Lookup(h) PROVE DnsInv'
    BY <1>7 DEF Dns!Lookup
  <1>8. ASSUME NEW h \in Hostnames, Dns!ReadGauge(h) PROVE DnsInv'
    <2>1. /\ scrape.settled # NoValue /\ internalCheck[h] # NoValue
          /\ scrape' = [scrape EXCEPT !.at = [scrape.at EXCEPT ![h] = lookedUp[h]]]
          /\ UNCHANGED <<clock, dnsChanges, resolves, stamp, unvisited, internalCheck, lookedUp, monRecency>>
      BY <1>8 DEF Dns!ReadGauge
    <2>2. /\ scrape'.settled = scrape.settled /\ scrape'.recency = scrape.recency
          /\ scrape'.at = [scrape.at EXCEPT ![h] = lookedUp[h]]
      BY <2>1
    <2>3. Dns!TypeOK'
      BY <2>1
    <2>4. DnsOrder'
      BY <2>1, <2>2
    <2>5. ScrapedMetricsAreRecent'
      <3> SUFFICES ASSUME scrape.settled \in Nat \ {0}, NEW g \in Hostnames
                   PROVE  /\ internalCheck[g] # NoValue
                          /\ scrape'.at[g] # NoValue => scrape'.at[g] >= scrape.settled
        BY <2>1, <2>2
      <3>1. scrape.settled <= monRecency /\ monRecency \in Nat /\ monRecency # 0
        BY <2>1
      <3>2. internalCheck[g] # NoValue /\ lookedUp[g] \in Nat /\ lookedUp[g] >= monRecency
        BY <3>1
      <3> QED
        BY <2>2, <3>1, <3>2
    <2> QED
      BY <2>1, <2>3, <2>4, <2>5
  <1>9. ASSUME NEW h \in Hostnames, Dns!DnsChanges(h) PROVE DnsInv'
    BY <1>9 DEF Dns!DnsChanges, Dns!Change
  <1>10. CASE UNCHANGED Dns!vars
    BY <1>10 DEF Dns!vars
  <1> QED
    BY <1>1, <1>2, <1>3, <1>4, <1>5, <1>6, <1>7, <1>8, <1>9, <1>10 DEF Dns!Next

\* A scrape that says when the gauges were last settled has every gauge, and none
\* of its values is older.
THEOREM ScrapesAreRecent == Dns!Spec => []ScrapedMetricsAreRecent
  BY DnsInit, DnsNext, PTL DEF Dns!Spec, DnsInv
-----------------------------------------------------------------------------
(* The services of a node *)

\* keyclient is the first to know that both files are whole; autostart only follows it,
\* and services only follow autostart.  While a file is missing or being written,
\* nothing that depends on it has begun, and after that nothing writes it.
WrittenOnce ==
    /\ \A f \in Node!Files : conf[f] \in {Node!Missing, Node!Whole(f)} \/ writing = f
    /\ writing # "none" => ~Node!AllWhole
    /\ ~Node!AllWhole => keyserverUp
FollowsKeyclient ==
    /\ keyclient = "ready" => Node!AllWhole
    /\ autostart \in {"start", "enable"} => Node!AllWhole
    /\ \A s \in Node!Services : s \in enabled \/ unit[s] # "inactive" => Node!AllWhole

NodeTyped == Node!TypeOK /\ conf = [f \in Node!Files |-> conf[f]]
CalmInv == calm => WrittenOnce /\ FollowsKeyclient /\ \A s \in Node!Services : got[s] = "whole"
NodeInv == NodeTyped /\ CalmInv

\* Every name that a launcher asks for is the name of a line.
LEMMA LinesHaveNames ==
    ASSUME NEW s,
           NEW v \in Node!Formatted(s) \cup Node!Sourced(s) \cup Node!ForKubeconfig(s)
                     \cup {<<"local", "KIND">>}
    PROVE  /\ v[1] \in Node!Files
           /\ Node!LineOf(v[1], v[2]) \in 1..Len(Node!Lines[v[1]])
<1>1. v \in {<<"cluster", "APISERVER">>, <<"cluster", "APISERVER_COUNT">>,
             <<"cluster", "CLUSTER_CIDR">>, <<"cluster", "CLUSTER_DOMAIN">>,
             <<"cluster", "ETCD_CLUSTER">>, <<"cluster", "ETCD_ENDPOINTS">>,
             <<"cluster", "ETCD_TOKEN">>, <<"cluster", "SERVICE_CIDR">>, <<"cluster", "SERVICE_DNS">>,
             <<"local", "HOST_NODE">>, <<"local", "HOST_IP">>, <<"local", "SCHEDULE_WORK">>,
             <<"local", "KIND">>}
  BY DEF Node!Formatted, Node!Sourced, Node!ForKubeconfig
<1>2. v[1] \in {"cluster", "local"} /\ Node!Files = {"cluster", "local"}
  BY <1>1 DEF Node!Files, Node!Lines
<1>3. \E i \in 1..Len(Node!Lines[v[1]]) : Node!Lines[v[1]][i] = v[2]
  <2>1. CASE v[1] = "cluster"
    <3>1. Node!Lines["cluster"] = Node!cluster_conf /\ Len(Node!cluster_conf) = 11
      BY DEF Node!Lines, Node!cluster_conf
    <3>2. v[2] \in {Node!cluster_conf[1], Node!cluster_conf[2], Node!cluster_conf[3],
                    Node!cluster_conf[4], Node!cluster_conf[6], Node!cluster_conf[7],
                    Node!cluster_conf[8], Node!cluster_conf[10], Node!cluster_conf[11]}
      BY <1>1, <2>1 DEF Node!cluster_conf
    <3> QED
      BY <2>1, <3>1, <3>2
  <2>2. CASE v[1] = "local"
    <3>1. Node!Lines["local"] = Node!LocalConf /\ Len(Node!LocalConf) = 5
      BY DEF Node!Lines, Node!LocalConf
    <3>2. v[2] \in {Node!LocalConf[1], Node!LocalConf[3], Node!LocalConf[4], Node!LocalConf[5]}
      BY <1>1, <2>2 DEF Node!LocalConf
    <3> QED
      BY <2>2, <3>1, <3>2
  <2> QED
    BY <1>2, <2>1, <2>2
<1>4. DOMAIN Node!Lines[v[1]] = 1..Len(Node!Lines[v[1]])
  BY <1>2 DEF Node!Lines, Node!cluster_conf, Node!LocalConf
<1> QED
  BY <1>2, <1>3, <1>4 DEF Node!LineOf

\* A launcher that reads whole files gets whole values, and its checks pass.
LEMMA WholeFiles ==
    ASSUME Node!AllWhole, NEW s
    PROVE  /\ Node!Worst(Node!Values(Node!Checked(s))) = "whole"
           /\ \A got_s : Node!Worst({got_s} \cup Node!Values(Node!ForKubeconfig(s))) = Node!Worst({got_s})
           /\ \A f \in Node!Files : Node!Readable(f)
<1>0. \A f \in Node!Files : conf[f].lines = Len(Node!Lines[f]) /\ conf[f].then = "nothing"
  <2> TAKE f \in Node!Files
  <2>1. conf[f] = [lines |-> Len(Node!Lines[f]), then |-> "nothing"]
    BY DEF Node!AllWhole, Node!Whole
  <2> QED
    BY <2>1
<1>1. ASSUME NEW v \in Node!Formatted(s) \cup Node!Sourced(s) \cup Node!ForKubeconfig(s)
      PROVE  Node!Value(v[1], v[2]) = "whole"
  <2>1. /\ v[1] \in Node!Files
        /\ Node!LineOf(v[1], v[2]) \in 1..Len(Node!Lines[v[1]])
    BY LinesHaveNames
  <2> QED
    BY <1>0, <2>1 DEF Node!Value
<1>2. /\ Node!Values(Node!Checked(s)) \subseteq {"whole"}
      /\ Node!Values(Node!ForKubeconfig(s)) \subseteq {"whole"}
  BY <1>1 DEF Node!Values, Node!Checked
<1>3. \A f \in Node!Files : Node!Readable(f)
  BY <1>0 DEF Node!Readable
<1> QED
  BY <1>2, <1>3 DEF Node!Worst

\* The worst of the values that a service is started with.
LEMMA WorstTyped ==
    ASSUME NEW set
    PROVE  /\ Node!Worst(set) \in {"whole", "cut", "empty", "missing"}
           /\ (Node!Worst(set) = "missing" <=> "missing" \in set)
  BY DEF Node!Worst

\* A file that is being written is not whole.
LEMMA TornIsNotWhole ==
    ASSUME NEW f \in Node!Files, NEW t \in Node!Torn(f)
    PROVE  t # Node!Whole(f)
<1>1. Len(Node!Lines[f]) \in Nat
  BY DEF Node!Files, Node!Lines, Node!cluster_conf, Node!LocalConf
<1> QED
  BY <1>1 DEF Node!Torn, Node!Whole

\* The invariant of a node's services holds at first.
LEMMA NodeInit == Node!Init => NodeInv
  <1> SUFFICES ASSUME Node!Init PROVE NodeInv
    OBVIOUS
  <1>1. {keyserverUp, admitted, completed, calm} \subseteq BOOLEAN
    BY Zenon DEF Node!Init
  <1>2. 1 \in DOMAIN Stanzas
    BY ServicesAssumption
  <1>3. NodeTyped
    BY <1>1, <1>2, ServicesAssumption DEF Node!Init, NodeTyped, Node!TypeOK
  <1>4. WrittenOnce /\ FollowsKeyclient
    BY DEF Node!Init, WrittenOnce, FollowsKeyclient
  <1> QED
    BY <1>3, <1>4 DEF Node!Init, NodeInv, CalmInv

\* Every step of autostart, the keyclient and a launcher keeps the types, and so does
\* every mishap.
LEMMA NodeTypedNext == NodeTyped /\ [Node!Next]_(Node!vars) => NodeTyped'
  <1> SUFFICES ASSUME NodeTyped, [Node!Next]_(Node!vars) PROVE NodeTyped'
    OBVIOUS
  <1> USE ServicesAssumption DEF NodeTyped, Node!TypeOK, Node!boot, Node!files,
     Node!units, Node!Mishap, Node!Exits
  <1>1. CASE Node!AutostartBegins
    BY <1>1 DEF Node!AutostartBegins
  <1>2. CASE Node!StartStanza
    BY <1>2 DEF Node!StartStanza
  <1>3. CASE Node!EnableStanza
    <2>1. completed' \in BOOLEAN
      BY <1>3, Zenon DEF Node!EnableStanza, Node!NextStanza
    <2>2. Stanzas[stanza] \subseteq Node!Services
      BY DEF Node!Services
    <2>3. enabled' \subseteq Node!Services
      BY <1>3, <2>2 DEF Node!EnableStanza
    <2>4. stanza' \in DOMAIN Stanzas /\ autostart' \in {"start", "ended", "failed"}
      BY <1>3 DEF Node!EnableStanza, Node!NextStanza
    <2> QED
      BY <1>3, <2>1, <2>3, <2>4 DEF Node!EnableStanza
  <1>4. CASE Node!Admit
    BY <1>4 DEF Node!Admit
  <1>5. CASE Node!EndWrite
    <2>1. calm' \in BOOLEAN
      BY <1>5, Zenon DEF Node!EndWrite
    <2> QED
      BY <1>5, <2>1 DEF Node!EndWrite
  <1>6. CASE Node!KeyclientReady
    BY <1>6 DEF Node!KeyclientReady
  <1>7. ASSUME NEW f \in Node!Files, Node!BeginWrite(f) PROVE NodeTyped'
    <2>1. calm' \in BOOLEAN
      BY <1>7, Zenon DEF Node!BeginWrite
    <2> QED
      BY <1>7, <2>1 DEF Node!BeginWrite
  <1>8. ASSUME NEW f \in Node!Files, Node!RefreshDue(f) PROVE NodeTyped'
    BY <1>8 DEF Node!RefreshDue
  <1>9. ASSUME NEW s \in Node!Services, Node!LaunchChecks(s) PROVE NodeTyped'
    <2>1. Node!MayPass(s) => Node!Worst(Node!Values(Node!Checked(s))) \in {"whole", "cut", "empty"}
      <3>1. Node!Values(Node!Checked(s)) = Node!Values(Node!Formatted(s)) \cup Node!Values(Node!Sourced(s))
        BY DEF Node!Values, Node!Checked
      <3> QED
        BY <3>1, WorstTyped DEF Node!MayPass
    <2> QED
      BY <1>9, <2>1 DEF Node!LaunchChecks
  <1>10. ASSUME NEW s \in Node!Services, Node!LaunchRuns(s) PROVE NodeTyped'
    <2>1. ASSUME NEW names, names = {} \/ Node!Worst(Node!Values(names)) # "missing"
          PROVE  Node!Worst({got[s]} \cup Node!Values(names)) \in {"whole", "cut", "empty"}
      BY <2>1, WorstTyped DEF Node!Values
    <2> QED
      BY <1>10, <2>1 DEF Node!LaunchRuns
  <1>11. ASSUME NEW s \in Node!Services, Node!ServiceExits(s) PROVE NodeTyped'
    BY <1>11 DEF Node!ServiceExits
  <1>12. CASE Node!KeyclientFails
    <2>1. calm' \in BOOLEAN
      BY <1>12, Zenon DEF Node!KeyclientFails
    <2> QED
      BY <1>12, <2>1 DEF Node!KeyclientFails
  <1>13. CASE Node!KeyserverChanges
    <2>1. calm' \in BOOLEAN /\ keyserverUp' \in BOOLEAN
      BY <1>13, Zenon DEF Node!KeyserverChanges
    <2> QED
      BY <1>13, <2>1 DEF Node!KeyserverChanges
  <1>14. CASE Node!Reboot
    <2>1. calm' \in BOOLEAN
      BY <1>14, Zenon DEF Node!Reboot
    <2> QED
      BY <1>14, <2>1 DEF Node!Reboot
  <1>15. CASE UNCHANGED Node!vars
    BY <1>15 DEF Node!vars
  <1> QED
    BY <1>1, <1>2, <1>3, <1>4, <1>5, <1>6, <1>7, <1>8, <1>9, <1>10, <1>11, <1>12, <1>13, <1>14, <1>15
       DEF Node!Next, Node!Autostart, Node!Keyclient, Node!Launcher

\* Every step keeps the order of keyclient, autostart and services, until one that
\* disturbs it.
LEMMA CalmNext == NodeInv /\ [Node!Next]_(Node!vars) => CalmInv'
  <1> SUFFICES ASSUME NodeInv, [Node!Next]_(Node!vars), calm'
               PROVE  (WrittenOnce /\ FollowsKeyclient /\ \A s \in Node!Services : got[s] = "whole")'
    BY DEF CalmInv
  <1>0. /\ WrittenOnce /\ FollowsKeyclient /\ \A s \in Node!Services : got[s] = "whole"
        /\ Node!TypeOK /\ calm
    <2>1. calm
      BY DEF Node!Next, Node!Autostart, Node!Keyclient, Node!Launcher, Node!AutostartBegins,
         Node!StartStanza, Node!EnableStanza, Node!Admit, Node!EndWrite, Node!KeyclientReady,
         Node!BeginWrite, Node!RefreshDue, Node!LaunchChecks, Node!LaunchRuns, Node!ServiceExits,
         Node!KeyclientFails, Node!KeyserverChanges, Node!Reboot, Node!vars, Node!files
    <2> QED
      BY <2>1 DEF NodeInv, NodeTyped, CalmInv
  <1> USE <1>0 DEF WrittenOnce, FollowsKeyclient, Node!boot, Node!files, Node!units
  <1>1. CASE Node!AutostartBegins
    BY <1>1 DEF Node!AutostartBegins, Node!AllWhole
  <1>2. CASE Node!StartStanza
    BY <1>2 DEF Node!StartStanza, Node!AllWhole
  <1>3. CASE Node!EnableStanza
    BY <1>3 DEF Node!EnableStanza, Node!NextStanza, Node!AllWhole
  <1>4. CASE Node!Admit
    BY <1>4 DEF Node!Admit, Node!AllWhole
  <1>5. CASE Node!EndWrite
    <2>1. writing \in Node!Files /\ conf' = [conf EXCEPT ![writing] = Node!Whole(writing)]
          /\ writing' = "none" /\ ~Node!AllWhole
          /\ UNCHANGED <<keyserverUp, keyclient, autostart, enabled, unit, got>>
      BY <1>5 DEF Node!EndWrite, Node!TypeOK
    <2>2. /\ \A f \in Node!Files : conf'[f] \in {Node!Missing, Node!Whole(f)}
          /\ keyclient # "ready" /\ autostart \notin {"start", "enable"}
          /\ \A s \in Node!Services : s \notin enabled /\ unit[s] = "inactive"
      BY <2>1 DEF NodeInv, NodeTyped
    <2> QED
      BY <2>1, <2>2 DEF Node!AllWhole
  <1>6. CASE Node!KeyclientReady
    <2>1. Node!AllWhole
      BY <1>6 DEF Node!KeyclientReady, Node!AllWhole, Node!Files, Node!Lines
    <2>2. Node!AllWhole'
      BY <1>6, <2>1 DEF Node!KeyclientReady, Node!AllWhole
    <2> QED
      BY <1>6, <2>1, <2>2 DEF Node!KeyclientReady
  <1>7. ASSUME NEW f \in Node!Files, Node!BeginWrite(f)
        PROVE  (WrittenOnce /\ FollowsKeyclient /\ \A s \in Node!Services : got[s] = "whole")'
    <2>1. PICK t \in Node!Torn(f) : conf' = [conf EXCEPT ![f] = t]
      BY <1>7 DEF Node!BeginWrite
    <2>2. /\ conf[f] = Node!Missing /\ writing = "none" /\ writing' = f
          /\ UNCHANGED <<keyserverUp, keyclient, autostart, enabled, unit, got>>
      BY <1>7 DEF Node!BeginWrite
    <2>3. ~Node!AllWhole
      <3>1. Node!Missing # Node!Whole(f)
        BY DEF Node!Missing, Node!Whole
      <3> QED
        BY <2>2, <3>1 DEF Node!AllWhole
    <2>4. conf'[f] = t /\ \A g \in Node!Files : g # f => conf'[g] = conf[g]
      BY <2>1 DEF NodeInv, NodeTyped
    <2>5. ~Node!AllWhole'
      BY <2>4, TornIsNotWhole DEF Node!AllWhole
    <2>6. \A g \in Node!Files : conf[g] \in {Node!Missing, Node!Whole(g)}
      BY <2>2 DEF Node!Files, Node!Lines
    <2> QED
      BY <2>2, <2>3, <2>4, <2>5, <2>6
  <1>8. ASSUME NEW f \in Node!Files, Node!RefreshDue(f)
        PROVE  (WrittenOnce /\ FollowsKeyclient /\ \A s \in Node!Services : got[s] = "whole")'
    BY <1>8 DEF Node!RefreshDue, Node!AllWhole
  <1>9. ASSUME NEW s \in Node!Services, Node!LaunchChecks(s)
        PROVE  (WrittenOnce /\ FollowsKeyclient /\ \A r \in Node!Services : got[r] = "whole")'
    <2>1. Node!AllWhole
      BY <1>9 DEF Node!LaunchChecks
    <2>2. got'[s] = "whole" /\ \A r \in Node!Services : r # s => got'[r] = got[r]
      BY <1>9, <2>1, WholeFiles DEF Node!LaunchChecks, Node!Exits, Node!TypeOK
    <2>3. Node!AllWhole' /\ UNCHANGED <<conf, writing, keyserverUp, keyclient, autostart, enabled>>
      BY <1>9, <2>1 DEF Node!LaunchChecks, Node!AllWhole
    <2> QED
      BY <2>1, <2>2, <2>3
  <1>10. ASSUME NEW s \in Node!Services, Node!LaunchRuns(s)
         PROVE  (WrittenOnce /\ FollowsKeyclient /\ \A r \in Node!Services : got[r] = "whole")'
    <2>1. Node!AllWhole
      BY <1>10 DEF Node!LaunchRuns
    <2>2. Node!Worst({got[s]} \cup Node!Values(Node!ForKubeconfig(s))) = "whole"
      BY <2>1, WholeFiles DEF Node!Worst
    <2>3. got'[s] = "whole" /\ \A r \in Node!Services : r # s => got'[r] = got[r]
      BY <1>10, <2>2 DEF Node!LaunchRuns, Node!Exits, Node!TypeOK
    <2>4. Node!AllWhole' /\ UNCHANGED <<conf, writing, keyserverUp, keyclient, autostart, enabled>>
      BY <1>10, <2>1 DEF Node!LaunchRuns, Node!AllWhole
    <2> QED
      BY <2>1, <2>3, <2>4
  <1>11. ASSUME NEW s \in Node!Services, Node!ServiceExits(s)
         PROVE  (WrittenOnce /\ FollowsKeyclient /\ \A r \in Node!Services : got[r] = "whole")'
    BY <1>11 DEF Node!ServiceExits, Node!Exits, Node!TypeOK, Node!AllWhole
  <1>12. CASE Node!KeyclientFails
    BY <1>12 DEF Node!KeyclientFails, Node!AllWhole
  <1>13. CASE Node!KeyserverChanges
    BY <1>13 DEF Node!KeyserverChanges, Node!AllWhole
  <1>14. CASE Node!Reboot
    BY <1>14 DEF Node!Reboot, Node!AllWhole
  <1>15. CASE UNCHANGED Node!vars
    BY <1>15 DEF Node!vars, Node!AllWhole
  <1> QED
    BY <1>1, <1>2, <1>3, <1>4, <1>5, <1>6, <1>7, <1>8, <1>9, <1>10, <1>11, <1>12, <1>13, <1>14, <1>15
       DEF Node!Next, Node!Autostart, Node!Keyclient, Node!Launcher

\* Every step keeps the invariant of a node's services.
LEMMA NodeNext == NodeInv /\ [Node!Next]_(Node!vars) => NodeInv'
  BY NodeTypedNext, CalmNext DEF NodeInv

\* Without a disturbance of the two files, no service is given a cut or empty value.
THEOREM LaunchesAreWhole == Node!FairSpec => []WholeValuesUnlessDisturbed
  <1>1. NodeInv => WholeValuesUnlessDisturbed
    BY DEF NodeInv, CalmInv, WholeValuesUnlessDisturbed, Node!WholeValuesUnlessDisturbed
  <1> QED
    BY NodeInit, NodeNext, <1>1, PTL DEF Node!FairSpec
-----------------------------------------------------------------------------
(* The types of etcd's exporter and of the auth monitor *)

\* The exporter's types hold at first.
LEMMA EtcdInit == Etcd!Init => Etcd!TypeOK
  BY ServicesAssumption DEF Etcd!Init, Etcd!TypeOK

\* Every step keeps the exporter's types.
LEMMA EtcdNext == Etcd!TypeOK /\ [Etcd!Next]_(Etcd!vars) => Etcd!TypeOK'
  <1> SUFFICES ASSUME Etcd!TypeOK, [Etcd!Next]_(Etcd!vars) PROVE Etcd!TypeOK'
    OBVIOUS
  <1> USE ServicesAssumption DEF Etcd!TypeOK, Etcd!environment, Etcd!Change
  <1>1. CASE Etcd!AskVersion \/ Etcd!GetVersion \/ Etcd!GetVersionFails
    BY <1>1 DEF Etcd!AskVersion, Etcd!GetVersion, Etcd!GetVersionFails, Etcd!Decide
  <1>2. CASE Etcd!DeleteOld \/ Etcd!SetNew \/ Etcd!Gather
    BY <1>2 DEF Etcd!DeleteOld, Etcd!SetNew, Etcd!Gather
  <1>3. CASE Etcd!EtcdChanges \/ Etcd!CertExpires \/ Etcd!RestartExporter
    <2>1. CASE Etcd!EtcdChanges
      BY <2>1 DEF Etcd!EtcdChanges
    <2>2. CASE Etcd!CertExpires
      <3>1. certValid' \in BOOLEAN
        BY <2>2, Zenon DEF Etcd!CertExpires
      <3> QED
        BY <2>2, <3>1 DEF Etcd!CertExpires
    <2>3. CASE Etcd!RestartExporter
      BY <2>3 DEF Etcd!RestartExporter
    <2> QED
      BY <1>3, <2>1, <2>2, <2>3
  <1>4. CASE UNCHANGED Etcd!vars
    BY <1>4 DEF Etcd!vars
  <1> QED
    BY <1>1, <1>2, <1>3, <1>4 DEF Etcd!Next, Etcd!Loop

\* The auth monitor's types hold at first.
LEMMA AuthInit == Auth!Init => Auth!TypeOK
  <1> SUFFICES ASSUME Auth!Init PROVE Auth!TypeOK
    OBVIOUS
  <1>1. hostCA \in BOOLEAN
    BY Zenon DEF Auth!Init
  <1>2. /\ setup \in (SUBSET Machines) \cup {Unexposed}
        /\ accessible \subseteq Machines /\ hung \subseteq Auth!Hangable /\ todo \subseteq Machines
    BY DEF Auth!Init
  <1>3. sshCheck \in [Machines -> {0, 1, Unexposed}]
    BY DEF Auth!Init, Auth!NoServers
  <1> QED
    BY <1>1, <1>2, <1>3 DEF Auth!Init, Auth!TypeOK

\* Every step keeps the auth monitor's types.
LEMMA AuthNext == Auth!TypeOK /\ [Auth!Next]_(Auth!vars) => Auth!TypeOK'
  <1> SUFFICES ASSUME Auth!TypeOK, [Auth!Next]_(Auth!vars) PROVE Auth!TypeOK'
    OBVIOUS
  <1> USE DEF Auth!TypeOK, Auth!world, Auth!locals, Auth!gauges, Auth!Probe, Auth!Return,
     Auth!NoServers
  <1>1. CASE Auth!GetPubkey
    <2>1. \/ hostCA' = TRUE \/ hostCA' = FALSE \/ hostCA' = hostCA
      <3>1. CASE "hostCA" \in up
        BY <1>1, <3>1 DEF Auth!GetPubkey
      <3>2. CASE "hostCA" \notin up
        BY <1>1, <3>2 DEF Auth!GetPubkey
      <3> QED
        BY <3>1, <3>2
    <2>2. hostCA' \in BOOLEAN
      BY <2>1, Zenon DEF Auth!TypeOK
    <2> QED
      BY <1>1, <2>2 DEF Auth!GetPubkey
  <1>2. CASE Auth!Unreachable
    BY <1>2 DEF Auth!Unreachable
  <1>3. CASE Auth!GetStatic \/ Auth!AttemptKAuth \/ Auth!AttemptSSHAcquire
    BY <1>3 DEF Auth!GetStatic, Auth!AttemptKAuth, Auth!AttemptSSHAcquire
  <1>4. CASE Auth!LoadSpireSetup \/ Auth!EndCycle
    BY <1>4 DEF Auth!LoadSpireSetup, Auth!EndCycle
  <1>5. ASSUME NEW m \in Machines, Auth!Inaccessible(m) \/ Auth!AttemptSSHAccess(m) PROVE Auth!TypeOK'
    BY <1>5 DEF Auth!Inaccessible, Auth!AttemptSSHAccess, Auth!SetServer
  <1>6. CASE Auth!Change
    BY <1>6 DEF Auth!Change, Auth!Flip
  <1>7. ASSUME NEW m \in Auth!Hangable, Auth!Resume(m) PROVE Auth!TypeOK'
    BY <1>7 DEF Auth!Resume
  <1>8. CASE Auth!Restart
    <2>1. hostCA' \in BOOLEAN
      BY <1>8, Zenon DEF Auth!Restart
    <2>2. sshCheck' \in [Machines -> {0, 1, Unexposed}]
      BY <1>8 DEF Auth!Restart
    <2> QED
      BY <1>8, <2>1, <2>2 DEF Auth!Restart
  <1>9. CASE UNCHANGED Auth!vars
    BY <1>9 DEF Auth!vars
  <1> QED
    BY <1>1, <1>2, <1>3, <1>4, <1>5, <1>6, <1>7, <1>8, <1>9 DEF Auth!Next, Auth!Cycle
-----------------------------------------------------------------------------
(* All of them *)

\* The variables of a component that does not run stay as they are.
LEMMA OthersStay ==
    /\ UNCHANGED pullVars => UNCHANGED Pull!vars
    /\ UNCHANGED authVars => UNCHANGED Auth!vars
    /\ UNCHANGED queueVars => UNCHANGED Queue!vars
    /\ UNCHANGED dnsVars => UNCHANGED Dns!vars
    /\ UNCHANGED etcdVars => UNCHANGED Etcd!vars
    /\ UNCHANGED nodeVars => UNCHANGED Node!vars
<1>1. UNCHANGED pullVars => UNCHANGED Pull!vars
  BY DEF pullVars, Pull!vars, Pull!runtime, Pull!gauges, Pull!history
<1>2. UNCHANGED authVars => UNCHANGED Auth!vars
  BY DEF authVars, Auth!vars, Auth!world, Auth!locals, Auth!gauges
<1>3. UNCHANGED queueVars => UNCHANGED Queue!vars
  BY DEF queueVars, Queue!vars
<1>4. UNCHANGED dnsVars => UNCHANGED Dns!vars
  BY DEF dnsVars, Dns!vars
<1>5. UNCHANGED etcdVars => UNCHANGED Etcd!vars
  BY DEF etcdVars, Etcd!vars, Etcd!environment
<1>6. UNCHANGED nodeVars => UNCHANGED Node!vars
  BY DEF nodeVars, Node!vars, Node!boot, Node!files, Node!units
<1> QED
  BY <1>1, <1>2, <1>3, <1>4, <1>5, <1>6

\* The services only ever have values of their types, whichever of them runs.
THEOREM ServicesTyped == MCSpec => []MCTypeOK
  <1> DEFINE All == Inv /\ Pull!TypeOK /\ PullInv /\ LeaksOK /\ Auth!TypeOK /\ QueueInv /\ DnsInv
                    /\ Etcd!TypeOK /\ NodeInv
  <1>1. MCInit => All
    BY InitInv, PullInit, AuthInit, QueueInit, DnsInit, EtcdInit, NodeInit DEF MCInit
  <1>2. [MCNext]_allvars =>
          /\ [Next]_vars /\ [Pull!Next]_(Pull!vars) /\ [Auth!Next]_(Auth!vars)
          /\ [Queue!Next]_(Queue!vars) /\ [Dns!Next]_(Dns!vars) /\ [Etcd!Next]_(Etcd!vars)
          /\ [Node!Next]_(Node!vars)
    <2> SUFFICES ASSUME [MCNext]_allvars
                 PROVE  /\ [Next]_vars /\ [Pull!Next]_(Pull!vars) /\ [Auth!Next]_(Auth!vars)
                        /\ [Queue!Next]_(Queue!vars) /\ [Dns!Next]_(Dns!vars) /\ [Etcd!Next]_(Etcd!vars)
                        /\ [Node!Next]_(Node!vars)
      OBVIOUS
    <2>1. CASE OnlyCert /\ Next
      BY <2>1, OthersStay, Zenon DEF OnlyCert
    <2>2. CASE OnlyPull /\ Pull!Next
      BY <2>2, OthersStay, Zenon DEF OnlyPull
    <2>3. CASE OnlyAuth /\ Auth!Next
      BY <2>3, OthersStay, Zenon DEF OnlyAuth
    <2>4. CASE OnlyQueue /\ Queue!Next
      BY <2>4, OthersStay, Zenon DEF OnlyQueue
    <2>5. CASE OnlyDns /\ Dns!Next
      BY <2>5, OthersStay, Zenon DEF OnlyDns
    <2>6. CASE OnlyEtcd /\ Etcd!Next
      BY <2>6, OthersStay, Zenon DEF OnlyEtcd
    <2>7. CASE OnlyNode /\ Node!Next
      BY <2>7, OthersStay, Zenon DEF OnlyNode
    <2>8. CASE UNCHANGED allvars
      BY <2>8, OthersStay, Zenon DEF allvars
    <2> QED
      BY <2>1, <2>2, <2>3, <2>4, <2>5, <2>6, <2>7, <2>8 DEF MCNext
  <1>3. All /\ [MCNext]_allvars => All'
    BY <1>2, NextInv, PullNext, AuthNext, QueueStep, DnsNext, EtcdNext, NodeNext
  <1>4. All => MCTypeOK
    BY DEF MCTypeOK, Inv, QueueInv, DnsInv, NodeInv, NodeTyped
  <1> QED
    BY <1>1, <1>3, <1>4, PTL DEF MCSpec
=============================================================================
