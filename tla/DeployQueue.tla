---------------------------- MODULE DeployQueue ----------------------------
(***************************************************************************)
(* The deployment queue: spire uploads Kubernetes specifications into a    *)
(* directory on the supervisor (spire/src/deploy.py), and a systemd timer  *)
(* runs setup-queue, which applies and removes them (setup-queue).         *)
(*                                                                         *)
(* A file is named after the time of its launch, so that names are in the  *)
(* order of the launches; here a file is the number of its launch.  scp    *)
(* writes into the directory that setup-queue reads.  Uploads may break    *)
(* off, calls of kubectl may fail before or after an effect, and the       *)
(* supervisor may be rebooted at any time.                                 *)
(***************************************************************************)
EXTENDS Naturals, Sequences

CONSTANTS
    Specs,        \* the specifications that spire knows
    MaxLaunches,  \* bound: uploads
    MaxErrors     \* bound: failed calls, broken uploads and reboots

VARIABLES
    errors,
    launched,   \* the specification of each launch, a sequence
    files,      \* the files of the queue directory
    whole,      \* the launches whose upload is complete
    uploading,  \* scp is still writing the last launch
    running,    \* what setup-queue does: nothing, apply or remove the next file
    listing,    \* the files of its listing that are still to do
    applied     \* for each specification the launch that the cluster has, 0 for none

vars == <<errors, launched, files, whole, uploading, running, listing, applied>>

NewError == errors < MaxErrors /\ errors' = errors + 1

\* launch_spec: scp creates the file.
BeginUpload(s) ==
    /\ ~uploading /\ Len(launched) < MaxLaunches
    /\ launched' = Append(launched, s)
    /\ files' = files \cup {Len(launched')}
    /\ uploading' = TRUE
    /\ UNCHANGED <<errors, whole, running, listing, applied>>

\* The rest is written, even if the file has been removed from the directory.
EndUpload ==
    /\ uploading /\ uploading' = FALSE
    /\ \/ whole' = whole \cup {Len(launched)} /\ UNCHANGED errors
       \/ NewError /\ UNCHANGED whole
    /\ UNCHANGED <<launched, files, running, listing, applied>>
-----------------------------------------------------------------------------
\* The timer starts DeployAll, which lists the directory, by name, and writes a
\* kubeconfig if there is something to do.
StartQueue ==
    /\ running = "no"
    /\ \/ files = {} /\ UNCHANGED <<errors, listing, running>>
       \/ files # {} /\ listing' = files /\ running' = "apply" /\ UNCHANGED errors
       \/ NewError /\ UNCHANGED <<listing, running>>
    /\ UNCHANGED <<launched, files, whole, uploading, applied>>

\* f is the first file of the listing, by name.
IsNext(f) == f \in listing /\ \A g \in listing : f <= g

Apply(f) == applied' = [applied EXCEPT ![launched[f]] = f]

StopQueue == running' = "no" /\ listing' = {}

\* Mutant: a file that cannot be applied is left for the next run.
DeployOrSkip(f) ==
    /\ running = "apply" /\ IsNext(f)
    /\ \/ /\ Apply(f)
          /\ running' = "remove"
          /\ UNCHANGED <<errors, listing>>
       \/ /\ IF f \in whole THEN NewError ELSE UNCHANGED errors
          /\ UNCHANGED applied
          /\ listing' = listing \ {f}
          /\ running' = IF listing' = {} THEN "no" ELSE "apply"
    /\ UNCHANGED <<launched, files, whole, uploading>>

\* DeploySingle: kubectl applies the file.  Half a file may be taken for a whole
\* one or refused; a failed call may have applied a part.  An error ends the run.
DeploySingle(f) ==
    /\ running = "apply" /\ IsNext(f)
    /\ \/ /\ Apply(f)
          /\ running' = "remove"
          /\ UNCHANGED <<errors, listing>>
       \/ /\ IF f \in whole THEN NewError ELSE UNCHANGED errors
          /\ Apply(f) \/ UNCHANGED applied
          /\ StopQueue
    /\ UNCHANGED <<launched, files, whole, uploading>>

\* Mutant: what has been applied stays in the directory.
KeepFile(f) ==
    /\ running = "remove" /\ IsNext(f)
    /\ listing' = listing \ {f}
    /\ running' = IF listing' = {} THEN "no" ELSE "apply"
    /\ UNCHANGED <<errors, launched, files, whole, uploading, applied>>

\* os.Remove; a failure ends the run as well.
RemoveFile(f) ==
    /\ running = "remove" /\ IsNext(f)
    /\ \/ /\ files' = files \ {f}
          /\ listing' = listing \ {f}
          /\ running' = IF listing' = {} THEN "no" ELSE "apply"
          /\ UNCHANGED errors
       \/ NewError /\ StopQueue /\ UNCHANGED files
    /\ UNCHANGED <<launched, whole, uploading, applied>>

\* The supervisor is rebooted.
Reboot ==
    /\ NewError
    /\ uploading' = FALSE
    /\ StopQueue
    /\ UNCHANGED <<launched, files, whole, applied>>

Init ==
    /\ errors = 0
    /\ launched = <<>> /\ files = {} /\ whole = {} /\ uploading = FALSE
    /\ running = "no" /\ listing = {}
    /\ applied = [s \in Specs |-> 0]

Next ==
    \/ \E s \in Specs : BeginUpload(s)
    \/ EndUpload
    \/ StartQueue
    \/ \E f \in listing : DeploySingle(f) \/ RemoveFile(f)
    \/ Reboot

Spec == Init /\ [][Next]_vars

\* The timer starts setup-queue again and again, and its calls end.
Run == StartQueue \/ \E f \in listing : DeploySingle(f) \/ RemoveFile(f)
FairSpec == Spec /\ WF_vars(Run)
-----------------------------------------------------------------------------
(* Properties *)

TypeOK ==
    /\ errors \in Nat
    /\ launched \in Seq(Specs)
    /\ files \subseteq 1..Len(launched) /\ whole \subseteq 1..Len(launched)
    /\ listing \subseteq files /\ uploading \in BOOLEAN
    /\ running \in {"no", "apply", "remove"}
    /\ applied \in [Specs -> 0..Len(launched)]

\* An older specification never replaces a newer one of the same name, although
\* files are applied again after errors and reboots and new ones arrive during a
\* run: nothing is applied while an older file is left.
NoRollback == [][\A s \in Specs : applied'[s] >= applied[s]]_vars

\* Whatever failed before, the queue gets empty by itself once no upload is under
\* way and every file in it is whole.  A file whose upload broke off may be refused
\* for ever, and then nothing behind it is applied.
QueueDrains == <>[](~uploading /\ files \subseteq whole) => <>[](files = {})
=============================================================================
