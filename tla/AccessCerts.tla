---------------------------- MODULE AccessCerts ----------------------------
(***************************************************************************)
(* An operator's access to the cluster: spire's kubectl and etcdctl        *)
(* wrappers keep a key, a certificate and the authority of the server in   *)
(* the project directory, and replace them every two hours of use          *)
(* (spire/src/access.py), by keyreq, which asks the keyserver, or, if that *)
(* fails, by keylocalcert, which signs with the project's own copy of the  *)
(* authority: the local bypass.                                            *)
(*                                                                         *)
(* The three files are written one after the other, in place and without a *)
(* lock.  Whether they are due is judged by the age of the certificate     *)
(* alone.  Any step may fail, commands may be interrupted anywhere, and    *)
(* two of them may run at once.  Time is counted in hours.                 *)
(***************************************************************************)
EXTENDS Naturals

CONSTANTS
    Variant,           \* "kube" or "etcd"
    Callers,           \* invocations of spire that may run at the same time
    Pairs,             \* names for pairs of a key and a certificate, one more than may be in use
    RotateInterval,    \* DEFAULT_ROTATE_INTERVAL
    CertLife,          \* the validity of the certificates
    None, Partial,     \* a file that does not exist, and one that is not whole
    MaxSlips           \* bound: failures, interruptions, outages and overlapping commands

VARIABLES
    slips,
    gatewayUp,    \* the keyserver can be reached and there are Kerberos tickets
    disasterKey,  \* the project's authorities can be decrypted
    key, cert,    \* the files: the pair of a key and its certificate that each belongs to
    ca,           \* the file with the server's authority
    age,          \* hours since the file of the certificate was written
    at,           \* what each caller does
    pair,         \* the pair that it has got
    slept,        \* the clock has moved during its call
    overlapped,   \* history: two callers have replaced the files at once
    intact        \* history: the last replacement went to its end, alone

files == <<key, cert, ca, age>>
environment == <<gatewayUp, disasterKey>>
vars == <<slips, environment, files, at, pair, slept, overlapped, intact>>

Slip == slips < MaxSlips /\ slips' = slips + 1
Goto(c, label) == at' = [at EXCEPT ![c] = label]

Rotating == {c \in Callers : at[c] \notin {"idle", "check", "invoke"}}

\* The authority that signs the certificates of the servers; the one that keyreq
\* asks the keyserver for; and the one that signs the operator's certificate, which
\* the bypass writes (call_kubectl, call_etcdctl).
ServerCA == IF Variant = "kube" THEN "kubernetes" ELSE "etcd-server"
KeyreqCA == IF Variant = "kube" THEN "kubernetes" ELSE "etcd-server"

\* Mutant: kubectl gets the authority of etcd's clients.
EtcdCA == "etcd-client"
BypassCA == IF Variant = "kube" THEN "kubernetes" ELSE "etcd-client"
-----------------------------------------------------------------------------
(* call_kubectl, call_etcdctl *)

\* A second command beside another one is counted.
Call(c) ==
    /\ at[c] = "idle"
    /\ IF \E d \in Callers : at[d] # "idle" THEN Slip ELSE UNCHANGED slips
    /\ Goto(c, "check")
    /\ slept' = [slept EXCEPT ![c] = FALSE]
    /\ UNCHANGED <<environment, files, pair, overlapped, intact>>

\* Mutant: only a certificate that is not there is replaced.
needs_rotate_if_missing == cert = None
needs_rotate == cert = None \/ age >= RotateInterval

CheckAge(c) ==
    /\ at[c] = "check"
    /\ \/ ~needs_rotate /\ Goto(c, "invoke") /\ UNCHANGED <<overlapped, intact>>
       \/ /\ needs_rotate
          /\ Goto(c, "keyreq")
          /\ overlapped' = (Rotating # {})
          /\ intact' = FALSE
    /\ UNCHANGED <<slips, environment, files, pair, slept>>

\* kubectl or etcdctl runs with the three files.
Invoke(c) ==
    /\ at[c] = "invoke"
    /\ Goto(c, "idle")
    /\ pair' = [pair EXCEPT ![c] = None]
    /\ UNCHANGED <<slips, environment, files, slept, overlapped, intact>>

\* The files are replaced.
Done(c) ==
    /\ Goto(c, "invoke")
    /\ intact' = (~overlapped /\ Rotating = {c})
-----------------------------------------------------------------------------
(* refresh_cert *)

\* A new pair.
NewPair == CHOOSE i \in Pairs : i \notin {key, cert} \cup {pair[c] : c \in Callers}

\* keyreq authenticates, generates a key and has it signed.
RequestCert(c) ==
    /\ at[c] = "keyreq"
    /\ \/ /\ gatewayUp /\ UNCHANGED slips
          /\ pair' = [pair EXCEPT ![c] = NewPair]
          /\ Goto(c, "reqkey")
       \/ /\ IF gatewayUp THEN Slip ELSE UNCHANGED slips
          /\ Goto(c, "bypass")
          /\ UNCHANGED pair
    /\ UNCHANGED <<environment, files, slept, overlapped, intact>>

\* The certificate is on disk already when keyreq asks for the authority.
GetPubkey(c) ==
    /\ at[c] = "getca"
    /\ \/ gatewayUp /\ Goto(c, "reqca") /\ UNCHANGED slips
       \/ (IF gatewayUp THEN Slip ELSE UNCHANGED slips) /\ Goto(c, "bypass")
    /\ UNCHANGED <<environment, files, pair, slept, overlapped, intact>>

\* The bypass decrypts the authority, and keylocalcert signs a key of its own.
DecryptAuthority(c) ==
    /\ at[c] = "bypass"
    /\ \/ /\ disasterKey
          /\ pair' = [pair EXCEPT ![c] = NewPair]
          /\ Goto(c, "byca")
       \/ ~disasterKey /\ Goto(c, "idle") /\ UNCHANGED pair
    /\ UNCHANGED <<slips, environment, files, slept, overlapped, intact>>

\* An error of keyreq leads to the bypass, and one of the bypass ends the command.
FailFrom(c) == Slip /\ Goto(c, IF at[c] \in {"reqkey", "reqcert", "reqca"} THEN "bypass" ELSE "idle")

\* The three files are written in place; an error leaves a part.
WriteKey(c) ==
    /\ at[c] \in {"reqkey", "bykey"}
    /\ \/ key' = pair[c] /\ Goto(c, IF at[c] = "reqkey" THEN "reqcert" ELSE "bycert") /\ UNCHANGED slips
       \/ key' = Partial /\ FailFrom(c)
    /\ UNCHANGED <<environment, cert, ca, age, pair, slept, overlapped, intact>>

WriteCert(c) ==
    /\ at[c] \in {"reqcert", "bycert"}
    /\ age' = 0
    /\ \/ /\ cert' = pair[c] /\ UNCHANGED slips
          /\ IF at[c] = "reqcert" THEN Goto(c, "getca") /\ UNCHANGED intact ELSE Done(c)
       \/ cert' = Partial /\ FailFrom(c) /\ UNCHANGED intact
    /\ UNCHANGED <<environment, key, ca, pair, slept, overlapped>>

WriteCA(c) ==
    /\ at[c] \in {"reqca", "byca"}
    /\ \/ /\ ca' = (IF at[c] = "reqca" THEN KeyreqCA ELSE BypassCA) /\ UNCHANGED slips
          /\ IF at[c] = "byca" THEN Goto(c, "bykey") /\ UNCHANGED intact ELSE Done(c)
       \/ ca' = Partial /\ FailFrom(c) /\ UNCHANGED intact
    /\ UNCHANGED <<environment, key, cert, age, pair, slept, overlapped>>
-----------------------------------------------------------------------------
(* What happens around the commands *)

\* The operator interrupts a command, perhaps during a write.
Interrupt(c) ==
    /\ Slip /\ at[c] # "idle" /\ Goto(c, "idle")
    /\ pair' = [pair EXCEPT ![c] = None]
    /\ \/ UNCHANGED files
       \/ at[c] \in {"reqkey", "bykey"} /\ key' = Partial /\ UNCHANGED <<cert, ca, age>>
       \/ at[c] \in {"reqcert", "bycert"} /\ cert' = Partial /\ age' = 0 /\ UNCHANGED <<key, ca>>
       \/ at[c] \in {"reqca", "byca"} /\ ca' = Partial /\ UNCHANGED <<key, cert, age>>
    /\ UNCHANGED <<environment, slept, overlapped, intact>>

\* An hour passes.  No command takes as long as two.
Tick ==
    /\ \A c \in Callers : at[c] # "idle" => ~slept[c]
    /\ slept' = [c \in Callers |-> at[c] # "idle"]
    /\ age' = IF age < CertLife THEN age + 1 ELSE age
    /\ UNCHANGED <<slips, environment, key, cert, ca, at, pair, overlapped, intact>>

\* The keyserver or the tickets come and go, and so does the disaster key.
EnvironmentChanges ==
    /\ Slip
    /\ \/ gatewayUp' = ~gatewayUp /\ UNCHANGED disasterKey
       \/ disasterKey' = ~disasterKey /\ UNCHANGED gatewayUp
    /\ UNCHANGED <<files, at, pair, slept, overlapped, intact>>

Init ==
    /\ slips = 0
    /\ gatewayUp \in BOOLEAN /\ disasterKey \in BOOLEAN
    /\ key = None /\ cert = None /\ ca = None /\ age = CertLife
    /\ at = [c \in Callers |-> "idle"] /\ pair = [c \in Callers |-> None]
    /\ slept = [c \in Callers |-> FALSE]
    /\ overlapped = FALSE /\ intact = FALSE

Proceed(c) ==
    \/ CheckAge(c) \/ RequestCert(c) \/ GetPubkey(c) \/ DecryptAuthority(c)
    \/ WriteKey(c) \/ WriteCert(c) \/ WriteCA(c) \/ Invoke(c)

Use == \E c \in Callers : Call(c)

Next ==
    \/ Use \/ Tick \/ EnvironmentChanges
    \/ \E c \in Callers : Proceed(c) \/ Interrupt(c)

\* Commands come to an end, the operator goes on using them, and time passes.
Fairness == WF_vars(Use) /\ WF_vars(Tick) /\ \A c \in Callers : WF_vars(Proceed(c))

FairSpec == Init /\ [][Next]_vars /\ Fairness
-----------------------------------------------------------------------------
(* Properties *)

Labels == {"idle", "check", "keyreq", "reqkey", "reqcert", "getca", "reqca",
           "bypass", "byca", "bykey", "bycert", "invoke"}

TypeOK ==
    /\ slips \in 0..MaxSlips /\ {gatewayUp, disasterKey, overlapped, intact} \subseteq BOOLEAN
    /\ {key, cert} \subseteq Pairs \cup {None, Partial}
    /\ ca \in {"kubernetes", "etcd-server", "etcd-client", None, Partial}
    /\ age \in 0..CertLife
    /\ at \in [Callers -> Labels] /\ pair \in [Callers -> Pairs \cup {None}]
    /\ slept \in [Callers -> BOOLEAN]

\* With these files the server accepts the operator and the operator the server.
Works == key = cert /\ key \in Pairs /\ ca = ServerCA /\ age < CertLife

\* A command works if the last replacement of the files, by keyreq or by the
\* bypass, possibly after a failed attempt of keyreq, ran to its end and alone: the
\* key belongs to the certificate, the authority is the server's, and two hours
\* are margin enough for the certificate not to expire before it is used.
UndisturbedCallsWork == \A c \in Callers : at[c] = "invoke" /\ intact => Works

\* Whatever interruptions, failures and overlapping commands have left in the
\* files, as long as one of the two ways to a certificate is open for good,
\* commands work again and again, without anyone removing files: a mismatch is not
\* noticed, and it goes away when the certificate is two hours old.
AccessRecovers ==
    (<>[]gatewayUp \/ <>[]disasterKey) => []<>(\E c \in Callers : at[c] = "invoke" /\ Works)
=============================================================================
