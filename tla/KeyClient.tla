----------------------------- MODULE KeyClient -----------------------------
(***************************************************************************)
(* The keyclient of one node (keysystem/keyclient and the list of actions  *)
(* in keysystem/worldconfig/keyclient.go).                                 *)
(*                                                                         *)
(* One goroutine goes through ConvergeState again and again.  The actions  *)
(* of the list communicate through files and through ClientState.  A       *)
(* request and its answer, the removal of the token, and the two ends of a *)
(* file write are separate steps: the process can crash, and the clock and *)
(* the keyserver can change, between any two of them.                      *)
(*                                                                         *)
(* The keyserver is seen through its answers.  A fault is a crash, an      *)
(* answer lost after the server acted, an I/O error, or a bootstrap token  *)
(* that expires; an outage of the server is not a fault.                   *)
(***************************************************************************)
EXTENDS Integers, Sequences

CONSTANTS
    ConvergeState,  \* the actions of a pass: each is of a kind and about a certificate,
                    \* by its API, or about a file
    OpenFiles,      \* the downloads that need no authentication
    Intended,       \* the APIs this node's account has privileges for
    Life,           \* Life[c]: validity of a signed certificate, in days
    InAdvance,      \* InAdvance[c]: how long before its expiry it is renewed
    Refresh,        \* Refresh[d]: age at which a download is repeated
    RetryAfter,     \* pause after an API was forbidden
    MaxOutage,      \* assumed: days without one undisturbed pass
    MaxFaults,      \* bound: number of faults
    MaxTokens,      \* bound: number of bootstrap tokens the operator provides
    MaxTime         \* bound: last value of the clock, by the number of faults

VARIABLES
    now, up, lastGood,       \* the clock, the keyserver, the last undisturbed pass
    faults, placed,          \* counters: faults, tokens provided
    token, key, cert, file,  \* files: bootstrap token, keys, certificates, downloads
    hostname,                \* the node's, as it should be, "cut", or another
    Keygrant, RetryAt,       \* ClientState
    pos, stage, reply,       \* the action being run, where in it, the certificate received
    performed, blocked,      \* NewActionContext
    wasStabilized, began, good, \* Run: its local variable, start and luck of this pass
    ready,                   \* systemd was notified
    refused                  \* history: when this process was last refused an API

environment == <<now, up, lastGood, placed>>
disk == <<token, key, cert, file, hostname>>
memory == <<Keygrant, RetryAt, refused>>
turn == <<pos, stage, reply, performed, blocked>>
loop == <<wasStabilized, began, ready>>
vars == <<environment, faults, good, disk, memory, turn, loop>>

Positions == DOMAIN ConvergeState
Kind == [i \in Positions |-> ConvergeState[i][1]]
Subject == [i \in Positions |-> ConvergeState[i][2]]
End == Len(ConvergeState) + 1

Kinds == {"keygen", "bootstrap", "download", "hostname", "request"}
About(actions, kind) == {actions[i][2] : i \in {j \in DOMAIN actions : actions[j][1] = kind}}

G == "renew-keygrant"
LocalConf == "get-local-config"
Certs == About(ConvergeState, "request")
Downloads == About(ConvergeState, "download")
APIs == Certs \cup (Downloads \ OpenFiles)

\* A certificate is its expiry date; a file that a write has only truncated is
\* Malformed.  A download has a modification time; what is left of a torn one may,
\* in local.conf, hold the beginning of HOST_NODE or all of it.
Absent == -1
Malformed == -2
Tears(d) == IF d = LocalConf THEN {"none", "cut", "name"} ELSE {"none"}

\* A list of actions that fits together: a key is generated for a certificate that is
\* requested, the keygranting certificate alone is bootstrapped, and the hostname is
\* read from a file that is downloaded.
FitsTogether(actions) ==
    /\ actions \in Seq(Kinds \X STRING)
    /\ G \in About(actions, "request")
    /\ About(actions, "keygen") \subseteq About(actions, "request")
    /\ About(actions, "bootstrap") \subseteq {G}
    /\ About(actions, "hostname") \subseteq {LocalConf}
    /\ LocalConf \in About(actions, "download")
    /\ About(actions, "request") \cap About(actions, "download") = {}

ASSUME ConvergeAssumption == FitsTogether(ConvergeState)

\* A certificate is renewed early enough to survive the outages.
ASSUME ConstantsAssumption ==
    /\ LocalConf \notin OpenFiles
    /\ G \in Intended
    /\ MaxOutage \in Nat
    /\ \A c \in Certs : Life[c] \in Nat /\ InAdvance[c] \in Nat
                        /\ MaxOutage < InAdvance[c] /\ InAdvance[c] <= Life[c]
    /\ \A d \in Downloads : Refresh[d] \in Nat
    /\ RetryAfter \in Nat
-----------------------------------------------------------------------------
Doing(kind) == pos \in Positions /\ Kind[pos] = kind
At(kind, s) == Doing(kind) /\ stage = s
Name == Subject[pos]

\* A fault disturbs the pass.
Fault == faults < MaxFaults /\ faults' = faults + 1 /\ good' = FALSE
NoFault == UNCHANGED <<faults, good>>

Goto(s, r) == stage' = s /\ reply' = r /\ UNCHANGED <<pos, performed, blocked>>
Done == pos' = pos + 1 /\ stage' = "act" /\ reply' = Absent

\* Nothing to do, or Errored, which only writes to the log.
Skip == Done /\ UNCHANGED <<performed, blocked>>
NotifyPerformed == Done /\ performed' = TRUE /\ UNCHANGED blocked
Blocked == Done /\ blocked' = TRUE /\ UNCHANGED performed

CanRetry(api) == RetryAt[api] = Absent \/ now > RetryAt[api]

\* The keyserver grants a request made with the certificate in memory.
Accepted(api) == up /\ now <= Keygrant /\ api \in Intended
Forbidden(api) == up /\ now <= Keygrant /\ api \notin Intended

\* A request with the certificate fails.  RetryFailed is called if the caller
\* recognizes the error as an OperationForbidden.
RequestFails(api, recognized) ==
    /\ ~Accepted(api)
    /\ RetryAt' = IF Forbidden(api) /\ recognized
                    THEN [RetryAt EXCEPT ![api] = now + RetryAfter] ELSE RetryAt
    /\ refused' = IF Forbidden(api) THEN [refused EXCEPT ![api] = now] ELSE refused
    /\ Skip /\ NoFault
    /\ UNCHANGED <<disk, Keygrant>>
-----------------------------------------------------------------------------
(* keygen *)

\* A key file that exists, whatever is in it, is left alone.
GenerateKey ==
    /\ At("keygen", "act")
    /\ \/ key[Name] # "absent" /\ Skip /\ UNCHANGED key
       \/ /\ key[Name] = "absent"
          /\ key' = [key EXCEPT ![Name] = "torn"]
          /\ Goto("write", Absent)
    /\ NoFault
    /\ UNCHANGED <<environment, token, cert, file, hostname, memory, loop>>

\* CreateFile ends; it removes the file if the write fails.
CreateFile ==
    /\ At("keygen", "write")
    /\ \/ key' = [key EXCEPT ![Name] = "ok"] /\ NotifyPerformed /\ NoFault
       \/ Fault /\ key' = [key EXCEPT ![Name] = "absent"] /\ Skip
    /\ UNCHANGED <<environment, token, cert, file, hostname, memory, loop>>
-----------------------------------------------------------------------------
(* bootstrap *)

NeedsBootstrap == CanRetry(G) /\ Keygrant = Absent /\ token # "none"

\* Mutant: the token file is removed before the request is made.
SendTokenAfterRemoval ==
    /\ token' = "none"
    /\ \/ up /\ token = "live" /\ Goto("remove", now + Life[G])
       \/ (~up \/ token = "spent") /\ Skip
    /\ NoFault

\* The keyserver signs once for a token, whether or not its answer arrives.
SendToken ==
    \/ /\ up /\ token = "live"
       /\ token' = "spent"
       /\ \/ Goto("remove", now + Life[G]) /\ NoFault
          \/ Fault /\ Skip
    \/ (~up \/ token = "spent") /\ Skip /\ NoFault /\ UNCHANGED token

Bootstrap ==
    /\ At("bootstrap", "act")
    /\ \/ ~NeedsBootstrap /\ Skip /\ NoFault /\ UNCHANGED token
       \/ NeedsBootstrap /\ key[G] = "absent" /\ Blocked /\ NoFault /\ UNCHANGED token
       \/ NeedsBootstrap /\ key[G] = "torn" /\ Skip /\ NoFault /\ UNCHANGED token
       \/ NeedsBootstrap /\ key[G] = "ok" /\ SendToken
    /\ UNCHANGED <<environment, key, cert, file, hostname, memory, loop>>

RemoveToken ==
    /\ At("bootstrap", "remove")
    /\ \/ token' = "none" /\ Goto("write", reply) /\ NoFault
       \/ Fault /\ Skip /\ UNCHANGED token
    /\ UNCHANGED <<environment, key, cert, file, hostname, memory, loop>>
-----------------------------------------------------------------------------
(* keyreq *)

\* Mutant: only a certificate that is there and can be read is renewed.
shouldRegenerateReadable(c) == cert[c] = Absent \/ (cert[c] >= 0 /\ now >= cert[c] - InAdvance[c])

\* Mutant: the margin is not subtracted.
shouldRegenerateLate(c) == cert[c] < 0 \/ now > cert[c]

\* A missing or unreadable certificate, and one that is close to its expiry.
shouldRegenerate(c) == cert[c] < 0 \/ now >= cert[c] - InAdvance[c]

NeedsRequest(c) == CanRetry(c) /\ shouldRegenerate(c)

\* requestSignature does not unwrap the error, and so never recognizes it.
Request ==
    /\ At("request", "act")
    /\ \/ ~NeedsRequest(Name) /\ Skip /\ NoFault /\ UNCHANGED memory
       \/ /\ NeedsRequest(Name)
          /\ Keygrant = Absent \/ key[Name] = "absent"
          /\ Blocked /\ NoFault /\ UNCHANGED memory
       \/ /\ NeedsRequest(Name)
          /\ Keygrant # Absent /\ key[Name] = "torn"
          /\ Skip /\ NoFault /\ UNCHANGED memory
       \/ /\ NeedsRequest(Name)
          /\ Keygrant # Absent /\ key[Name] = "ok"
          /\ \/ /\ Accepted(Name)
                /\ \/ Goto("write", now + Life[Name]) /\ NoFault
                   \/ Fault /\ Skip
                /\ UNCHANGED memory
             \/ RequestFails(Name, FALSE)
    /\ UNCHANGED <<environment, disk, loop>>

\* ioutil.WriteFile of the new certificate, of a renewal or of the bootstrap:
\* it truncates the file first.  On an error the new certificate is dropped.
TruncateCert ==
    /\ At("request", "write") \/ At("bootstrap", "write")
    /\ \/ cert' = [cert EXCEPT ![Name] = Malformed] /\ Goto("close", reply) /\ NoFault
       \/ Fault /\ Skip /\ UNCHANGED cert
    /\ UNCHANGED <<environment, token, key, file, hostname, memory, loop>>

\* The write ends; checkReload or ReplaceKeygrantingCert reloads the
\* keygranting certificate.
CloseCert ==
    /\ At("request", "close") \/ At("bootstrap", "close")
    /\ \/ /\ cert' = [cert EXCEPT ![Name] = reply]
          /\ Keygrant' = IF Name = G THEN reply ELSE Keygrant
          /\ NotifyPerformed /\ NoFault
       \/ Fault /\ Skip /\ UNCHANGED <<cert, Keygrant>>
    /\ UNCHANGED <<environment, token, key, file, hostname, RetryAt, refused, loop>>
-----------------------------------------------------------------------------
(* download and hostname *)

\* Mutant: a file that is there is never fetched again.
needsRefreshNever(d) == file[d].at = Absent

needsRefresh(d) == file[d].at = Absent \/ now - file[d].at > Refresh[d]

Download ==
    /\ At("download", "act")
    /\ \/ ~needsRefresh(Name) /\ Skip /\ NoFault /\ UNCHANGED memory
       \/ /\ needsRefresh(Name) /\ Name \in OpenFiles
          /\ \/ up /\ Goto("write", Absent) /\ NoFault
             \/ ~up /\ Skip /\ NoFault
          /\ UNCHANGED memory
       \/ /\ needsRefresh(Name) /\ Name \notin OpenFiles
          /\ \/ ~CanRetry(Name) /\ Skip /\ NoFault /\ UNCHANGED memory
             \/ CanRetry(Name) /\ Keygrant = Absent /\ Blocked /\ NoFault /\ UNCHANGED memory
             \/ /\ CanRetry(Name) /\ Keygrant # Absent
                /\ \/ Accepted(Name) /\ Goto("write", Absent) /\ NoFault /\ UNCHANGED memory
                   \/ RequestFails(Name, TRUE)
    /\ UNCHANGED <<environment, disk, loop>>

TruncateFile ==
    /\ At("download", "write")
    /\ \/ /\ \E t \in Tears(Name) : file' = [file EXCEPT ![Name] = [at |-> now, text |-> t]]
          /\ Goto("close", Absent) /\ NoFault
       \/ Fault /\ Skip /\ UNCHANGED file
    /\ UNCHANGED <<environment, token, key, cert, hostname, memory, loop>>

\* The write ends.  An error leaves a part of the file, or comes after all of it:
\* close fails, or update-ca-certificates.
CloseFile ==
    LET whole == [file EXCEPT ![Name] = [at |-> now, text |-> "whole"]] IN
    /\ At("download", "close")
    /\ \/ file' = whole /\ NotifyPerformed /\ NoFault
       \/ Fault /\ Skip /\ file' \in {file, whole}
    /\ UNCHANGED <<environment, token, key, cert, hostname, memory, loop>>

\* HOST_NODE as it is read from local.conf.  What precedes the tear may be all of it
\* or the beginning of a name, which is as good as one.
HostNode == CASE file[LocalConf].text \in {"whole", "name"} -> "right"
              [] file[LocalConf].text = "cut" -> "cut"
              [] OTHER -> "none"

\* performReload
ReloadHostname ==
    /\ At("hostname", "act")
    /\ \/ file[LocalConf].at = Absent /\ Blocked /\ NoFault /\ UNCHANGED hostname
       \/ /\ file[LocalConf].at # Absent
          /\ HostNode \in {"none", hostname}
          /\ Skip /\ NoFault /\ UNCHANGED hostname
       \/ /\ file[LocalConf].at # Absent
          /\ HostNode \notin {"none", hostname}
          /\ \/ hostname' = HostNode /\ NotifyPerformed /\ NoFault
             \/ Fault /\ Skip /\ UNCHANGED hostname
    /\ UNCHANGED <<environment, token, key, cert, file, memory, loop>>
-----------------------------------------------------------------------------
(* Run *)

StartPass ==
    /\ pos = 0
    /\ pos' = 1 /\ performed' = FALSE /\ blocked' = FALSE
    /\ began' = now /\ good' = up
    /\ UNCHANGED <<environment, faults, disk, memory, stage, reply, wasStabilized, ready>>

\* onReady is called after the first of a row of passes in which nothing was
\* performed, unless something blocked an action of this pass.
Notifies == ~performed /\ ~wasStabilized /\ ~blocked

\* systemd-notify may fail, which is only logged.
EndPass ==
    /\ pos = End
    /\ pos' = 0
    /\ \/ ready' = (ready \/ Notifies) /\ NoFault
       \/ Notifies /\ Fault /\ UNCHANGED ready
    /\ wasStabilized' = ~performed
    /\ lastGood' = IF good THEN began ELSE lastGood
    /\ UNCHANGED <<now, up, placed, disk, memory, stage, reply, performed, blocked, began>>

\* What ReloadKeygrantingCert finds on the disk.
GrantingCert == IF key[G] = "ok" /\ cert[G] >= 0 THEN cert[G] ELSE Absent

\* systemd starts the process again: NewClientState loads the keygranting certificate
\* from the disk, expired or not.
StartAgain ==
    /\ Keygrant' = GrantingCert
    /\ RetryAt' = [a \in APIs |-> Absent] /\ refused' = [a \in APIs |-> Absent]
    /\ pos' = 0 /\ stage' = "act" /\ reply' = Absent
    /\ performed' = FALSE /\ blocked' = FALSE
    /\ wasStabilized' = FALSE /\ ready' = FALSE
    /\ UNCHANGED <<environment, disk, began>>

\* The process dies.
Crash == Fault /\ StartAgain

\* TimeoutStartSec: systemd kills and restarts a keyclient that is not ready within an
\* hour, while it sleeps between two passes.  (During a pass, that is a crash.)
StartTimeout ==
    /\ pos = 0 /\ ~ready
    /\ good' = FALSE /\ UNCHANGED faults
    /\ StartAgain
-----------------------------------------------------------------------------
(* The environment *)

Outage == up /\ up' = FALSE /\ good' = FALSE
    /\ UNCHANGED <<now, lastGood, placed, faults, disk, memory, turn, loop>>
Recover == ~up /\ up' = TRUE /\ NoFault
    /\ UNCHANGED <<now, lastGood, placed, disk, memory, turn, loop>>

\* An operator puts a token on the node.
PlaceToken ==
    /\ placed < MaxTokens /\ placed' = placed + 1
    /\ token' = "live" /\ NoFault
    /\ UNCHANGED <<now, up, lastGood, key, cert, file, hostname, memory, turn, loop>>

ExpireToken ==
    /\ token = "live" /\ token' = "spent" /\ Fault
    /\ UNCHANGED <<environment, key, cert, file, hostname, memory, turn, loop>>

\* A pass takes minutes: every few days there is one without an outage or a fault.
Tick ==
    /\ now < MaxTime[faults] /\ now - lastGood <= MaxOutage
    /\ now' = now + 1 /\ NoFault
    /\ UNCHANGED <<up, lastGood, placed, disk, memory, turn, loop>>

Init ==
    /\ now = 0 /\ up \in BOOLEAN /\ lastGood = 0 /\ faults = 0 /\ placed = 0
    /\ token = "none"
    /\ key = [c \in Certs |-> IF c \in About(ConvergeState, "keygen") THEN "absent" ELSE "ok"]
    /\ cert = [c \in Certs |-> Absent]
    /\ file = [d \in Downloads |-> [at |-> Absent, text |-> "none"]]
    /\ hostname = "other"
    /\ Keygrant = Absent
    /\ RetryAt = [a \in APIs |-> Absent] /\ refused = [a \in APIs |-> Absent]
    /\ pos = 0 /\ stage = "act" /\ reply = Absent
    /\ performed = FALSE /\ blocked = FALSE
    /\ wasStabilized = FALSE /\ began = 0 /\ good = FALSE /\ ready = FALSE

Act == \/ GenerateKey \/ CreateFile \/ Bootstrap \/ RemoveToken \/ Request
       \/ TruncateCert \/ CloseCert \/ Download \/ TruncateFile \/ CloseFile
       \/ ReloadHostname \/ StartPass \/ EndPass

Next == Act \/ Crash \/ StartTimeout \/ Outage \/ Recover \/ PlaceToken \/ ExpireToken \/ Tick

Spec == Init /\ [][Next]_vars

\* The loop keeps running: its only waits are sleeps and requests with answers
\* or errors.  systemd's hour ends, too, for a process that does not get ready.
Fairness == WF_vars(Act) /\ SF_vars(StartTimeout)
FairSpec == Spec /\ Fairness
-----------------------------------------------------------------------------
(* Properties *)

TypeOK ==
    /\ now \in Nat /\ up \in BOOLEAN /\ lastGood \in 0..now /\ faults \in Nat /\ placed \in Nat
    /\ token \in {"none", "live", "spent"}
    /\ key \in [Certs -> {"absent", "torn", "ok"}]
    /\ cert \in [Certs -> Nat \cup {Absent, Malformed}]
    /\ file \in [Downloads -> [at : Nat \cup {Absent}, text : {"none", "cut", "name", "whole"}]]
    /\ hostname \in {"other", "cut", "right"}
    /\ Keygrant \in Nat \cup {Absent}
    /\ RetryAt \in [APIs -> Nat \cup {Absent}] /\ refused \in [APIs -> Nat \cup {Absent}]
    /\ pos \in 0..End /\ stage \in {"act", "remove", "write", "close"}
    /\ reply \in Nat \cup {Absent}
    /\ performed \in BOOLEAN /\ blocked \in BOOLEAN
    /\ wasStabilized \in BOOLEAN /\ began \in 0..now /\ good \in BOOLEAN /\ ready \in BOOLEAN

\* Without faults, a node that was given a token keeps what it needs to be a
\* member of the cluster: the unspent token, the certificate it was just sent,
\* or a keygranting certificate in memory and, unless it is being written, the
\* same one on the disk.
AdmissionNotLost ==
    (faults = 0 /\ placed > 0) =>
        \/ token = "live"
        \/ Doing("bootstrap") /\ reply # Absent
        \/ Keygrant # Absent /\ (cert[G] = Keygrant \/ (stage = "close" /\ Name = G))

\* The node has no keygranting certificate, or not had this one for a whole
\* undisturbed pass yet.
Unadmitted(since) == Keygrant = Absent \/ Keygrant >= since + Life[G]

\* The certificate that the keyclient makes its requests with never expires: it is
\* renewed in time although the keyserver may be down for MaxOutage days, and
\* whatever crashes and errors there are.  Nor does any other certificate, unless a
\* fault cost the node its keygranting certificate and it is yet to catch up.
RenewedInTime ==
    /\ Keygrant # Absent => now <= Keygrant
    /\ \A c \in Certs : cert[c] >= 0 => now <= cert[c] \/ (faults > 0 /\ Unadmitted(lastGood))

\* A download that a fault has torn looks fresh.  It is replaced at the next
\* refresh after all, outages and further faults included.
Torn(d) == file[d].at # Absent /\ file[d].text # "whole"
TornFilesReplaced ==
    \A d \in Downloads \cap (Intended \cup OpenFiles) : Torn(d) =>
        \/ now - file[d].at <= Refresh[d] + MaxOutage + 1
        \/ d \notin OpenFiles /\ Unadmitted(lastGood)

\* The state at which the keyclient sends a request to this API.
Asks(api) ==
    \/ At("request", "act") /\ Name = api /\ NeedsRequest(api)
       /\ Keygrant # Absent /\ key[api] = "ok"
    \/ At("download", "act") /\ Name = api /\ needsRefresh(api)
       /\ CanRetry(api) /\ Keygrant # Absent
RefusalRespected(api) ==
    Asks(api) => refused[api] = Absent \/ now > refused[api] + RetryAfter

\* The comment on ClientState.RetryAt: the same for every API.
RefusalsRespected == \A a \in APIs : RefusalRespected(a)

\* What the keyclient cannot repair by itself: it has no keygranting certificate, and
\* no live token to get one with or only a torn key to get it for.
NeedsOperator == Keygrant = Absent /\ (token # "live" \/ key[G] = "torn")

\* Ready, with a readable certificate for everything the node is intended to have a
\* certificate and has a whole key for, with the files it is intended to have, and
\* under its own name unless its local.conf is torn.
Settled ==
    /\ ready
    /\ \A c \in Certs \cap Intended : key[c] # "torn" => cert[c] >= 0
    /\ \A d \in Downloads \cap (Intended \cup OpenFiles) : file[d].at # Absent
    /\ hostname = "right" \/ Torn(LocalConf)

\* Once the keyserver stays up, the node ends up settled and stays so, whatever
\* crashes, errors, lost answers and failed notifications there were before and
\* whichever passes they disturbed, unless a fault cost it its admission, or it was
\* never given one.  (TornFilesReplaced is about the torn files.)
Settles == <>[]up => <>[](Settled \/ NeedsOperator)
=============================================================================
