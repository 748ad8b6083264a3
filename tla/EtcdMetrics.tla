---------------------------- MODULE EtcdMetrics ----------------------------
(***************************************************************************)
(* The etcd metrics exporter (etcd-metrics-exporter): on every master, it  *)
(* asks the local etcd for its version again and again and exposes it as a *)
(* label, next to etcd's own metrics, which it fetches for every scrape.   *)
(*                                                                         *)
(* Its HTTP client has no timeout: a request that etcd neither answers nor *)
(* refuses is waited for.  The client certificate is read once, when the   *)
(* exporter starts, and expires; keyclient renews only the file.           *)
(***************************************************************************)
EXTENDS Naturals

CONSTANTS
    Versions,        \* the versions of etcd that are installed over time
    NoVersion,       \* the empty string
    MaxEtcdChanges   \* bound: upgrades, outages, odd answers, expiries and restarts

VARIABLES
    etcdChanges,
    etcd,         \* the version that runs
    etcdState,    \* "up", "refusing" connections, or "silent"
    certValid,    \* the certificate that the exporter has loaded is still valid
    asking,       \* getVersion: "idle", "asked", or the change it makes, "delete" or "set"
    reported,     \* the version that etcd has answered
    lastSeen,     \* lastSeenBinaryVersion
    etcdVersion,  \* the labels of the gauge, each with value 1
    scraped       \* the labels that the last scrape got; a failed one gets none

vars == <<etcdChanges, etcd, etcdState, certValid, asking, reported, lastSeen, etcdVersion, scraped>>
environment == <<etcdChanges, etcd, etcdState, certValid>>

Change == etcdChanges < MaxEtcdChanges /\ etcdChanges' = etcdChanges + 1

\* A request is answered, or is an error, unless etcd is silent.
Answered == etcdState = "up" /\ certValid
Refused == etcdState = "refusing" \/ (etcdState = "up" /\ ~certValid)
-----------------------------------------------------------------------------
(* getVersion *)

AskVersion ==
    /\ asking = "idle"
    /\ asking' = "asked"
    /\ UNCHANGED <<environment, reported, lastSeen, etcdVersion, scraped>>

\* The step that follows the answer v.
Decide(v) ==
    IF v = lastSeen THEN "idle" ELSE IF lastSeen # NoVersion THEN "delete" ELSE "set"

\* The status of the answer is not looked at: JSON of another kind, as of an
\* error, is an empty version.
GetVersion ==
    /\ asking = "asked" /\ Answered
    /\ \/ reported' = etcd /\ UNCHANGED etcdChanges
       \/ reported' = NoVersion /\ Change
    /\ asking' = Decide(reported')
    /\ UNCHANGED <<etcd, etcdState, certValid, lastSeen, etcdVersion, scraped>>

\* The request fails, or what is answered is not JSON.
GetVersionFails ==
    /\ asking = "asked"
    /\ \/ Refused /\ UNCHANGED etcdChanges
       \/ Answered /\ Change
    /\ asking' = "idle"
    /\ UNCHANGED <<etcd, etcdState, certValid, reported, lastSeen, etcdVersion, scraped>>

\* Mutant: the new version is remembered before the old one's metric is deleted.
DeleteReported ==
    /\ asking = "delete"
    /\ IF reported \in etcdVersion
       THEN etcdVersion' = etcdVersion \ {reported} /\ asking' = "set"
       ELSE asking' = "idle" /\ UNCHANGED etcdVersion
    /\ lastSeen' = reported
    /\ UNCHANGED <<environment, reported, scraped>>

\* If the old version has no metric, that is an error, and nothing changes.
DeleteOld ==
    /\ asking = "delete"
    /\ IF lastSeen \in etcdVersion
       THEN etcdVersion' = etcdVersion \ {lastSeen} /\ asking' = "set"
       ELSE asking' = "idle" /\ UNCHANGED etcdVersion
    /\ UNCHANGED <<environment, reported, lastSeen, scraped>>

SetNew ==
    /\ asking = "set"
    /\ etcdVersion' = etcdVersion \cup {reported}
    /\ lastSeen' = reported
    /\ asking' = "idle"
    /\ UNCHANGED <<environment, reported, scraped>>
-----------------------------------------------------------------------------
\* Gather: etcd's own metrics are fetched first, and if that fails so does the
\* scrape.  A scrape of a silent etcd ends by the timeout of Prometheus.
Gather ==
    /\ scraped' = IF Answered THEN etcdVersion ELSE {}
    /\ UNCHANGED <<environment, asking, reported, lastSeen, etcdVersion>>
-----------------------------------------------------------------------------
(* What happens around the exporter *)

EtcdChanges ==
    /\ Change
    /\ \/ etcd' \in Versions \ {etcd} /\ etcdState' = "refusing"
       \/ etcdState' \in {"up", "refusing", "silent"} \ {etcdState} /\ UNCHANGED etcd
    /\ UNCHANGED <<certValid, asking, reported, lastSeen, etcdVersion, scraped>>

CertExpires ==
    /\ Change
    /\ certValid /\ certValid' = FALSE
    /\ UNCHANGED <<etcd, etcdState, asking, reported, lastSeen, etcdVersion, scraped>>

\* systemd starts the exporter again, with the certificate that it finds.
RestartExporter ==
    /\ Change
    /\ certValid' = TRUE
    /\ asking' = "idle" /\ reported' = NoVersion /\ lastSeen' = NoVersion
    /\ etcdVersion' = {}
    /\ UNCHANGED <<etcd, etcdState, scraped>>

Init ==
    /\ etcdChanges = 0
    /\ etcd \in Versions /\ etcdState = "up" /\ certValid = TRUE
    /\ asking = "idle" /\ reported = NoVersion /\ lastSeen = NoVersion
    /\ etcdVersion = {} /\ scraped = {}

Loop == AskVersion \/ GetVersion \/ GetVersionFails \/ DeleteOld \/ SetNew

Next == Loop \/ Gather \/ EtcdChanges \/ CertExpires \/ RestartExporter

\* getVersionPeriodically runs in a goroutine of its own, and Prometheus scrapes
\* again and again.
FairSpec == Init /\ [][Next]_vars /\ WF_vars(Loop) /\ WF_vars(Gather)
-----------------------------------------------------------------------------
(* Properties *)

TypeOK ==
    /\ etcdChanges \in 0..MaxEtcdChanges
    /\ etcd \in Versions /\ certValid \in BOOLEAN
    /\ etcdState \in {"up", "refusing", "silent"}
    /\ asking \in {"idle", "asked", "delete", "set"}
    /\ {reported, lastSeen} \subseteq Versions \cup {NoVersion}
    /\ etcdVersion \subseteq Versions \cup {NoVersion}
    /\ scraped \subseteq Versions \cup {NoVersion}

\* Once etcd stays up with one version, the scrapes end up with that version and
\* no other, over any upgrades, outages and odd answers before: the metric of an
\* old version does not linger, and the exporter does not get stuck on one that it
\* cannot delete.  An empty version may stay behind, and the certificate that the
\* exporter has loaded must be valid; nothing restarts the exporter when it
\* expires.
VersionFollows ==
    \A v \in Versions :
        <>[](etcd = v /\ etcdState = "up" /\ certValid) =>
            <>[](scraped \ {NoVersion} = {v})
=============================================================================
