----------------------------- MODULE ServerCert -----------------------------
(***************************************************************************)
(* The certificate the keyserver presents to its clients                   *)
(* (keysystem/keyserver/keyapi/api.go, GetValidServerCert).                *)
(*                                                                         *)
(* Each TLS handshake calls GetValidServerCert from a goroutine of its     *)
(* own.  CertLock is held over the check of the cached certificate, the    *)
(* signing of a new one and the update of the cache; time passes between   *)
(* these.  A certificate is its NotAfter.                                  *)
(***************************************************************************)
EXTENDS Integers

CONSTANTS
    Handshakes,        \* the goroutines
    RenewalMargin,     \* five minutes
    ValidityInterval,  \* twenty-four hours
    Nobody,            \* the holder of a free lock
    MaxTime            \* bound: last value of the clock

ASSUME MarginAssumption ==
    RenewalMargin \in Nat /\ ValidityInterval \in Nat /\ RenewalMargin < ValidityInterval
ASSUME NobodyAssumption == Nobody \notin Handshakes
ASSUME MaxTimeAssumption == MaxTime \in Nat

VARIABLES
    now,
    CertLock,    \* the goroutine that holds the lock
    ServerCert,  \* k.ServerCert; 0 before the first one
    pc,          \* where each handshake is
    pair,        \* the certificate in the local variable of each handshake
    lastSigned   \* history: NotAfter of the last certificate signed, 0 if none

vars == <<now, CertLock, ServerCert, pc, pair, lastSigned>>

Goto(h, label) == pc' = [pc EXCEPT ![h] = label]

\* Mutant: the lock is not taken.
LockDropped(h) ==
    /\ pc[h] = "idle"
    /\ CertLock' = h
    /\ Goto(h, "check")
    /\ UNCHANGED <<now, ServerCert, pair, lastSigned>>

\* A handshake begins; it waits until the lock is free.
Lock(h) ==
    /\ pc[h] = "idle"
    /\ CertLock = Nobody
    /\ CertLock' = h
    /\ Goto(h, "check")
    /\ UNCHANGED <<now, ServerCert, pair, lastSigned>>

StillValid == ServerCert # 0 /\ now + RenewalMargin < ServerCert

\* Mutant: the lock is given up before the new certificate is signed.
CheckThenUnlock(h) ==
    /\ pc[h] = "check"
    /\ CertLock' = Nobody
    /\ IF StillValid
       THEN pair' = [pair EXCEPT ![h] = ServerCert] /\ Goto(h, "serve")
       ELSE Goto(h, "sign") /\ UNCHANGED pair
    /\ UNCHANGED <<now, ServerCert, lastSigned>>

\* The cached certificate is returned, or a new one has to be signed.
Check(h) ==
    /\ pc[h] = "check"
    /\ \/ /\ StillValid
          /\ pair' = [pair EXCEPT ![h] = ServerCert]
          /\ CertLock' = Nobody
          /\ Goto(h, "serve")
       \/ /\ ~StillValid
          /\ Goto(h, "sign")
          /\ UNCHANGED <<pair, CertLock>>
    /\ UNCHANGED <<now, ServerCert, lastSigned>>

\* Mutant: the validity is counted backwards from the time of issue.
SignBackdated(h) ==
    /\ pc[h] = "sign"
    /\ pair' = [pair EXCEPT ![h] = now - ValidityInterval]
    /\ Goto(h, "store")
    /\ UNCHANGED <<now, CertLock, ServerCert, lastSigned>>

\* ClusterCA.Sign, or an error on the way, which leaves the cache alone.
Sign(h) ==
    /\ pc[h] = "sign"
    /\ \/ /\ pair' = [pair EXCEPT ![h] = now + ValidityInterval]
          /\ lastSigned' = now + ValidityInterval
          /\ Goto(h, "store")
          /\ UNCHANGED CertLock
       \/ /\ CertLock' = Nobody
          /\ Goto(h, "idle")
          /\ UNCHANGED <<pair, lastSigned>>
    /\ UNCHANGED <<now, ServerCert>>

Store(h) ==
    /\ pc[h] = "store"
    /\ ServerCert' = pair[h]
    /\ CertLock' = Nobody
    /\ Goto(h, "serve")
    /\ UNCHANGED <<now, pair, lastSigned>>

\* The handshake goes on with the certificate it got.
Serve(h) ==
    /\ pc[h] = "serve"
    /\ Goto(h, "idle")
    /\ UNCHANGED <<now, CertLock, ServerCert, pair, lastSigned>>

\* The cached certificate is in memory only.
Restart ==
    /\ CertLock' = Nobody /\ ServerCert' = 0 /\ lastSigned' = 0
    /\ pc' = [h \in Handshakes |-> "idle"]
    /\ pair' = [h \in Handshakes |-> 0]
    /\ UNCHANGED now

Tick ==
    /\ now < MaxTime /\ now' = now + 1
    /\ UNCHANGED <<CertLock, ServerCert, pc, pair, lastSigned>>

Init ==
    /\ now = 1
    /\ CertLock = Nobody /\ ServerCert = 0 /\ lastSigned = 0
    /\ pc = [h \in Handshakes |-> "idle"]
    /\ pair = [h \in Handshakes |-> 0]

Next ==
    \/ \E h \in Handshakes : Lock(h) \/ Check(h) \/ Sign(h) \/ Store(h) \/ Serve(h)
    \/ Restart
    \/ Tick

Spec == Init /\ [][Next]_vars
-----------------------------------------------------------------------------
(* Properties *)

TypeOK ==
    /\ now \in Nat
    /\ CertLock \in Handshakes \cup {Nobody}
    /\ ServerCert \in Nat /\ lastSigned \in Nat
    /\ pc \in [Handshakes -> {"idle", "check", "sign", "store", "serve"}]
    /\ pair \in [Handshakes -> Nat]

\* However many handshakes sign certificates while others wait, the cache never goes
\* back to a certificate that expires before the one it has.
CacheNeverGoesBack == [][ServerCert' = 0 \/ ServerCert' >= ServerCert]_vars

\* Handshakes that find the same stale certificate do not each sign a new one:
\* a certificate is only signed once the last one signed is about to expire.
NoWastedSigning ==
    [][lastSigned' # lastSigned /\ lastSigned' # 0 /\ lastSigned # 0
            => now + RenewalMargin >= lastSigned]_vars
=============================================================================
