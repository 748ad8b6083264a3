------------------------- MODULE ServerCertProofs -------------------------
(* Proofs about ServerCert, for any number of concurrent handshakes.          *)
EXTENDS ServerCert, TLAPS

\* CertLock protects everything between the check and the store.
Mutex == \A h \in Handshakes : pc[h] \in {"check", "sign", "store"} => CertLock = h

\* A certificate that was signed and not yet stored is in the hands of the
\* goroutine that holds the lock; otherwise the cache has the last one signed.
CacheIsLast ==
    /\ \A h \in Handshakes : pc[h] = "store" => pair[h] = lastSigned
    /\ (\A h \in Handshakes : pc[h] # "store") => ServerCert = lastSigned

\* The handshake that is about to sign has found the last certificate stale.
SignsStale ==
    \A h \in Handshakes : pc[h] = "sign" =>
        lastSigned = 0 \/ now + RenewalMargin >= lastSigned

\* No certificate outlives one that would be signed now, and the one that is about to
\* be stored outlives the one in the cache.
NoneIsNewer ==
    /\ lastSigned <= now + ValidityInterval
    /\ \A h \in Handshakes : pc[h] = "store" => ServerCert <= pair[h]

Inv == TypeOK /\ Mutex /\ CacheIsLast /\ SignsStale /\ NoneIsNewer

\* The invariant holds initially.
LEMMA InitInv == Init => Inv
  BY MarginAssumption, NobodyAssumption, MaxTimeAssumption
     DEF Init, Inv, TypeOK, Mutex, CacheIsLast, SignsStale, NoneIsNewer

\* Every step of every interleaving keeps the invariant.
LEMMA NextInv == Inv /\ [Next]_vars => Inv'
<1> USE MarginAssumption, NobodyAssumption, MaxTimeAssumption
<1> SUFFICES ASSUME Inv, [Next]_vars PROVE Inv'
  OBVIOUS
<1> USE DEF Inv
<1>1. ASSUME NEW h \in Handshakes, Lock(h) PROVE Inv'
  BY <1>1 DEF Lock, Goto, TypeOK, Mutex, CacheIsLast, SignsStale, NoneIsNewer
<1>2. ASSUME NEW h \in Handshakes, Check(h) PROVE Inv'
  <2>1. CertLock = h /\ \A g \in Handshakes : pc[g] \in {"check", "sign", "store"} => g = h
    BY <1>2 DEF Check, Mutex
  <2>2. ServerCert = lastSigned
    BY <1>2, <2>1 DEF Check, CacheIsLast
  <2> QED
    BY <1>2, <2>1, <2>2
    DEF Check, StillValid, Goto, TypeOK, Mutex, CacheIsLast, SignsStale, NoneIsNewer
<1>3. ASSUME NEW h \in Handshakes, Sign(h) PROVE Inv'
  <2>1. \A g \in Handshakes : pc[g] \in {"check", "sign", "store"} => g = h
    BY <1>3 DEF Sign, Mutex
  <2> QED
    BY <1>3, <2>1
    DEF Sign, Goto, TypeOK, Mutex, CacheIsLast, SignsStale, NoneIsNewer
<1>4. ASSUME NEW h \in Handshakes, Store(h) PROVE Inv'
  <2>1. \A g \in Handshakes : pc[g] \in {"check", "sign", "store"} => g = h
    BY <1>4 DEF Store, Mutex
  <2> QED
    BY <1>4, <2>1
    DEF Store, Goto, TypeOK, Mutex, CacheIsLast, SignsStale, NoneIsNewer
<1>5. ASSUME NEW h \in Handshakes, Serve(h) PROVE Inv'
  BY <1>5 DEF Serve, Goto, TypeOK, Mutex, CacheIsLast, SignsStale, NoneIsNewer
<1>6. CASE Restart
  BY <1>6 DEF Restart, TypeOK, Mutex, CacheIsLast, SignsStale, NoneIsNewer
<1>7. CASE Tick
  BY <1>7 DEF Tick, TypeOK, Mutex, CacheIsLast, SignsStale, NoneIsNewer
<1>8. CASE UNCHANGED vars
  BY <1>8 DEF vars, TypeOK, Mutex, CacheIsLast, SignsStale, NoneIsNewer
<1> QED
  BY <1>1, <1>2, <1>3, <1>4, <1>5, <1>6, <1>7, <1>8 DEF Next

\* The invariant holds in every behaviour.
THEOREM Invariance == Spec => []Inv
  BY InitInv, NextInv, PTL DEF Spec

\* No two handshakes sign a replacement for the same stale certificate.
THEOREM SignsOnlyWhenStale == Spec => NoWastedSigning
<1>1. Inv /\ [Next]_vars =>
        [lastSigned' # lastSigned /\ lastSigned' # 0 /\ lastSigned # 0
            => now + RenewalMargin >= lastSigned]_vars
  <2> SUFFICES ASSUME Inv, Next, lastSigned' # lastSigned, lastSigned' # 0, lastSigned # 0
               PROVE  now + RenewalMargin >= lastSigned
    BY DEF Inv
  <2>1. PICK h \in Handshakes : Sign(h)
    BY DEF Next, Lock, Check, Store, Serve, Restart, Tick
  <2> QED
    BY <2>1 DEF Inv, SignsStale, Sign
<1> QED
  BY <1>1, Invariance, PTL DEF Spec, NoWastedSigning

\* Concurrent renewals never put an older certificate into the cache.
THEOREM CacheOnlyAdvances == Spec => CacheNeverGoesBack
<1>1. Inv /\ [Next]_vars => [ServerCert' = 0 \/ ServerCert' >= ServerCert]_vars
  BY DEF Inv, TypeOK, NoneIsNewer, Next, vars, Lock, Check, Sign, Store, Serve, Restart, Tick
<1> QED
  BY <1>1, Invariance, PTL DEF Spec, CacheNeverGoesBack
=============================================================================
