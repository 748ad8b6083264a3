-------------------------- MODULE UserGrantProofs --------------------------
(***************************************************************************)
(* Proofs about what people get access with: the website, for any number   *)
(* of handlers, users, certificates and failures; the keytabs in an        *)
(* operator's project, for any number of keys and accidents; and the files *)
(* of the kubectl wrapper, for any number of callers and slips.            *)
(***************************************************************************)
EXTENDS MCUserGrant, TLAPS, FiniteSetTheorems
-----------------------------------------------------------------------------
(* The website *)

\* What a request in flight has behind it.
RequestOK(h) ==
    /\ user[h] \in Users
    /\ Admitted(user[h])
    /\ pc[h] \in {"grant", "render"} => Namespace(user[h]) \in namespaces
    /\ pc[h] = "render" => RoleBinding(user[h]) \in bindings

RequestsOK == \A h \in Handlers : pc[h] # "idle" => RequestOK(h)

Inv == TypeOK /\ RequestsOK /\ KubeconfigsWork /\ OnlyTheOwner

\* TypeOK in parts.
Types ==
    /\ now \in Nat /\ faults \in Nat /\ up \in BOOLEAN
    /\ config \in ConfigType
    /\ conn \in [Handlers -> [open : BOOLEAN, certs : SUBSET ClientCerts]]
    /\ pc \in [Handlers -> {"idle", "namespace", "grant", "render"}]
    /\ user \in [Handlers -> Users \cup {NoUser}]
ClusterTypes ==
    /\ namespaces \subseteq {Namespace(u) : u \in Users}
    /\ bindings \subseteq {RoleBinding(u) : u \in Users}
HistoryTypes ==
    /\ authed \subseteq [user : Users, cert : ClientCerts, at : Nat]
    /\ handed \subseteq [user : Users, key : BOOLEAN, cert : BOOLEAN, authority : BOOLEAN, server : BOOLEAN]
DownIsIdle == ~up => \A h \in Handlers : conn[h] = Closed /\ pc[h] = "idle"
-----------------------------------------------------------------------------
\* Objects of different users have different names.
LEMMA NamesDiffer ==
    ASSUME NEW u, NEW v
    PROVE  /\ Namespace(u) = Namespace(v) => u = v
           /\ RoleBinding(u) = RoleBinding(v) => u = v
  BY DEF Namespace, RoleBinding

\* The parts make up TypeOK.
LEMMA TypeParts ==
    /\ TypeOK <=> Types /\ ClusterTypes /\ HistoryTypes /\ DownIsIdle
    /\ TypeOK' <=> (Types /\ ClusterTypes /\ HistoryTypes /\ DownIsIdle)'
  BY Zenon DEF TypeOK, Types, ClusterTypes, HistoryTypes, DownIsIdle

\* A connection that is not open is a connection.
LEMMA ClosedType == Closed \in [open : BOOLEAN, certs : SUBSET ClientCerts]
  BY DEF Closed

\* The invariant holds at first.
LEMMA InitInv == Init => Inv
  <1> SUFFICES ASSUME Init PROVE Inv
    OBVIOUS
  <1>1. Types /\ DownIsIdle
    BY ConfigsAssumption, ClosedType DEF Init, Types, DownIsIdle
  <1>2. ClusterTypes /\ HistoryTypes /\ RequestsOK /\ KubeconfigsWork /\ OnlyTheOwner
    BY DEF Init, ClusterTypes, HistoryTypes, RequestsOK, KubeconfigsWork, OnlyTheOwner
  <1> QED
    BY <1>1, <1>2, TypeParts DEF Inv

\* A step that leaves the cluster, what was handed out and who was let in alone
\* keeps the invariant if it keeps the types and begins no request.
LEMMA QuietStep ==
    ASSUME Inv, Types', DownIsIdle', UNCHANGED <<cluster, history>>,
           \A h \in Handlers : pc'[h] # "idle" =>
                pc[h] = pc'[h] /\ user[h] = user'[h]
    PROVE  Inv'
  <1>1. TypeOK'
    BY TypeParts DEF Inv, TypeOK, Types, ClusterTypes, HistoryTypes, DownIsIdle, cluster, history
  <1>2. RequestsOK'
    BY DEF Inv, RequestsOK, RequestOK, Admitted, cluster, history
  <1>3. KubeconfigsWork'
    BY DEF Inv, KubeconfigsWork, cluster, history
  <1>4. OnlyTheOwner'
    BY DEF Inv, OnlyTheOwner, Admitted, cluster, history
  <1>5. QED
    BY <1>1, <1>2, <1>3, <1>4 DEF Inv

\* Every step keeps the invariant.
LEMMA NextInv == Inv /\ [Next]_vars => Inv'
  <1> SUFFICES ASSUME Inv, [Next]_vars PROVE Inv'
    OBVIOUS
  <1> USE DEF Inv
  <1>0. Types /\ ClusterTypes /\ HistoryTypes /\ DownIsIdle
    BY TypeParts
  <1>1. CASE UNCHANGED vars
    <2>1. Types' /\ DownIsIdle' /\ UNCHANGED <<cluster, history>>
      BY <1>0, <1>1 DEF vars, Types, DownIsIdle
    <2> QED
      BY <2>1, <1>1, QuietStep DEF vars
  <1>2. CASE Launch
    <2>1. Types' /\ DownIsIdle' /\ UNCHANGED <<cluster, history>>
      BY <1>0, <1>2, ConfigsAssumption DEF Launch, Types, DownIsIdle
    <2> QED
      BY <2>1, <1>2, QuietStep DEF Launch
  <1>3. CASE Crash
    <2>1. Types' /\ DownIsIdle' /\ UNCHANGED <<cluster, history>>
      <3>1. conn' \in [Handlers -> [open : BOOLEAN, certs : SUBSET ClientCerts]]
        BY <1>3, ClosedType DEF Crash
      <3>2. Types' /\ UNCHANGED <<cluster, history>>
        <4>1. faults' \in Nat
          BY <1>0, <1>3 DEF Crash, Fault, Types
        <4>2. pc' \in [Handlers -> {"idle", "namespace", "grant", "render"}]
          BY <1>3 DEF Crash
        <4>3. user' \in [Handlers -> Users \cup {NoUser}]
          BY <1>3 DEF Crash
        <4>4. up' \in BOOLEAN /\ UNCHANGED <<now, config, cluster, history>>
          BY <1>3 DEF Crash
        <4> QED
          BY <1>0, <3>1, <4>1, <4>2, <4>3, <4>4 DEF Types
      <3>3. DownIsIdle'
        BY <1>3 DEF Crash, DownIsIdle
      <3> QED
        BY <3>2, <3>3
    <2> QED
      BY <2>1, <1>3, QuietStep DEF Crash
  <1>4. CASE Tick
    <2>1. Types' /\ DownIsIdle' /\ UNCHANGED <<cluster, history>>
      BY <1>0, <1>4 DEF Tick, Types, DownIsIdle
    <2> QED
      BY <2>1, <1>4, QuietStep DEF Tick
  <1>5. ASSUME NEW h \in Handlers, Handshake(h) PROVE Inv'
    <2>1. Types' /\ DownIsIdle' /\ UNCHANGED <<cluster, history>>
      <3>1. PICK k \in [open : BOOLEAN, certs : SUBSET ClientCerts] : conn' = [conn EXCEPT ![h] = k]
        BY <1>5 DEF Handshake
      <3> QED
        BY <1>0, <1>5, <3>1 DEF Handshake, Types, DownIsIdle
    <2> QED
      BY <2>1, <1>5, QuietStep DEF Handshake
  <1>6. ASSUME NEW h \in Handlers, Disconnect(h) PROVE Inv'
    <2>1. Types' /\ DownIsIdle' /\ UNCHANGED <<cluster, history>>
      <3>1. Types' /\ UNCHANGED <<cluster, history>>
        BY <1>0, <1>6, ClosedType DEF Disconnect, Types
      <3>2. DownIsIdle'
        BY <1>0, <1>6 DEF Disconnect, DownIsIdle, Types
      <3> QED
        BY <3>1, <3>2
    <2> QED
      BY <2>1, <1>6, QuietStep DEF Disconnect
  <1>7. ASSUME NEW h \in Handlers, NEW u \in Users, Enter(h, u) PROVE Inv'
    <2>1. PICK c \in ClientCerts :
            Authenticate(h, c, u) /\ authed' = authed \cup {[user |-> u, cert |-> c, at |-> now]}
      BY <1>7 DEF Enter
    <2>2. Types' /\ DownIsIdle' /\ ClusterTypes'
      BY <1>0, <1>7 DEF Enter, Goto, Types, DownIsIdle, ClusterTypes, cluster
    <2>3. HistoryTypes'
      BY <1>0, <1>7, <2>1 DEF Enter, HistoryTypes, Types
    <2>4. Admitted(u)'
      <3> DEFINE a == [user |-> u, cert |-> c, at |-> now]
      <3>1. a \in authed' /\ a.user = u /\ a.cert = c /\ a.at = now
        BY <2>1
      <3>2. ExtractEmail(c, u) /\ c.chain = "direct" /\ now <= c.notAfter
        BY <2>1 DEF Authenticate, Verify
      <3> QED
        BY <3>1, <3>2 DEF Admitted
    <2>5. \A v : Admitted(v) => Admitted(v)'
      BY <2>1 DEF Admitted
    <2>6. RequestsOK'
      BY <1>0, <1>7, <2>4, <2>5 DEF Enter, Goto, RequestsOK, RequestOK, Types, cluster
    <2>7. KubeconfigsWork'
      BY <1>7 DEF Enter, KubeconfigsWork, cluster
    <2>8. OnlyTheOwner'
      BY <1>7, <2>5 DEF Enter, OnlyTheOwner, cluster
    <2> QED
      BY <2>2, <2>3, <2>6, <2>7, <2>8, TypeParts
  <1>8. ASSUME NEW h \in Handlers, CreateNamespace(h) PROVE Inv'
    <2> DEFINE n == Namespace(user[h])
    <2>1. user[h] \in Users /\ Admitted(user[h]) /\ pc[h] # "idle"
      BY <1>8 DEF CreateNamespace, RequestsOK, RequestOK
    <2>2. namespaces' = namespaces \/ namespaces' = namespaces \cup {n}
      BY <1>8 DEF CreateNamespace
    <2>3. pc'[h] \in {"idle", "grant"} /\ (pc'[h] = "grant" => n \in namespaces' /\ user'[h] = user[h])
          /\ \A g \in Handlers \ {h} : pc'[g] = pc[g] /\ user'[g] = user[g]
      BY <1>0, <1>8 DEF CreateNamespace, Goto, Refused, Panics, Done, Types
    <2>4. UNCHANGED <<bindings, history>>
      BY <1>8 DEF CreateNamespace
    <2>5. Types'
      <3>1. faults' \in Nat /\ conn' \in [Handlers -> [open : BOOLEAN, certs : SUBSET ClientCerts]]
        BY <1>0, <1>8, ClosedType DEF CreateNamespace, Refused, Panics, Fault, Types
      <3> QED
        BY <1>0, <1>8, <3>1 DEF CreateNamespace, Goto, Refused, Panics, Done, Types
    <2>6. DownIsIdle'
      BY <1>0, <1>8, <2>1 DEF CreateNamespace, DownIsIdle
    <2>7. ClusterTypes' /\ HistoryTypes'
      BY <1>0, <2>1, <2>2, <2>4 DEF ClusterTypes, HistoryTypes, history
    <2>8. RequestsOK'
      BY <2>1, <2>2, <2>3, <2>4 DEF RequestsOK, RequestOK, Admitted, history
    <2>9. KubeconfigsWork'
      BY <2>2, <2>4 DEF KubeconfigsWork, history
    <2>10. OnlyTheOwner'
      BY <2>1, <2>2, <2>4, NamesDiffer DEF OnlyTheOwner, Admitted, history
    <2> QED
      BY <2>5, <2>6, <2>7, <2>8, <2>9, <2>10, TypeParts
  <1>9. ASSUME NEW h \in Handlers, GrantAccess(h) PROVE Inv'
    <2> DEFINE b == RoleBinding(user[h])
    <2>1. user[h] \in Users /\ Admitted(user[h]) /\ pc[h] # "idle" /\ Namespace(user[h]) \in namespaces
      BY <1>9 DEF GrantAccess, RequestsOK, RequestOK
    <2>2. bindings' = bindings \/ bindings' = bindings \cup {b}
      BY <1>9 DEF GrantAccess
    <2>3. pc'[h] \in {"idle", "render"} /\ (pc'[h] = "render" => b \in bindings' /\ user'[h] = user[h])
          /\ \A g \in Handlers \ {h} : pc'[g] = pc[g] /\ user'[g] = user[g]
      BY <1>0, <1>9 DEF GrantAccess, Goto, Refused, Panics, Done, Types
    <2>4. UNCHANGED <<namespaces, history>>
      BY <1>9 DEF GrantAccess
    <2>5. Types'
      <3>1. faults' \in Nat /\ conn' \in [Handlers -> [open : BOOLEAN, certs : SUBSET ClientCerts]]
        BY <1>0, <1>9, ClosedType DEF GrantAccess, Refused, Panics, Fault, Types
      <3> QED
        BY <1>0, <1>9, <3>1 DEF GrantAccess, Goto, Refused, Panics, Done, Types
    <2>6. DownIsIdle'
      BY <1>0, <1>9, <2>1 DEF GrantAccess, DownIsIdle
    <2>7. ClusterTypes' /\ HistoryTypes'
      BY <1>0, <2>1, <2>2, <2>4 DEF ClusterTypes, HistoryTypes, history
    <2>8. RequestsOK'
      BY <2>1, <2>2, <2>3, <2>4 DEF RequestsOK, RequestOK, Admitted, history
    <2>9. KubeconfigsWork'
      BY <2>2, <2>4 DEF KubeconfigsWork, history
    <2>10. OnlyTheOwner'
      BY <2>1, <2>2, <2>4, NamesDiffer DEF OnlyTheOwner, Admitted, history
    <2> QED
      BY <2>5, <2>6, <2>7, <2>8, <2>9, <2>10, TypeParts
  <1>10. ASSUME NEW h \in Handlers, Render(h) PROVE Inv'
    <2>1. RequestOK(h) /\ pc[h] = "render"
      BY <1>10 DEF Render, CertGen, RequestsOK
    <2>2. PICK signed \in BOOLEAN :
            LET r == [user |-> user[h], key |-> TRUE, cert |-> signed,
                      authority |-> config.kubeCA, server |-> config.apiserver]
            IN  handed' = IF Validate(r) THEN handed \cup {r} ELSE handed
      BY <1>10 DEF Render, CertGen
    <2> DEFINE r == [user |-> user[h], key |-> TRUE, cert |-> signed,
                     authority |-> config.kubeCA, server |-> config.apiserver]
    <2>3. handed' = handed \/ (Validate(r) /\ handed' = handed \cup {r})
      BY <2>2
    <2>4. UNCHANGED <<now, up, config, conn, cluster, authed>>
      BY <1>10 DEF Render, CertGen
    <2>5. Types'
      <3>1. faults' \in Nat
        BY <1>0, <1>10 DEF Render, CertGen, Fault, Types
      <3> QED
        BY <1>0, <1>10, <2>4, <3>1 DEF Render, CertGen, Done, Goto, Types
    <2>6. DownIsIdle'
      BY <1>0, <2>1, <2>4 DEF DownIsIdle
    <2>7. r \in [user : Users, key : BOOLEAN, cert : BOOLEAN, authority : BOOLEAN, server : BOOLEAN]
      <3>1. config.kubeCA \in BOOLEAN /\ config.apiserver \in BOOLEAN /\ user[h] \in Users
        BY <1>0, <2>1 DEF Types, ConfigType, RequestOK
      <3> QED
        BY <3>1
    <2>8. HistoryTypes' /\ ClusterTypes'
      BY <1>0, <2>3, <2>4, <2>7 DEF HistoryTypes, ClusterTypes, cluster
    <2>9. RequestsOK'
      BY <1>0, <1>10, <2>4 DEF Render, CertGen, Done, Goto, Types, RequestsOK, RequestOK, Admitted, cluster
    <2>10. KubeconfigsWork'
      BY <2>1, <2>3, <2>4 DEF KubeconfigsWork, Validate, RequestOK, cluster
    <2>11. OnlyTheOwner'
      BY <2>1, <2>3, <2>4 DEF OnlyTheOwner, Admitted, RequestOK, cluster
    <2> QED
      BY <2>5, <2>6, <2>8, <2>9, <2>10, <2>11, TypeParts
  <1>11. ASSUME NEW h \in Handlers, RenderFails(h) PROVE Inv'
    <2>1. Types' /\ DownIsIdle' /\ UNCHANGED <<cluster, history>>
      BY <1>0, <1>11 DEF RenderFails, Fault, Done, Goto, Types, DownIsIdle
    <2> QED
      BY <1>0, <2>1, <1>11, QuietStep DEF RenderFails, Done, Goto, Types
  <1> QED
    BY <1>1, <1>2, <1>3, <1>4, <1>5, <1>6, <1>7, <1>8, <1>9, <1>10, <1>11 DEF Next, Serve

\* The inductive invariant, for the whole specification.
LEMMA Invariance == Spec => []Inv
  BY InitInv, NextInv, PTL DEF Spec
-----------------------------------------------------------------------------
\* Type correctness; a service that is down serves nobody.
THEOREM TypeCorrect == Spec => []TypeOK
  BY Invariance, PTL DEF Inv

\* HandleRequest only ever answers with a kubeconfig whose namespace and role
\* binding exist and none of whose parts is empty.
THEOREM OnlyWorkingKubeconfigs == Spec => []KubeconfigsWork
  BY Invariance, PTL DEF Inv

\* Namespaces, bindings and kubeconfigs are only made for users who
\* authenticated with a valid certificate in time.
THEOREM GrantsToOwners == Spec => []OnlyTheOwner
  BY Invariance, PTL DEF Inv
-----------------------------------------------------------------------------
(* The keytab *)

\* A set of natural numbers has a least element.
LEMMA LeastNatural ==
    ASSUME NEW T, T \subseteq Nat, T # {}
    PROVE  \E x \in T : \A y \in T : x <= y
  <1> DEFINE R == OpToRel(<, Nat)
  <1>1. IsWellFoundedOn(R, Nat)
    BY NatLessThanWellFounded
  <1>2. \A x, y \in Nat : <<y, x>> \in R <=> y < x
    BY DEF OpToRel
  <1> HIDE DEF R
  <1>3. PICK x \in T : \A y \in T : ~(<<y, x>> \in R)
    BY <1>1, WFMin
  <1>4. \A y \in T : ~(y < x)
    BY <1>2, <1>3
  <1> QED
    BY <1>4

\* A keytab has a newest key.
LEMMA HasNewest ==
    ASSUME NEW S \in SUBSET (1..MaxKeys), S # {}
    PROVE  Keys!Newest(S) \in S /\ \A j \in S : j <= Keys!Newest(S)
  <1> DEFINE T == {n \in Nat : \A j \in S : j <= n}
  <1>1. MaxKeys \in T /\ T \subseteq Nat
    BY KeytabAssumption
  <1>2. PICK m \in T : \A n \in T : m <= n
    BY <1>1, LeastNatural
  <1>3. m \in S
    <2> SUFFICES ASSUME m \notin S PROVE FALSE
      OBVIOUS
    <2>1. \A j \in S : j <= m - 1 /\ m - 1 \in Nat
      BY KeytabAssumption
    <2>2. m - 1 \in T
      BY <2>1
    <2> QED
      BY <1>2, <2>2
  <1> QED
    BY <1>3 DEF Keys!Newest

\* Keytabs are the sets of keys that are not empty.
LEMMA KeytabsType == \A S : S \in Keys!Keytabs <=> S \in SUBSET (1..MaxKeys) /\ S # {}
  BY DEF Keys!Keytabs

\* No file of the project has a key that is newer than the newest one.
NoneNewer == \A k \in 1..MaxKeys : Keys!Holds(source, k) \/ Keys!Holds(target, k) => k <= newest

\* The keys of the decrypted keytab are ones that the KDC has made.
TempKnown == \A k \in 1..MaxKeys : Keys!Holds(temp, k) => k <= kdc

\* What a command has in its hands: gpg refuses to write beside the keytab if a file
\* is there, and so only the keytab itself counts when the file is not.
InHand ==
    /\ doing = "change" => temp = source /\ Keys!IsKeytab(source)
    /\ doing = "encrypt" => Keys!IsKeytab(temp)
    /\ doing = "encrypt" /\ target = NoFile => newest > 0 /\ newest \in temp
    /\ doing \in {"remove", "rename"} => Keys!Holds(target, newest)

\* Without accidents nothing is beside the keytab when a command begins, and what it
\* works on has the key of the KDC.
UpToDate ==
    accidents = 0 =>
        /\ doing \in {"idle", "change", "encrypt"} => target = NoFile
        /\ doing \in {"idle", "change"} /\ newest > 0 => Keys!Holds(source, kdc)
        /\ doing = "encrypt" => kdc \in temp
        /\ doing \in {"remove", "rename"} => Keys!Holds(target, kdc)

KeytabInv ==
    /\ Keys!TypeOK /\ newest <= kdc
    /\ newest > 0 => Keys!Holds(source, newest) \/ Keys!Holds(target, newest)
    /\ NoneNewer /\ TempKnown /\ InHand /\ UpToDate

\* The invariant of the keytab holds at first.
LEMMA KeytabInit == Keys!Init => KeytabInv
  BY KeytabAssumption DEF Keys!Init, KeytabInv, Keys!TypeOK, NoneNewer, TempKnown, InHand, UpToDate, Keys!Holds,
        Keys!IsKeytab

\* Every step of a command, and every accident, keeps the invariant of the keytab.
LEMMA KeytabNext == KeytabInv /\ [Keys!Next]_(Keys!vars) => KeytabInv'
  <1> SUFFICES ASSUME KeytabInv, [Keys!Next]_(Keys!vars) PROVE KeytabInv'
    OBVIOUS
  <1> USE KeytabAssumption DEF KeytabInv
  <1>0. /\ accidents \in 0..MaxAccidents /\ kdc \in 1..MaxKeys /\ newest \in 0..MaxKeys
        /\ Keys!IsKeytab(source) => source \in SUBSET (1..MaxKeys) /\ source # {}
        /\ Keys!IsKeytab(target) => target \in SUBSET (1..MaxKeys) /\ target # {}
        /\ Keys!IsKeytab(temp) => temp \in SUBSET (1..MaxKeys) /\ temp # {}
    <2>1. \A file \in {source, target, temp} : Keys!IsKeytab(file) => file \in SUBSET (1..MaxKeys) /\ file # {}
      BY KeytabsType DEF Keys!TypeOK
    <2> QED
      BY <2>1 DEF Keys!TypeOK
  <1>1. CASE Keys!ImportKeytab
    <2>1. Keys!Newest({kdc}) = kdc
      BY <1>0, HasNewest
    <2>2. {kdc} \notin {NoFile, HalfFile} /\ {kdc} \in Keys!Keytabs
      BY <1>0, KeytabsType
    <2>3. Keys!TypeOK'
      BY <1>0, <1>1, <2>1, <2>2 DEF Keys!ImportKeytab, Keys!Stored, Keys!Accident, Keys!TypeOK, Keys!IsKeytab
    <2>4. NoneNewer' /\ TempKnown' /\ InHand' /\ newest' <= kdc'
      BY <1>0, <1>1, <2>1, <2>2 DEF Keys!ImportKeytab, Keys!Stored, Keys!Accident, Keys!IsKeytab, Keys!Holds,
            NoneNewer, TempKnown, InHand
    <2>5. UpToDate'
      BY <1>0, <1>1, <2>1, <2>2 DEF Keys!ImportKeytab, Keys!Stored, Keys!Accident, Keys!IsKeytab, Keys!Holds,
            UpToDate
    <2>6. (newest > 0 => Keys!Holds(source, newest) \/ Keys!Holds(target, newest))'
      BY <1>0, <1>1, <2>1, <2>2 DEF Keys!ImportKeytab, Keys!Stored, Keys!Accident, Keys!IsKeytab, Keys!Holds
    <2> QED
      BY <2>3, <2>4, <2>5, <2>6
  <1>2. ASSUME NEW o \in {"rotate", "delold"}, Keys!DecryptKeytab(o) PROVE KeytabInv'
    BY <1>2 DEF Keys!DecryptKeytab, Keys!Accident, Keys!Abort, Keys!TypeOK, NoneNewer, TempKnown, InHand, UpToDate,
            Keys!Holds, Keys!IsKeytab, Keys!Keytabs
  <1>3. CASE Keys!ChangeKey
    <2>1. Keys!IsKeytab(temp) /\ temp = source
      BY <1>3 DEF Keys!ChangeKey, InHand
    <2>2. Keys!TypeOK' /\ newest' <= kdc'
      <3>1. Keys!IsKeytab(temp') => temp' \in Keys!Keytabs
        BY <1>0, <1>3, <2>1, KeytabsType DEF Keys!ChangeKey, Keys!Abort, Keys!IsKeytab
      <3> QED
        BY <1>0, <1>3, <3>1 DEF Keys!ChangeKey, Keys!Accident, Keys!Abort, Keys!TypeOK, Keys!IsKeytab
    <2>3. temp' = NoFile \/ (temp' = temp \cup {kdc'} /\ kdc' = kdc + 1 /\ temp' \in SUBSET (1..MaxKeys))
      BY <1>0, <1>3, <2>1 DEF Keys!ChangeKey, Keys!Abort
    <2>4. NoneNewer' /\ TempKnown'
      BY <1>0, <1>3, <2>1, <2>3 DEF Keys!ChangeKey, Keys!IsKeytab, Keys!Holds, NoneNewer, TempKnown
    <2>5. InHand'
      BY <1>0, <1>3, <2>1, <2>3 DEF Keys!ChangeKey, Keys!Abort, Keys!IsKeytab, Keys!Holds, NoneNewer, InHand
    <2>6. UpToDate'
      BY <1>0, <1>3, <2>1, <2>3 DEF Keys!ChangeKey, Keys!Accident, Keys!Abort, Keys!IsKeytab, Keys!Holds, UpToDate
    <2>7. UNCHANGED <<source, target, newest>>
      BY <1>3 DEF Keys!ChangeKey
    <2> QED
      BY <2>2, <2>4, <2>5, <2>6, <2>7 DEF Keys!Holds, Keys!IsKeytab
  <1>4. CASE Keys!DeleteOldKeys
    <2>0. Keys!IsKeytab(temp) /\ temp = source
      BY <1>4 DEF Keys!DeleteOldKeys, InHand
    <2>1. Keys!Newest(temp) \in temp /\ \A j \in temp : j <= Keys!Newest(temp)
      BY <1>0, <2>0, HasNewest
    <2> QED
      BY <1>0, <1>4, <2>0, <2>1 DEF Keys!DeleteOldKeys, Keys!Accident, Keys!Abort, Keys!TypeOK, NoneNewer, TempKnown, InHand, UpToDate,
            Keys!Holds, Keys!IsKeytab, Keys!Keytabs
  <1>5. CASE Keys!Encrypt
    <2>0. Keys!IsKeytab(temp)
      BY <1>5 DEF Keys!Encrypt, InHand
    <2>1. Keys!Newest(temp) \in temp /\ \A j \in temp : j <= Keys!Newest(temp)
      BY <1>0, <2>0, HasNewest
    <2> QED
      BY <1>0, <1>5, <2>0, <2>1 DEF Keys!Encrypt, Keys!Accident, Keys!Abort, Keys!Stored, Keys!TypeOK, NoneNewer, TempKnown, InHand, UpToDate,
            Keys!Holds, Keys!IsKeytab, Keys!Keytabs
  <1>6. CASE Keys!RemoveSource
    BY <1>6 DEF Keys!RemoveSource, Keys!TypeOK, NoneNewer, TempKnown, InHand, UpToDate, Keys!Holds, Keys!IsKeytab
  <1>7. CASE Keys!RenameTarget
    BY <1>7 DEF Keys!RenameTarget, Keys!Abort, Keys!TypeOK, NoneNewer, TempKnown, InHand, UpToDate, Keys!Holds, Keys!IsKeytab
  <1>8. CASE Keys!Interrupt
    BY <1>8 DEF Keys!Interrupt, Keys!Abort, Keys!Accident, Keys!TypeOK, NoneNewer, TempKnown, InHand, UpToDate, Keys!Holds, Keys!IsKeytab
  <1>9. CASE UNCHANGED Keys!vars
    BY <1>9 DEF Keys!vars, Keys!TypeOK, NoneNewer, TempKnown, InHand, UpToDate, Keys!Holds, Keys!IsKeytab
  <1> QED
    BY <1>1, <1>2, <1>3, <1>4, <1>5, <1>6, <1>7, <1>8, <1>9 DEF Keys!Next

\* The newest key that a project ever had of a node is in the keytab or in the file
\* beside it, whatever fails; and it is the key of the KDC if nothing did.
THEOREM KeytabNeverLost == Keys!Spec => []KeytabKept
  <1>1. KeytabInv => KeytabKept
    BY DEF KeytabInv, KeytabKept, Keys!KeytabKept, UpToDate
  <1> QED
    BY KeytabInit, KeytabNext, <1>1, PTL DEF Keys!Spec
-----------------------------------------------------------------------------
(* The files of the kubectl wrapper *)

\* What a caller that replaces the files without another one has written so far.
Progress ==
    \A c \in Callers :
        /\ at[c] \in {"reqcert", "bycert"} => key = pair[c]
        /\ at[c] \in {"getca", "reqca"} => key = pair[c] /\ cert = pair[c]
        /\ at[c] \in {"bykey", "bycert"} => ca = Access!BypassCA

\* One caller at most replaces the files.
Alone == \A c, d \in Access!Rotating : c = d

\* A caller that writes has got a pair.
HasPair ==
    \A c \in Callers :
        at[c] \in {"reqkey", "reqcert", "getca", "reqca", "byca", "bykey", "bycert"} => pair[c] \in Pairs

\* The files belong together; those of etcdctl may have the wrong authority.
Replaced ==
    /\ Access!Rotating = {} /\ key = cert /\ key \in Pairs
    /\ Variant = "kube" => ca = Access!ServerCA

\* The clock moves once at most during a call.
Recent ==
    \A c \in Callers :
        /\ at[c] = "invoke" => age <= RotateInterval /\ (~slept[c] => age < RotateInterval)
        /\ at[c] \in {"getca", "reqca"} => age <= 1 /\ (~slept[c] => age = 0)

AccessInv ==
    /\ Access!TypeOK /\ HasPair /\ Recent
    /\ ~overlapped => Alone /\ Progress
    /\ intact => Replaced

\* There is always a pair that nobody uses.
LEMMA HasNewPair ==
    ASSUME Access!TypeOK
    PROVE  Access!NewPair \in Pairs
  <1> DEFINE used == {pair[c] : c \in Callers}
             n == Cardinality(Callers)
  <1>1. n \in Nat
    BY AccessAssumption, FS_CardinalityType
  <1>2. IsFiniteSet(used) /\ Cardinality(used) <= n /\ Cardinality(used) \in Nat
    <2>1. pair \in Surjection(Callers, used)
      BY DEF Access!TypeOK, Surjection
    <2> QED
      BY <2>1, AccessAssumption, FS_Surjection, FS_CardinalityType
  <1>3. IsFiniteSet({key, cert} \cup used) /\ Cardinality({key, cert} \cup used) <= n + 2
    <2>1. IsFiniteSet(used \cup {key}) /\ Cardinality(used \cup {key}) <= n + 1 /\ Cardinality(used \cup {key}) \in Nat
      <3>1. IsFiniteSet(used \cup {key})
            /\ Cardinality(used \cup {key}) = IF key \in used THEN Cardinality(used) ELSE Cardinality(used) + 1
        BY <1>2, FS_AddElement
      <3> QED
        BY <1>1, <1>2, <3>1, FS_CardinalityType
    <2>2. IsFiniteSet((used \cup {key}) \cup {cert}) /\ Cardinality((used \cup {key}) \cup {cert}) <= n + 2
      BY <1>1, <2>1, FS_AddElement
    <2>3. (used \cup {key}) \cup {cert} = {key, cert} \cup used
      OBVIOUS
    <2> QED
      BY <2>2, <2>3
  <1>4. \E i \in Pairs : i \notin {key, cert} \cup used
    <2> SUFFICES ASSUME Pairs \in SUBSET ({key, cert} \cup used) PROVE FALSE
      OBVIOUS
    <2>1. Cardinality(Pairs) <= n + 2 /\ Cardinality(Pairs) \in Nat
      BY <1>1, <1>3, FS_Subset, FS_CardinalityType, AccessAssumption
    <2> QED
      BY <1>1, <2>1, AccessAssumption
  <1> QED
    BY <1>4 DEF Access!NewPair

\* The invariant of the files holds at first.
LEMMA AccessInit == Access!Init => AccessInv
  <1> SUFFICES ASSUME Access!Init PROVE AccessInv
    OBVIOUS
  <1>1. {gatewayUp, disasterKey, overlapped, intact} \subseteq BOOLEAN
    BY Zenon DEF Access!Init
  <1>2. Access!TypeOK
    BY <1>1, AccessAssumption DEF Access!Init, Access!TypeOK, Access!Labels
  <1> QED
    BY <1>2 DEF Access!Init, AccessInv, HasPair, Recent, Alone, Progress, Replaced, Access!Rotating

\* Every step of a caller, and every slip, keeps the invariant of the files.
LEMMA AccessNext == AccessInv /\ [Access!Next]_(Access!vars) => AccessInv'
  <1> SUFFICES ASSUME AccessInv, [Access!Next]_(Access!vars) PROVE AccessInv'
    OBVIOUS
  <1> USE AccessAssumption DEF AccessInv, Access!TypeOK, HasPair, Recent, Alone, Progress, Replaced,
        Access!Rotating, Access!Labels, Access!Goto, Access!files, Access!environment
  <1>1. ASSUME NEW c \in Callers, Access!Call(c) PROVE AccessInv'
    BY <1>1 DEF Access!Call, Access!Slip
  <1>2. CASE Access!Tick
    <2>1. Access!TypeOK'
      BY <1>2 DEF Access!Tick
    <2>2. HasPair'
      BY <1>2 DEF Access!Tick
    <2>4. Recent'
      <3>1. ASSUME NEW c \in Callers, at[c] # "idle" PROVE ~slept[c] /\ slept'[c] /\ age' <= age + 1
        <4>1. ~slept[c]
          BY <1>2, <3>1 DEF Access!Tick
        <4>2. slept'[c]
          BY <1>2, <3>1, Zenon DEF Access!Tick
        <4>3. age' <= age + 1
          BY <1>2 DEF Access!Tick
        <4> QED
          BY <4>1, <4>2, <4>3
      <3>2. at' = at /\ age' \in Nat
        BY <1>2 DEF Access!Tick
      <3> QED
        BY <3>1, <3>2
    <2>3. (~overlapped => Alone /\ Progress)' /\ (intact => Replaced)'
      BY <1>2 DEF Access!Tick
    <2> QED
      BY <2>1, <2>2, <2>3, <2>4
  <1>3. CASE Access!EnvironmentChanges
    <2>1. gatewayUp' \in BOOLEAN /\ disasterKey' \in BOOLEAN
      BY <1>3, Zenon DEF Access!EnvironmentChanges
    <2> QED
      BY <1>3, <2>1 DEF Access!EnvironmentChanges, Access!Slip
  <1>4. ASSUME NEW c \in Callers, Access!CheckAge(c) PROVE AccessInv'
    <2>0. overlapped' \in BOOLEAN /\ intact' \in BOOLEAN
      BY <1>4, Zenon DEF Access!CheckAge
    <2>1. Access!TypeOK'
      BY <1>4, <2>0 DEF Access!CheckAge
    <2>2. Recent' /\ HasPair'
      BY <1>4 DEF Access!CheckAge, Access!needs_rotate
    <2>3. (intact => Replaced)'
      BY <1>4 DEF Access!CheckAge
    <2>4. (~overlapped => Alone /\ Progress)'
      <3>1. CASE ~Access!needs_rotate
        BY <1>4, <3>1 DEF Access!CheckAge
      <3>2. CASE Access!needs_rotate /\ Access!Rotating = {}
        BY <1>4, <3>2 DEF Access!CheckAge
      <3> QED
        BY <1>4, <3>1, <3>2 DEF Access!CheckAge
    <2> QED
      BY <2>1, <2>2, <2>3, <2>4
  <1>5. ASSUME NEW c \in Callers, Access!RequestCert(c) PROVE AccessInv'
    BY <1>5, HasNewPair DEF Access!RequestCert, Access!Slip
  <1>6. ASSUME NEW c \in Callers, Access!GetPubkey(c) PROVE AccessInv'
    BY <1>6 DEF Access!GetPubkey, Access!Slip
  <1>7. ASSUME NEW c \in Callers, Access!DecryptAuthority(c) PROVE AccessInv'
    BY <1>7, HasNewPair DEF Access!DecryptAuthority
  <1>8. ASSUME NEW c \in Callers, Access!WriteKey(c) PROVE AccessInv'
    BY <1>8 DEF Access!WriteKey, Access!FailFrom, Access!Slip
  <1>9. ASSUME NEW c \in Callers, Access!WriteCert(c) PROVE AccessInv'
    <2>0. overlapped' \in BOOLEAN /\ intact' \in BOOLEAN
      BY <1>9, Zenon DEF Access!WriteCert, Access!Done
    <2>1. Access!TypeOK'
      BY <1>9, <2>0 DEF Access!WriteCert, Access!FailFrom, Access!Slip, Access!Done, Access!BypassCA, Access!KeyreqCA
    <2>2. Recent' /\ HasPair'
      BY <1>9 DEF Access!WriteCert, Access!FailFrom, Access!Done
    <2>3. (~overlapped => Alone /\ Progress)'
      BY <1>9 DEF Access!WriteCert, Access!FailFrom, Access!Done
    <2>4. (intact => Replaced)'
      BY <1>9 DEF Access!WriteCert, Access!FailFrom, Access!Done, Access!BypassCA, Access!ServerCA
    <2> QED
      BY <2>1, <2>2, <2>3, <2>4
  <1>10. ASSUME NEW c \in Callers, Access!WriteCA(c) PROVE AccessInv'
    <2>0. overlapped' \in BOOLEAN /\ intact' \in BOOLEAN
      BY <1>10, Zenon DEF Access!WriteCA, Access!Done
    <2>1. Access!TypeOK'
      BY <1>10, <2>0 DEF Access!WriteCA, Access!FailFrom, Access!Slip, Access!Done, Access!BypassCA, Access!KeyreqCA
    <2>2. Recent' /\ HasPair'
      BY <1>10 DEF Access!WriteCA, Access!FailFrom, Access!Done
    <2>3. (~overlapped => Alone /\ Progress)'
      BY <1>10 DEF Access!WriteCA, Access!FailFrom, Access!Done
    <2>4. (intact => Replaced)'
      <3>1. ~intact
        BY <1>10 DEF Access!WriteCA
      <3>2. CASE intact' /\ at[c] = "reqca"
        <4>1. ~overlapped /\ Access!Rotating = {c} /\ at' = [at EXCEPT ![c] = "invoke"] /\ UNCHANGED <<key, cert>>
          BY <1>10, <3>1, <3>2 DEF Access!WriteCA, Access!Done
        <4>2. ca' = Access!ServerCA
          BY <1>10, <3>1, <3>2 DEF Access!WriteCA, Access!KeyreqCA, Access!ServerCA
        <4>3. key = cert /\ key \in Pairs
          BY <3>2, <4>1
        <4>4. Access!Rotating' = {}
          BY <4>1
        <4> QED
          BY <4>1, <4>2, <4>3, <4>4 DEF Access!ServerCA
      <3> QED
        BY <1>10, <3>1, <3>2 DEF Access!WriteCA
    <2> QED
      BY <2>1, <2>2, <2>3, <2>4
  <1>11. ASSUME NEW c \in Callers, Access!Invoke(c) PROVE AccessInv'
    BY <1>11 DEF Access!Invoke
  <1>12. ASSUME NEW c \in Callers, Access!Interrupt(c) PROVE AccessInv'
    BY <1>12 DEF Access!Interrupt, Access!Slip
  <1>13. CASE UNCHANGED Access!vars
    BY <1>13 DEF Access!vars
  <1> QED
    BY <1>1, <1>2, <1>3, <1>4, <1>5, <1>6, <1>7, <1>8, <1>9, <1>10, <1>11, <1>12, <1>13
       DEF Access!Next, Access!Use, Access!Proceed

\* kubectl has a key, a certificate and an authority that belong together and are
\* valid whenever the last replacement of the files ran to its end alone.
THEOREM UndisturbedAccess ==
    ASSUME Variant = "kube"
    PROVE  Access!FairSpec => []UndisturbedCallsWork
  <1>1. AccessInv => UndisturbedCallsWork
    BY AccessAssumption DEF AccessInv, UndisturbedCallsWork, Access!UndisturbedCallsWork, Access!Works,
       Replaced, Recent, Access!TypeOK
  <1> QED
    BY AccessInit, AccessNext, <1>1, PTL DEF Access!FairSpec
-----------------------------------------------------------------------------
(* All of them *)

\* The variables of a component that does not run stay as they are.
LEMMA OthersStay ==
    /\ UNCHANGED accessVars <=> UNCHANGED Access!vars
    /\ UNCHANGED keytabVars <=> UNCHANGED Keys!vars
  BY DEF accessVars, Access!vars, Access!files, Access!environment, keytabVars, Keys!vars

\* The website, the wrapper and the keytab only ever have values of their types.
THEOREM AllTyped == MCSpec => []MCTypeOK
  <1> DEFINE All == Inv /\ AccessInv /\ KeytabInv
  <1>1. MCInit => All
    BY InitInv, AccessInit, KeytabInit DEF MCInit
  <1>2. All /\ [MCNext]_allvars => All'
    <2> SUFFICES ASSUME All, [MCNext]_allvars PROVE All'
      OBVIOUS
    <2>1. CASE OnlyWebsite /\ Next
      BY <2>1, OthersStay, NextInv, AccessNext, KeytabNext DEF OnlyWebsite
    <2>2. CASE OnlyAccess /\ Access!Next
      BY <2>2, OthersStay, NextInv, AccessNext, KeytabNext DEF OnlyAccess
    <2>3. CASE OnlyKeytab /\ Keys!Next
      BY <2>3, OthersStay, NextInv, AccessNext, KeytabNext DEF OnlyKeytab
    <2>4. CASE UNCHANGED allvars
      BY <2>4, OthersStay, NextInv, AccessNext, KeytabNext DEF allvars
    <2> QED
      BY <2>1, <2>2, <2>3, <2>4 DEF MCNext
  <1>3. All => MCTypeOK
    BY DEF MCTypeOK, Inv, AccessInv, KeytabInv
  <1> QED
    BY <1>1, <1>2, <1>3, PTL DEF MCSpec
=============================================================================
