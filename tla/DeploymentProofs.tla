-------------------------- MODULE DeploymentProofs --------------------------
(***************************************************************************)
(* Proofs about module Deployment, for any list of nodes, any number of    *)
(* edits of setup.yaml and any number of faults.  The lists of operations  *)
(* come first: the rest of the proofs use only the order in which they     *)
(* have the operations that matter.                                        *)
(***************************************************************************)
EXTENDS Deployment, TLAPS

\* Where the supervisor sequence checks the certificates of the supervisor.
CertsAt == IF Kerberos THEN 19 ELSE 15

\* The files of the keyserver after their uploads, the fourth operation of both
\* commands at the latest, and after the keyserver was restarted with them.  Up to
\* the check setup.yaml is there as it was when the command started or as it is now,
\* unless it was edited twice.
FilesOK ==
    cmd # "none" =>
        /\ pc >= 1
        /\ pc > 3 => file["cluster.conf"] = Rendered[captured]
        /\ pc > 4 => file["setup.yaml"] \in Versions
        /\ pc > (IF cmd = "supervisor" THEN 6 ELSE 5) => ks \in {Absent, file["setup.yaml"]}
        /\ (edited = 0 /\ pc > 4) => file["setup.yaml"] = captured
        /\ IF cmd = "supervisor" /\ pc > 7
             THEN edited <= 1 => Rendered[file["setup.yaml"]] = Rendered[captured]
             ELSE /\ edited = 0 => project = captured
                  /\ (edited <= 1 /\ pc > 4) => file["setup.yaml"] \in {captured, project}

\* Without faults the keyserver, once it is up, stays up.
KeyserverUp ==
    /\ sshd /\ file["sshd_config"] # Torn
    /\ ks # Absent => file["authorities"] = 1
    /\ completed => ks # Absent
    /\ cmd = "redeploy" => completed
    /\ cmd = "supervisor" => /\ pc > 2 => file["authorities"] = 1
                             /\ pc > 6 => ks # Absent

\* Without faults a keyclient has fetched the user CA before it has a certificate.
UserCAFirst ==
    \A n \in Nodes :
        /\ (granted[n] \/ client[n].at = "grant") => ks # Absent
        /\ (granted[n] /\ client[n].at \in {"conf", "local", "certs"}) => userca[n]
        /\ certs[n] => userca[n]

\* Without faults the old keys are shifted aside only after that.
AccessOK ==
    /\ authkeys \/ (hascert /\ userca[Sup])
    /\ cmd = "supervisor" => /\ pc > CertsAt => certs[Sup]
                             /\ pc > CertsAt + 4 => hascert

\* The four operations for a node of the list.
Current(n) == \E j \in DOMAIN NodeList : NodeList[j] = n /\ pc \in (4*j + 2)..(4*j + 5)
Past(n) == \E j \in DOMAIN NodeList : NodeList[j] = n /\ pc > 4*j + 5

\* A keyclient that was restarted without its files is not ready before it has fetched them.
Prepared(n) ==
    /\ client[n].at \in {"local", "certs"} => conf[n] # Absent
    /\ client[n].at = "certs" => client[n].busy \/ local[n] # Absent
    /\ client[n].ready => conf[n] # Absent /\ local[n] # Absent

\* Without faults and edits a redeployment has reached the nodes that it is past.
NodesOK ==
    (cmd = "redeploy" /\ edited = 0) =>
        /\ \A j \in DOMAIN NodeList : NodeList[j] # Sup =>
            /\ pc \in (4*j + 3)..(4*j + 5) => conf[NodeList[j]] \in {Absent, Rendered[captured]}
            /\ pc \in (4*j + 4)..(4*j + 5) => local[NodeList[j]] \in {Absent, captured}
            /\ pc = 4*j + 5 => Prepared(NodeList[j])
        /\ \A n \in Nodes \ {Sup} : (Past(n) /\ ~Current(n)) => Redeployed(n)

Undisturbed == KeyserverUp /\ UserCAFirst /\ AccessOK /\ NodesOK
IInv == TypeOK /\ FilesOK /\ (faults = 0 => Undisturbed)
-----------------------------------------------------------------------------
(* The lists of operations *)

\* What the proofs use of the operations of the supervisor sequence.
SupervisorStep(i, op) ==
    /\ op[2] = Sup /\ op[1] \notin {"remove", "forget", "skip"}
    /\ i = 2 => op = <<"upload", Sup, "authorities">>
    /\ i = 3 => op = <<"upload", Sup, "cluster.conf">>
    /\ i = 4 => op = <<"upload", Sup, "setup.yaml">>
    /\ i = 6 => op = <<"restart", Sup, "keyserver">>
    /\ i = 7 => op = <<"verify", Sup, "statics">>
    /\ i = CertsAt => op = <<"verify", Sup, "certs">>
    /\ i = CertsAt + 4 => op = <<"access", Sup, "ssh">>
    /\ op[1] = "upload" => i \in {2, 3, 4} \/ op[3] = "sshd_config"
    /\ (op[1] = "restart" /\ op[3] = "keyserver") => i = 6
    /\ (op[1] = "verify" /\ op[3] = "statics") => i = 7
    /\ op[1] = "shift" => i = CertsAt + 7
    /\ op[1] = "enable" => op[3] \in Services
    /\ op[1] = "restart" => op[3] \in Services \cup {"ssh"}

\* The operations of a redeployment.
RedeployStep(i, op) ==
    \/ i = 1 /\ op = <<"remove", Sup, "cluster.conf">>
    \/ i = 2 /\ op = <<"remove", Sup, "setup.yaml">>
    \/ i = 3 /\ op = <<"upload", Sup, "cluster.conf">>
    \/ i = 4 /\ op = <<"upload", Sup, "setup.yaml">>
    \/ i = 5 /\ op = <<"restart", Sup, "keyserver">>
    \/ \E j \in DOMAIN NodeList :
        \/ i = 4*j + 2 /\ op = <<IF NodeList[j] = Sup THEN "skip" ELSE "forget", NodeList[j], "conf">>
        \/ i = 4*j + 3 /\ op = <<"forget", NodeList[j], "local">>
        \/ i = 4*j + 4 /\ op = <<"kick", NodeList[j], "keyclient">>
        \/ i = 4*j + 5 /\ op = <<"await", NodeList[j], "keyclient">>

\* The supervisor sequence of a cluster with Kerberos, operation by operation.
LEMMA KerberosList ==
  ASSUME Kerberos
  PROVE
    /\ Len(sequence_supervisor) = 33 /\ DOMAIN sequence_supervisor = 1..33
    /\ sequence_supervisor[1] = <<"verify", Sup, "ssh">>
    /\ sequence_supervisor[2] = <<"upload", Sup, "authorities">>
    /\ sequence_supervisor[3] = <<"upload", Sup, "cluster.conf">>
    /\ sequence_supervisor[4] = <<"upload", Sup, "setup.yaml">>
    /\ sequence_supervisor[5] = <<"enable", Sup, "keyserver">>
    /\ sequence_supervisor[6] = <<"restart", Sup, "keyserver">>
    /\ sequence_supervisor[7] = <<"verify", Sup, "statics">>
    /\ sequence_supervisor[8] = <<"truncate", Sup, "token">>
    /\ sequence_supervisor[9] = <<"keyinitadmit", Sup, "token">>
    /\ sequence_supervisor[10] = <<"kick", Sup, "keyclient">>
    /\ sequence_supervisor[11] = <<"await", Sup, "keyclient">>
    /\ sequence_supervisor[12] = <<"confirm", Sup, "granting.pem">>
    /\ sequence_supervisor[13] = <<"enable", Sup, "auth-monitor">>
    /\ sequence_supervisor[14] = <<"restart", Sup, "auth-monitor">>
    /\ sequence_supervisor[15] = <<"keytab", Sup, "keytab">>
    /\ sequence_supervisor[16] = <<"enable", Sup, "keygateway">>
    /\ sequence_supervisor[17] = <<"restart", Sup, "keygateway">>
    /\ sequence_supervisor[18] = <<"verify", Sup, "keygateway">>
    /\ sequence_supervisor[19] = <<"verify", Sup, "certs">>
    /\ sequence_supervisor[20] = <<"run", Sup, "prometheus.yaml">>
    /\ sequence_supervisor[21] = <<"enable", Sup, "prometheus">>
    /\ sequence_supervisor[22] = <<"restart", Sup, "prometheus">>
    /\ sequence_supervisor[23] = <<"access", Sup, "ssh">>
    /\ sequence_supervisor[24] = <<"upload", Sup, "sshd_config">>
    /\ sequence_supervisor[25] = <<"restart", Sup, "ssh">>
    /\ sequence_supervisor[26] = <<"shift", Sup, "authorized_keys">>
    /\ sequence_supervisor[27] = <<"verify", Sup, "sshcert">>
    /\ sequence_supervisor[28] = <<"enable", Sup, "docker-registry">>
    /\ sequence_supervisor[29] = <<"restart", Sup, "docker-registry">>
    /\ sequence_supervisor[30] = <<"enable", Sup, "nginx">>
    /\ sequence_supervisor[31] = <<"restart", Sup, "nginx">>
    /\ sequence_supervisor[32] = <<"run", Sup, "push-ocis">>
    /\ sequence_supervisor[33] = <<"run", Sup, "deployqueue">>
  BY DEF sequence_supervisor, sequence_keysystem, setup_keyserver, admit_keyserver,
     setup_keygateway, kick, start, setup_prometheus, sequence_ssh, setup_registry, launch_specs

\* The same without Kerberos.
LEMMA PlainList ==
  ASSUME ~Kerberos
  PROVE
    /\ Len(sequence_supervisor) = 29 /\ DOMAIN sequence_supervisor = 1..29
    /\ sequence_supervisor[1] = <<"verify", Sup, "ssh">>
    /\ sequence_supervisor[2] = <<"upload", Sup, "authorities">>
    /\ sequence_supervisor[3] = <<"upload", Sup, "cluster.conf">>
    /\ sequence_supervisor[4] = <<"upload", Sup, "setup.yaml">>
    /\ sequence_supervisor[5] = <<"enable", Sup, "keyserver">>
    /\ sequence_supervisor[6] = <<"restart", Sup, "keyserver">>
    /\ sequence_supervisor[7] = <<"verify", Sup, "statics">>
    /\ sequence_supervisor[8] = <<"truncate", Sup, "token">>
    /\ sequence_supervisor[9] = <<"keyinitadmit", Sup, "token">>
    /\ sequence_supervisor[10] = <<"kick", Sup, "keyclient">>
    /\ sequence_supervisor[11] = <<"await", Sup, "keyclient">>
    /\ sequence_supervisor[12] = <<"confirm", Sup, "granting.pem">>
    /\ sequence_supervisor[13] = <<"enable", Sup, "auth-monitor">>
    /\ sequence_supervisor[14] = <<"restart", Sup, "auth-monitor">>
    /\ sequence_supervisor[15] = <<"verify", Sup, "certs">>
    /\ sequence_supervisor[16] = <<"run", Sup, "prometheus.yaml">>
    /\ sequence_supervisor[17] = <<"enable", Sup, "prometheus">>
    /\ sequence_supervisor[18] = <<"restart", Sup, "prometheus">>
    /\ sequence_supervisor[19] = <<"access", Sup, "ssh">>
    /\ sequence_supervisor[20] = <<"upload", Sup, "sshd_config">>
    /\ sequence_supervisor[21] = <<"restart", Sup, "ssh">>
    /\ sequence_supervisor[22] = <<"shift", Sup, "authorized_keys">>
    /\ sequence_supervisor[23] = <<"verify", Sup, "sshcert">>
    /\ sequence_supervisor[24] = <<"enable", Sup, "docker-registry">>
    /\ sequence_supervisor[25] = <<"restart", Sup, "docker-registry">>
    /\ sequence_supervisor[26] = <<"enable", Sup, "nginx">>
    /\ sequence_supervisor[27] = <<"restart", Sup, "nginx">>
    /\ sequence_supervisor[28] = <<"run", Sup, "push-ocis">>
    /\ sequence_supervisor[29] = <<"run", Sup, "deployqueue">>
  BY DEF sequence_supervisor, sequence_keysystem, setup_keyserver, admit_keyserver,
     setup_keygateway, kick, start, setup_prometheus, sequence_ssh, setup_registry, launch_specs

\* The order of the supervisor sequence.
LEMMA SupervisorList ==
  \A i \in DOMAIN sequence_supervisor : SupervisorStep(i, sequence_supervisor[i])
<1>1. CASE Kerberos
  <2> SUFFICES ASSUME NEW i \in 1..33
               PROVE SupervisorStep(i, sequence_supervisor[i])
    BY <1>1, KerberosList
  <2> DEFINE op == sequence_supervisor[i]
  <2>1. /\ op[2] = Sup /\ op[1] \notin {"remove", "forget", "skip"}
        /\ op[1] = "upload" => i \in {2, 3, 4} \/ op[3] = "sshd_config"
        /\ (op[1] = "restart" /\ op[3] = "keyserver") => i = 6
        /\ (op[1] = "verify" /\ op[3] = "statics") => i = 7
        /\ op[1] = "shift" => i = CertsAt + 7
    BY <1>1, KerberosList DEF CertsAt
  <2>2. /\ op[1] = "enable" => op[3] \in Services
        /\ op[1] = "restart" => op[3] \in Services \cup {"ssh"}
    BY <1>1, KerberosList DEF Services
  <2>3. /\ i = 2 => op = <<"upload", Sup, "authorities">>
        /\ i = 3 => op = <<"upload", Sup, "cluster.conf">>
        /\ i = 4 => op = <<"upload", Sup, "setup.yaml">>
        /\ i = 6 => op = <<"restart", Sup, "keyserver">>
        /\ i = 7 => op = <<"verify", Sup, "statics">>
        /\ i = CertsAt => op = <<"verify", Sup, "certs">>
        /\ i = CertsAt + 4 => op = <<"access", Sup, "ssh">>
    BY <1>1, KerberosList DEF CertsAt
  <2> HIDE DEF op
  <2> QED
    BY <2>1, <2>2, <2>3 DEF SupervisorStep, op
<1>2. CASE ~Kerberos
  <2> SUFFICES ASSUME NEW i \in 1..29
               PROVE SupervisorStep(i, sequence_supervisor[i])
    BY <1>2, PlainList
  <2> DEFINE op == sequence_supervisor[i]
  <2>1. /\ op[2] = Sup /\ op[1] \notin {"remove", "forget", "skip"}
        /\ op[1] = "upload" => i \in {2, 3, 4} \/ op[3] = "sshd_config"
        /\ (op[1] = "restart" /\ op[3] = "keyserver") => i = 6
        /\ (op[1] = "verify" /\ op[3] = "statics") => i = 7
        /\ op[1] = "shift" => i = CertsAt + 7
    BY <1>2, PlainList DEF CertsAt
  <2>2. /\ op[1] = "enable" => op[3] \in Services
        /\ op[1] = "restart" => op[3] \in Services \cup {"ssh"}
    BY <1>2, PlainList DEF Services
  <2>3. /\ i = 2 => op = <<"upload", Sup, "authorities">>
        /\ i = 3 => op = <<"upload", Sup, "cluster.conf">>
        /\ i = 4 => op = <<"upload", Sup, "setup.yaml">>
        /\ i = 6 => op = <<"restart", Sup, "keyserver">>
        /\ i = 7 => op = <<"verify", Sup, "statics">>
        /\ i = CertsAt => op = <<"verify", Sup, "certs">>
        /\ i = CertsAt + 4 => op = <<"access", Sup, "ssh">>
    BY <1>2, PlainList DEF CertsAt
  <2> HIDE DEF op
  <2> QED
    BY <2>1, <2>2, <2>3 DEF SupervisorStep, op
<1> QED
  BY <1>1, <1>2

\* The operations for one node.
LEMMA NodeOperations ==
  ASSUME NEW n
  PROVE
    /\ redeploy_node(n)[1] = <<IF n = Sup THEN "skip" ELSE "forget", n, "conf">>
    /\ redeploy_node(n)[2] = <<"forget", n, "local">>
    /\ redeploy_node(n)[3] = <<"kick", n, "keyclient">>
    /\ redeploy_node(n)[4] = <<"await", n, "keyclient">>
  BY DEF redeploy_node, kick

\* The concatenation of two lists.
LEMMA Concatenation ==
  ASSUME NEW S, NEW s \in Seq(S), NEW t \in Seq(S)
  PROVE /\ Len(s \o t) = Len(s) + Len(t)
        /\ DOMAIN (s \o t) = 1..(Len(s) + Len(t))
        /\ \A i \in 1..(Len(s) + Len(t)) : (s \o t)[i] = IF i <= Len(s) THEN s[i] ELSE t[i - Len(s)]
  OBVIOUS

\* The order of a redeployment.
LEMMA RedeployList ==
  /\ Len(sequence_redeploy) = 5 + 4 * Len(NodeList)
  /\ \A i \in DOMAIN sequence_redeploy : RedeployStep(i, sequence_redeploy[i])
<1> DEFINE N == Len(NodeList)
           L == redeploy_keyclients
<1>1. N \in Nat /\ DOMAIN NodeList = 1..N
  BY ConstantsAssumption
<1>2. DOMAIN L = 1..(4*N) /\ Len(L) = 4*N
  BY <1>1 DEF redeploy_keyclients
<1>3. \A k \in 1..(4*N) : L[k] = redeploy_node(NodeList[(k + 3) \div 4])[((k - 1) % 4) + 1]
  BY <1>1 DEF redeploy_keyclients
<1>4. DOMAIN redeploy_keyserver = 1..5 /\ Len(redeploy_keyserver) = 5
  BY DEF redeploy_keyserver
<1>5. /\ Len(sequence_redeploy) = Len(redeploy_keyserver) + Len(L)
      /\ DOMAIN sequence_redeploy = 1..(Len(redeploy_keyserver) + Len(L))
      /\ \A i \in 1..(Len(redeploy_keyserver) + Len(L)) :
            sequence_redeploy[i] = IF i <= Len(redeploy_keyserver) THEN redeploy_keyserver[i]
                                   ELSE L[i - Len(redeploy_keyserver)]
  <2> DEFINE S == {redeploy_keyserver[i] : i \in 1..5} \cup {L[i] : i \in 1..(4*N)}
  <2>1. redeploy_keyserver \in Seq(S)
    BY DEF redeploy_keyserver
  <2>2. L \in Seq(S)
    <3>1. L = [k \in 1..(4*N) |-> L[k]] /\ 4*N \in Nat
      BY <1>1 DEF redeploy_keyclients
    <3>2. \A k \in 1..(4*N) : L[k] \in S
      OBVIOUS
    <3> HIDE DEF L, S
    <3> QED
      BY <3>1, <3>2
  <2> HIDE DEF L, S
  <2> QED
    BY <2>1, <2>2, Concatenation DEF sequence_redeploy, L
<1> HIDE DEF L
<1>6. /\ DOMAIN sequence_redeploy = 1..(5 + 4*N) /\ Len(sequence_redeploy) = 5 + 4*N
      /\ \A i \in 1..5 : sequence_redeploy[i] = redeploy_keyserver[i]
      /\ \A i \in 6..(5 + 4*N) : sequence_redeploy[i] = L[i - 5]
  BY <1>1, <1>2, <1>4, <1>5
<1>7. ASSUME NEW i \in 1..5 PROVE RedeployStep(i, sequence_redeploy[i])
  BY <1>6 DEF redeploy_keyserver, RedeployStep
<1>8. ASSUME NEW i \in 6..(5 + 4*N) PROVE RedeployStep(i, sequence_redeploy[i])
  <2> DEFINE k == i - 5
             j == (k + 3) \div 4
             r == (k - 1) % 4
  <2>1. k \in 1..(4*N) /\ j \in 1..N /\ r \in 0..3 /\ i = 4*j + 2 + r
    BY <1>1
  <2>2. sequence_redeploy[i] = redeploy_node(NodeList[j])[r + 1]
    BY <1>3, <1>6, <2>1
  <2> HIDE DEF j, r, k
  <2>3. j \in DOMAIN NodeList
    BY <1>1, <2>1
  <2>4. CASE r = 0
    <3>1. i = 4*j + 2 /\ sequence_redeploy[i] = redeploy_node(NodeList[j])[1]
      BY <2>1, <2>2, <2>4
    <3> QED
      BY <2>3, <3>1, NodeOperations DEF RedeployStep
  <2>5. CASE r = 1
    <3>1. i = 4*j + 3 /\ sequence_redeploy[i] = redeploy_node(NodeList[j])[2]
      BY <2>1, <2>2, <2>5
    <3> QED
      BY <2>3, <3>1, NodeOperations DEF RedeployStep
  <2>6. CASE r = 2
    <3>1. i = 4*j + 4 /\ sequence_redeploy[i] = redeploy_node(NodeList[j])[3]
      BY <2>1, <2>2, <2>6
    <3> QED
      BY <2>3, <3>1, NodeOperations DEF RedeployStep
  <2>7. CASE r = 3
    <3>1. i = 4*j + 5 /\ sequence_redeploy[i] = redeploy_node(NodeList[j])[4]
      BY <2>1, <2>2, <2>7
    <3> QED
      BY <2>3, <3>1, NodeOperations DEF RedeployStep
  <2> QED
    BY <2>1, <2>4, <2>5, <2>6, <2>7
<1> QED
  BY <1>1, <1>6, <1>7, <1>8

\* The operation that is about to be run.
LEMMA NextOperation ==
  ASSUME TypeOK, Busy
  PROVE \/ cmd = "supervisor" /\ SupervisorStep(pc, Op)
        \/ cmd = "redeploy" /\ RedeployStep(pc, Op)
  BY SupervisorList, RedeployList DEF TypeOK, Busy, Op, Operations

\* Where a command is over.
LEMMA LastOperation ==
  ASSUME TypeOK, cmd # "none", pc > Len(Operations(cmd))
  PROVE \/ cmd = "supervisor" /\ pc > 7
        \/ cmd = "redeploy" /\ pc > 5 + 4 * Len(NodeList)
<1>0. pc \in Nat
  BY DEF TypeOK
<1>1. CASE cmd = "supervisor"
  <2>1. CASE Kerberos
    <3>1. Len(Operations(cmd)) = 33
      BY <1>1, <2>1, KerberosList DEF Operations
    <3>2. pc > 7
      BY <1>0, <3>1
    <3> QED
      BY <1>1, <3>2
  <2>2. CASE ~Kerberos
    <3>1. Len(Operations(cmd)) = 29
      BY <1>1, <2>2, PlainList DEF Operations
    <3>2. pc > 7
      BY <1>0, <3>1
    <3> QED
      BY <1>1, <3>2
  <2> QED
    BY <2>1, <2>2
<1>2. CASE cmd = "redeploy"
  BY <1>2, RedeployList DEF Operations
<1> QED
  BY <1>1, <1>2 DEF TypeOK

\* Where the supervisor sequence is past check_keystatics.
LEMMA CheckedAt ==
  ASSUME TypeOK
  PROVE StaticsChecked <=> cmd = "supervisor" /\ pc > 7
<1>0. pc \in Nat
  BY DEF TypeOK
<1>1. 7 \in DOMAIN sequence_supervisor /\ sequence_supervisor[7] = <<"verify", Sup, "statics">>
  BY KerberosList, PlainList
<1>2. ASSUME cmd = "supervisor", pc > 7 PROVE StaticsChecked
  <2>1. 7 \in 1..(pc - 1)
    BY <1>0, <1>2
  <2> QED
    BY <1>1, <1>2, <2>1 DEF StaticsChecked, Operations
<1>3. ASSUME StaticsChecked PROVE cmd = "supervisor" /\ pc > 7
  <2>1. PICK i \in 1..(pc - 1) : Operations(cmd)[i] = <<"verify", Sup, "statics">>
    BY <1>3 DEF StaticsChecked
  <2>2. cmd = "supervisor"
    BY <1>3 DEF StaticsChecked
  <2>3. CASE i \in DOMAIN sequence_supervisor
    <3>1. i = 7
      BY <2>1, <2>2, <2>3, SupervisorList DEF Operations, SupervisorStep
    <3> QED
      BY <1>0, <2>2, <3>1
  <2>4. CASE i \notin DOMAIN sequence_supervisor
    <3>1. i > 29
      <4>1. i \notin 1..29
        BY <2>4, KerberosList, PlainList
      <4> QED
        BY <1>0, <4>1
    <3> QED
      BY <1>0, <2>2, <3>1
  <2> QED
    BY <2>3, <2>4
<1> QED
  BY <1>2, <1>3
-----------------------------------------------------------------------------
(* Types *)

\* Whether or not the success gets back, or the operation fails: the next operation,
\* or none.
LEMMA Continues ==
  ASSUME TypeOK, Ends \/ (Abort /\ (Fault \/ NoFault)) \/ (Advance /\ (Fault \/ NoFault))
  PROVE /\ cmd' \in {"none", "supervisor", "redeploy"} /\ pc' \in Nat
        /\ captured' \in (IF cmd' = "none" THEN {Absent} ELSE Versions) /\ edited' \in Nat
        /\ faults' \in 0..MaxFaults
  BY ConstantsAssumption DEF TypeOK, Ends, Abort, Advance, Fault, NoFault

\* The steps of a pass of the keyclient.
Steps == {"boot", "grant", "userca", "conf", "local", "certs"}

\* What is uploaded is a version.
LEMMA Contents ==
  ASSUME TypeOK, Busy, NEW f
  PROVE Content(f) \in Uploaded
  BY ConstantsAssumption DEF TypeOK, Busy, Content, Uploaded, Versions

\* Running an operation respects the types.
LEMMA SpireTyped ==
  ASSUME TypeOK, Spire
  PROVE TypeOK'
<1> USE DEF TypeOK, spire, services, node
<1>1. ASSUME Busy, NEW f, Put(f) PROVE file' \in [Files -> Uploaded]
  BY <1>1, Contents DEF Put, Uploaded
<1>2. CASE NotRun
  BY <1>2, Continues DEF NotRun
<1>3. CASE Upload
  BY <1>3, <1>1, Continues DEF Upload, Put, Remote, At
<1>4. CASE Remove
  BY <1>4, Continues DEF Remove, Uploaded
<1>5. CASE Forget
  BY <1>5, Continues DEF Forget, Uploaded
<1>6. CASE Enable
  <2>1. What \in Services
    BY <1>6, NextOperation DEF Enable, Remote, At, What, SupervisorStep, RedeployStep
  <2> QED
    BY <1>6, <2>1, Continues DEF Enable
<1>7. CASE RestartService
  <2>1. What \in Services
    BY <1>7, NextOperation DEF RestartService, Remote, At, What, SupervisorStep, RedeployStep
  <2> QED
    BY <1>7, <2>1, Continues DEF RestartService
<1>8. CASE RestartSSH
  BY <1>8, Continues DEF RestartSSH
<1>9. CASE RestartKeyserver
  <2>1. ks' \in Uploaded /\ (Ends \/ (Abort /\ NoFault))
    BY <1>9 DEF RestartKeyserver, Files, Uploaded
  <2>2. running' \subseteq Services
    BY <1>9 DEF RestartKeyserver, Services
  <2>3. token' \in [Nodes -> {"none", "blank", "live", "dead"}]
    BY <1>9 DEF RestartKeyserver, Forgotten
  <2> QED
    BY <1>9, <2>1, <2>2, <2>3, Continues DEF RestartKeyserver
<1>10. CASE Truncate
  BY <1>10, Continues DEF Truncate
<1>11. CASE Keyinitadmit
  BY <1>11, Continues DEF Keyinitadmit
<1>12. CASE Kick
  BY <1>12, Continues DEF Kick, Fresh
<1>13. CASE Await
  <2>1. client' \in [Nodes -> [at : Steps, busy : BOOLEAN, ready : BOOLEAN]]
    <3>1. client' = client \/ client' = [client EXCEPT ![Op[2]] = Fresh]
      BY <1>13 DEF Await
    <3>2. Fresh \in [at : Steps, busy : BOOLEAN, ready : BOOLEAN]
      BY DEF Fresh, Steps
    <3>3. client \in [Nodes -> [at : Steps, busy : BOOLEAN, ready : BOOLEAN]]
      BY DEF Steps
    <3> HIDE DEF TypeOK
    <3> QED
      BY <3>1, <3>2, <3>3
  <2>2. Ends \/ (Abort /\ NoFault)
    BY <1>13 DEF Await
  <2> QED
    BY <1>13, <2>1, <2>2, Continues DEF Await, Steps
<1>14. CASE Confirm
  BY <1>14, Continues DEF Confirm
<1>15. CASE SafeUploadKeytab
  BY <1>15, <1>1, Continues DEF SafeUploadKeytab, Put, Remote, At
<1>16. CASE Access
  BY <1>16, Continues DEF Access
<1>17. CASE ShiftAuthorizedKeys
  BY <1>17, Continues DEF ShiftAuthorizedKeys
<1>18. CASE Verify
  BY <1>18, Continues DEF Verify
<1>19. CASE Run \/ Skip
  BY <1>19, Continues DEF Run, Skip
<1>20. CASE Finish
  BY <1>20 DEF Finish, Abort
<1> QED
  BY <1>2, <1>3, <1>4, <1>5, <1>6, <1>7, <1>8, <1>9, <1>10, <1>11, <1>12, <1>13, <1>14, <1>15,
     <1>16, <1>17, <1>18, <1>19, <1>20 DEF Spire

\* A keyclient goes from one step to another.
LEMMA ClientTyped ==
  ASSUME TypeOK, NEW n \in Nodes, NEW busy \in BOOLEAN,
         (\E step \in Steps : Goes(n, step) \/ NotQuiet(n, step)) \/ EndPass(n, busy)
  PROVE client' \in [Nodes -> [at : Steps, busy : BOOLEAN, ready : BOOLEAN]]
<1>1. client \in [Nodes -> [at : Steps, busy : BOOLEAN, ready : BOOLEAN]]
  BY DEF TypeOK, Steps
<1>2. ASSUME NEW step \in Steps, Goes(n, step)
      PROVE client' \in [Nodes -> [at : Steps, busy : BOOLEAN, ready : BOOLEAN]]
  BY <1>1, <1>2 DEF Goes
<1>3. ASSUME NEW step \in Steps, NotQuiet(n, step)
      PROVE client' \in [Nodes -> [at : Steps, busy : BOOLEAN, ready : BOOLEAN]]
  BY <1>1, <1>3 DEF NotQuiet
<1>4. CASE EndPass(n, busy)
  <2> DEFINE c == [Fresh EXCEPT !.ready = client[n].ready \/ ~(client[n].busy \/ busy)]
  <2>1. (client[n].ready \/ ~(client[n].busy \/ busy)) \in BOOLEAN
    BY <1>1
  <2>2. c \in [at : Steps, busy : BOOLEAN, ready : BOOLEAN]
    BY <2>1 DEF Fresh, Steps
  <2> HIDE DEF c
  <2>3. client' = [client EXCEPT ![n] = c]
    BY <1>4 DEF EndPass, c
  <2> QED
    BY <1>1, <2>2, <2>3
<1> QED
  BY <1>2, <1>3, <1>4

\* The keyclients respect the types.
LEMMA KeyclientTyped ==
  ASSUME TypeOK, NEW n \in Nodes, Keyclient(n)
  PROVE TypeOK'
<1> USE DEF TypeOK, spire, services
<1>0. faults' \in 0..MaxFaults
  <2>1. NoFault \/ Fault
    BY DEF Keyclient, Bootstrap, ReplaceKeygrantingCert, FetchUserCA, FetchConf, FetchLocal, RequestCerts
  <2> QED
    BY <2>1, ConstantsAssumption DEF NoFault, Fault
<1>1. CASE Bootstrap(n)
  <2>1. \E busy \in BOOLEAN : (\E step \in Steps : Goes(n, step) \/ NotQuiet(n, step)) \/ EndPass(n, busy)
    BY <1>1 DEF Bootstrap, Steps
  <2>2. client' \in [Nodes -> [at : Steps, busy : BOOLEAN, ready : BOOLEAN]]
    BY <2>1, ClientTyped
  <2> QED
    BY <1>0, <1>1, <2>2 DEF Keyclient, Bootstrap, Steps, Files
<1>2. CASE ReplaceKeygrantingCert(n)
  <2>1. \E busy \in BOOLEAN : (\E step \in Steps : Goes(n, step) \/ NotQuiet(n, step)) \/ EndPass(n, busy)
    BY <1>2 DEF ReplaceKeygrantingCert, Steps
  <2>2. client' \in [Nodes -> [at : Steps, busy : BOOLEAN, ready : BOOLEAN]]
    BY <2>1, ClientTyped
  <2> QED
    BY <1>0, <1>2, <2>2 DEF Keyclient, ReplaceKeygrantingCert, Steps, Files
<1>3. CASE FetchUserCA(n)
  <2>1. \E busy \in BOOLEAN : (\E step \in Steps : Goes(n, step) \/ NotQuiet(n, step)) \/ EndPass(n, busy)
    BY <1>3 DEF FetchUserCA, Steps
  <2>2. client' \in [Nodes -> [at : Steps, busy : BOOLEAN, ready : BOOLEAN]]
    BY <2>1, ClientTyped
  <2> QED
    BY <1>0, <1>3, <2>2 DEF Keyclient, FetchUserCA, Steps, Files
<1>4. CASE FetchConf(n)
  <2>1. \E busy \in BOOLEAN : (\E step \in Steps : Goes(n, step) \/ NotQuiet(n, step)) \/ EndPass(n, busy)
    BY <1>4 DEF FetchConf, Steps
  <2>2. client' \in [Nodes -> [at : Steps, busy : BOOLEAN, ready : BOOLEAN]]
    BY <2>1, ClientTyped
  <2> QED
    BY <1>0, <1>4, <2>2 DEF Keyclient, FetchConf, Steps, Files
<1>5. CASE FetchLocal(n)
  <2>1. \E busy \in BOOLEAN : (\E step \in Steps : Goes(n, step) \/ NotQuiet(n, step)) \/ EndPass(n, busy)
    BY <1>5 DEF FetchLocal, Steps
  <2>2. client' \in [Nodes -> [at : Steps, busy : BOOLEAN, ready : BOOLEAN]]
    BY <2>1, ClientTyped
  <2> QED
    BY <1>0, <1>5, <2>2 DEF Keyclient, FetchLocal, Steps, Files
<1>6. CASE RequestCerts(n)
  <2>1. \E busy \in BOOLEAN : (\E step \in Steps : Goes(n, step) \/ NotQuiet(n, step)) \/ EndPass(n, busy)
    BY <1>6 DEF RequestCerts, Steps
  <2>2. client' \in [Nodes -> [at : Steps, busy : BOOLEAN, ready : BOOLEAN]]
    BY <2>1, ClientTyped
  <2> QED
    BY <1>0, <1>6, <2>2 DEF Keyclient, RequestCerts, Steps, Files
<1> QED
  BY <1>1, <1>2, <1>3, <1>4, <1>5, <1>6 DEF Keyclient

\* Every step respects the types.
LEMMA TypeNext ==
  ASSUME TypeOK, [Next]_vars
  PROVE TypeOK'
<1>1. CASE Spire
  BY <1>1, SpireTyped
<1>2. ASSUME NEW n \in Nodes, Keyclient(n) PROVE TypeOK'
  BY <1>2, KeyclientTyped
<1> USE DEF TypeOK, spire, services, node
<1>3. ASSUME NEW c \in {"supervisor", "redeploy"}, Start(c) PROVE TypeOK'
  BY <1>3 DEF Start
<1>4. ASSUME NEW n \in Nodes, Admit(n) PROVE TypeOK'
  BY <1>4 DEF Admit
<1>5. CASE Edit
  BY <1>5, ConstantsAssumption DEF Edit
<1>6. CASE CrashKeyserver
  BY <1>6, ConstantsAssumption DEF CrashKeyserver, Forgotten, Fault, Uploaded
<1>7. CASE StartKeyserver
  <2>1. file["setup.yaml"] \in Uploaded
    BY DEF Files
  <2> QED
    BY <1>7, <2>1 DEF StartKeyserver
<1>8. CASE Reboot
  BY <1>8, ConstantsAssumption DEF Reboot, Forgotten, Fault, Abort, Fresh, Uploaded
<1>9. CASE UNCHANGED vars
  BY <1>9 DEF vars
<1> QED
  BY <1>1, <1>2, <1>3, <1>4, <1>5, <1>6, <1>7, <1>8, <1>9 DEF Next

-----------------------------------------------------------------------------
(* The files of the keyserver *)

\* A step that leaves a command where it is, and the files and the keyserver alone.
LEMMA FilesStay ==
  ASSUME FilesOK, UNCHANGED <<project, spire, file, ks>>
  PROVE FilesOK'
  BY DEF FilesOK, spire

\* A failure.
LEMMA FilesAbort ==
  ASSUME Abort
  PROVE FilesOK'
  BY DEF FilesOK, Abort

\* The success of an operation that does not change the files of the keyserver.
LEMMA FilesAdvance ==
  ASSUME TypeOK, FilesOK, Busy, Advance, UNCHANGED <<project, ks>>,
         \A f \in {"cluster.conf", "setup.yaml"} : file'[f] = file[f] /\ Op # <<"upload", Sup, f>>,
         Op # <<"restart", Sup, "keyserver">>,
         Op = <<"verify", Sup, "statics">> => file["cluster.conf"] = Rendered[project]
  PROVE FilesOK'
<1> USE DEF Advance
<1>0. pc \in Nat /\ edited \in Nat
  BY DEF TypeOK
<1>1. CASE cmd = "supervisor" /\ SupervisorStep(pc, Op)
  <2>1. pc \notin {3, 4, 6}
    BY <1>1 DEF SupervisorStep
  <2>2. pc = 7 => file["cluster.conf"] = Rendered[project]
    BY <1>1 DEF SupervisorStep
  <2> QED
    BY <1>0, <1>1, <2>1, <2>2 DEF FilesOK
<1>2. CASE cmd = "redeploy" /\ RedeployStep(pc, Op)
  <2>1. pc \notin {3, 4, 5}
    BY <1>0, <1>2, ConstantsAssumption DEF RedeployStep
  <2> QED
    BY <1>0, <1>2, <2>1 DEF FilesOK
<1> QED
  BY <1>1, <1>2, NextOperation

\* Running an operation keeps the files of the keyserver in order.
LEMMA SpireFiles ==
  ASSUME TypeOK, FilesOK, Spire
  PROVE FilesOK'
<1> USE DEF services, node
<1>0. pc \in Nat /\ edited \in Nat /\ project \in Versions /\ DOMAIN file = Files
  BY DEF TypeOK
<1>1. CASE Abort
  BY <1>1, FilesAbort
<1> SUFFICES ASSUME Advance PROVE FilesOK'
  <2>1. Abort \/ Advance
    BY DEF Spire, NotRun, Upload, Put, Remove, Forget, Enable, RestartService, RestartSSH, RestartKeyserver,
       Truncate, Keyinitadmit, Kick, Await, Confirm, SafeUploadKeytab, Access, ShiftAuthorizedKeys,
       Verify, Run, Skip, Finish, Ends
  <2> QED
    BY <1>1, <2>1
<1>2. CASE NotRun \/ Finish
  BY <1>2, FilesAbort DEF NotRun, Finish
<1>3. CASE Upload
  <2>1. Busy /\ Op[1] = "upload" /\ UNCHANGED <<project, ks>> /\ file'= [file EXCEPT ![What] = Content(What)]
    BY <1>3 DEF Upload, Remote, At, Put, Advance, Abort, TypeOK
  <2>2. CASE Op[3] = "cluster.conf"
    <3>1. pc = 3
      BY <2>1, <2>2, NextOperation DEF SupervisorStep, RedeployStep
    <3> QED
      BY <1>0, <2>1, <2>2, <3>1 DEF FilesOK, Advance, Content, What, Files, Busy
  <2>3. CASE Op[3] = "setup.yaml"
    <3>1. pc = 4
      BY <2>1, <2>3, NextOperation DEF SupervisorStep, RedeployStep
    <3> QED
      BY <1>0, <2>1, <2>3, <3>1 DEF FilesOK, Advance, Content, What, Files, Busy
  <2>4. CASE Op[3] \notin {"cluster.conf", "setup.yaml"}
    BY <1>0, <2>1, <2>4, FilesAdvance DEF What, Files
  <2> QED
    BY <2>2, <2>3, <2>4
<1>4. CASE Remove
  <2>1. cmd = "redeploy" /\ pc \in {1, 2} /\ UNCHANGED <<project, ks>>
    BY <1>4, NextOperation DEF Remove, Remote, At, SupervisorStep, RedeployStep
  <2> QED
    BY <2>1 DEF FilesOK, Advance
<1>5. CASE RestartKeyserver
  <2>1. Busy /\ Op[1] = "restart" /\ Op[3] = "keyserver" /\ UNCHANGED <<project, file>>
    BY <1>5 DEF RestartKeyserver, Remote, At, What
  <2>2. ks' \in {Absent, file["setup.yaml"]}
    BY <1>5 DEF RestartKeyserver
  <2>3. pc = IF cmd = "supervisor" THEN 6 ELSE 5
    BY <2>1, NextOperation DEF SupervisorStep, RedeployStep
  <2> QED
    BY <1>0, <2>1, <2>2, <2>3 DEF FilesOK, Advance, Busy
<1>6. CASE Verify
  <2>1. Busy /\ Op[1] = "verify" /\ UNCHANGED <<project, file, ks>>
    BY <1>6 DEF Verify, At
  <2>2. Holds(What)
    BY <1>6, <2>1 DEF Verify, Advance, Abort, Busy
  <2>3. Op = <<"verify", Sup, "statics">> => file["cluster.conf"] = Rendered[project]
    BY <2>2 DEF Holds, What
  <2> QED
    BY <2>1, <2>3, FilesAdvance
<1>7. CASE SafeUploadKeytab
  <2>1. Busy /\ Op[1] = "keytab" /\ UNCHANGED <<project, ks>>
    BY <1>7 DEF SafeUploadKeytab, Remote, At
  <2>2. \A f \in {"cluster.conf", "setup.yaml"} : file'[f] = file[f]
    BY <1>0, <1>7 DEF SafeUploadKeytab, Put, Files
  <2> QED
    BY <2>1, <2>2, FilesAdvance
<1>8. CASE \/ Forget \/ Enable \/ RestartService \/ RestartSSH \/ Truncate \/ Keyinitadmit \/ Kick
           \/ Await \/ Confirm \/ Access \/ ShiftAuthorizedKeys \/ Run \/ Skip
  <2>1. Busy /\ UNCHANGED <<project, file, ks>>
    BY <1>8 DEF Forget, Enable, RestartService, RestartSSH, Truncate, Keyinitadmit, Kick,
       Await, Confirm, Access, ShiftAuthorizedKeys, Run, Skip, Remote, At
  <2>2. Op[1] \notin {"upload", "verify"} /\ ~(Op[1] = "restart" /\ Op[3] = "keyserver")
    BY <1>8 DEF Forget, Enable, RestartService, RestartSSH, Truncate, Keyinitadmit, Kick,
       Await, Confirm, Access, ShiftAuthorizedKeys, Run, Skip, Remote, At, What
  <2> QED
    BY <2>1, <2>2, FilesAdvance
<1> QED
  BY <1>2, <1>3, <1>4, <1>5, <1>6, <1>7, <1>8 DEF Spire

\* Every step keeps the files of the keyserver in order.
LEMMA FilesNext ==
  ASSUME TypeOK, FilesOK, [Next]_vars
  PROVE FilesOK'
<1> USE DEF services, node
<1>0. pc \in Nat /\ edited \in Nat
  BY DEF TypeOK
<1>1. CASE Spire
  BY <1>1, SpireFiles
<1>2. ASSUME NEW n \in Nodes, Keyclient(n) \/ Admit(n) PROVE FilesOK'
  BY <1>2, FilesStay DEF Keyclient, Admit
<1>3. ASSUME NEW c \in {"supervisor", "redeploy"}, Start(c) PROVE FilesOK'
  BY <1>0, <1>3 DEF Start, FilesOK
<1>4. CASE Edit
  BY <1>0, <1>4, CheckedAt DEF Edit, FilesOK
<1>5. CASE CrashKeyserver
  BY <1>5 DEF CrashKeyserver, FilesOK, spire
<1>6. CASE StartKeyserver
  BY <1>6 DEF StartKeyserver, FilesOK, spire
<1>7. CASE Reboot
  BY <1>7, FilesAbort DEF Reboot
<1>8. CASE UNCHANGED vars
  BY <1>8, FilesStay DEF vars
<1> QED
  BY <1>1, <1>2, <1>3, <1>4, <1>5, <1>6, <1>7, <1>8 DEF Next

-----------------------------------------------------------------------------
(* The keyserver *)

\* A step that leaves the command, the files and the keyserver alone.
LEMMA UpStays ==
  ASSUME KeyserverUp, UNCHANGED <<spire, file, sshd, ks, completed>>
  PROVE KeyserverUp'
  BY DEF KeyserverUp, spire

\* The success or failure of an operation that concerns neither the authorities nor
\* the services.
LEMMA UpAdvance ==
  ASSUME TypeOK, KeyserverUp, Busy, Advance \/ Abort, UNCHANGED <<sshd, ks, completed>>,
         \A f \in {"authorities", "sshd_config"} : file'[f] = file[f],
         Op # <<"upload", Sup, "authorities">>, Op # <<"restart", Sup, "keyserver">>
  PROVE KeyserverUp'
<1>0. pc \in Nat
  BY DEF TypeOK
<1>1. CASE Abort
  BY <1>1 DEF KeyserverUp, Abort
<1>2. CASE Advance
  <2>1. cmd = "supervisor" => pc \notin {2, 6}
    BY NextOperation DEF SupervisorStep
  <2> QED
    BY <1>0, <1>2, <2>1 DEF KeyserverUp, Advance
<1> QED
  BY <1>1, <1>2

\* When the keyserver is restarted its files are there.
LEMMA FilesLoadable ==
  ASSUME TypeOK, FilesOK, KeyserverUp, Busy, Op[1] = "restart", Op[3] = "keyserver"
  PROVE Loadable
<1>0. Absent \notin Versions /\ Rendered[captured] \in Versions
  BY ConstantsAssumption DEF TypeOK, Busy, Versions, Absent
<1>1. \/ cmd = "supervisor" /\ pc = 6
      \/ cmd = "redeploy" /\ pc = 5
  BY NextOperation DEF SupervisorStep, RedeployStep
<1>2. file["authorities"] = 1
  BY <1>1 DEF KeyserverUp
<1>3. file["cluster.conf"] # Absent /\ file["setup.yaml"] # Absent
  BY <1>0, <1>1 DEF FilesOK
<1> QED
  BY <1>2, <1>3 DEF Loadable

\* Without faults an operation does not take the keyserver down.
LEMMA SpireUp ==
  ASSUME TypeOK, FilesOK, KeyserverUp, Spire, faults = 0, faults' = 0
  PROVE KeyserverUp'
<1> USE DEF services, node
<1>0. DOMAIN file = Files /\ ~Fault
  BY DEF TypeOK, Fault
<1>1. CASE Upload
  <2>1. Busy /\ Advance /\ Op[1] = "upload" /\ UNCHANGED <<sshd, ks, completed>>
    BY <1>0, <1>1 DEF Upload, Put, Ends, Remote, At
  <2>2. file' = [file EXCEPT ![What] = Content(What)]
    BY <1>0, <1>1 DEF Upload, Put
  <2>3. CASE What = "authorities"
    <3>1. file'["authorities"] = 1 /\ file'["sshd_config"] = file["sshd_config"]
      BY <1>0, <2>2, <2>3 DEF Content, Files
    <3>2. pc = 2
      BY <2>1, <2>3, NextOperation DEF SupervisorStep, RedeployStep, What
    <3> QED
      BY <2>1, <3>1, <3>2 DEF KeyserverUp, Advance
  <2>4. CASE What = "sshd_config"
    <3>1. file'["sshd_config"] = 1 /\ file'["authorities"] = file["authorities"]
      BY <1>0, <2>2, <2>4 DEF Content, Files
    <3>2. pc \in Nat /\ (cmd = "supervisor" => pc \notin {2, 6})
      BY <2>1, <2>4, NextOperation DEF SupervisorStep, TypeOK, What
    <3> QED
      BY <2>1, <3>1, <3>2 DEF KeyserverUp, Advance, Torn
  <2>5. CASE What \notin {"authorities", "sshd_config"}
    BY <1>0, <2>1, <2>2, <2>5, UpAdvance DEF What
  <2> QED
    BY <2>3, <2>4, <2>5
<1>2. CASE RestartKeyserver
  <2>1. Busy /\ Op[1] = "restart" /\ Op[3] = "keyserver" /\ UNCHANGED <<file, sshd, completed>>
    BY <1>2 DEF RestartKeyserver, Remote, At, What
  <2>2. Loadable
    BY <2>1, FilesLoadable
  <2>3. ks' = file["setup.yaml"] /\ Advance
    BY <1>0, <1>2, <2>2 DEF RestartKeyserver, Ends
  <2> QED
    BY <2>1, <2>2, <2>3 DEF KeyserverUp, Loadable, Advance
<1>3. CASE RestartSSH
  <2>1. Busy /\ Advance /\ Op[1] = "restart" /\ Op[3] = "ssh" /\ UNCHANGED <<file, ks, completed>>
    BY <1>0, <1>3 DEF RestartSSH, Remote, At, What, Ends
  <2>2. sshd'
    BY <1>3 DEF RestartSSH, KeyserverUp
  <2>3. pc \in Nat /\ (cmd = "supervisor" => pc \notin {2, 6})
    BY <2>1, NextOperation DEF SupervisorStep, TypeOK
  <2> QED
    BY <2>1, <2>2, <2>3 DEF KeyserverUp, Advance
<1>4. CASE Remove
  <2>1. /\ Busy /\ Advance /\ UNCHANGED <<sshd, ks, completed>> /\ Op[1] = "remove"
        /\ file' = [file EXCEPT ![What] = Absent]
    BY <1>0, <1>4 DEF Remove, Remote, At, Ends
  <2>2. What \in {"cluster.conf", "setup.yaml"}
    BY <2>1, NextOperation DEF SupervisorStep, RedeployStep, What
  <2> QED
    BY <1>0, <2>1, <2>2, UpAdvance
<1>5. CASE SafeUploadKeytab
  <2>1. Busy /\ (Advance \/ Abort) /\ Op[1] = "keytab" /\ UNCHANGED <<sshd, ks, completed>>
    BY <1>5 DEF SafeUploadKeytab, Remote, At, Put, Ends
  <2>2. \A f \in {"authorities", "sshd_config"} : file'[f] = file[f]
    BY <1>0, <1>5 DEF SafeUploadKeytab, Put, Files
  <2> QED
    BY <2>1, <2>2, UpAdvance
<1>6. CASE Finish
  <2>1. cmd = "supervisor" => ks # Absent
    BY <1>6, LastOperation DEF Finish, KeyserverUp, TypeOK
  <2> QED
    BY <1>6, <2>1 DEF Finish, Abort, KeyserverUp
<1>7. CASE NotRun
  BY <1>7 DEF NotRun, Abort, KeyserverUp
<1>8. CASE \/ Forget \/ Enable \/ RestartService \/ Truncate \/ Keyinitadmit \/ Kick
           \/ Await \/ Confirm \/ Access \/ ShiftAuthorizedKeys \/ Verify \/ Run \/ Skip
  <2>1. Busy /\ UNCHANGED <<file, sshd, ks, completed>>
    BY <1>8 DEF Forget, Enable, RestartService, Truncate, Keyinitadmit, Kick,
       Await, Confirm, Access, ShiftAuthorizedKeys, Verify, Run, Skip, Remote, At
  <2>2. Op[1] # "upload" /\ ~(Op[1] = "restart" /\ Op[3] = "keyserver")
    BY <1>8 DEF Forget, Enable, RestartService, Truncate, Keyinitadmit, Kick,
       Await, Confirm, Access, ShiftAuthorizedKeys, Verify, Run, Skip, Remote, At, What
  <2>3. Advance \/ Abort
    BY <1>8 DEF Forget, Enable, RestartService, Truncate, Keyinitadmit, Kick,
       Await, Confirm, Access, ShiftAuthorizedKeys, Verify, Run, Skip, Ends
  <2> QED
    BY <2>1, <2>2, <2>3, UpAdvance
<1> QED
  BY <1>1, <1>2, <1>3, <1>4, <1>5, <1>6, <1>7, <1>8 DEF Spire

\* Without faults no step takes the keyserver down.
LEMMA UpNext ==
  ASSUME TypeOK, FilesOK, KeyserverUp, [Next]_vars, faults = 0, faults' = 0
  PROVE KeyserverUp' /\ (ks # Absent => ks' # Absent)
<1> USE DEF services, node
<1>0. ~Fault
  BY DEF Fault
<1>1. CASE Spire
  <2>1. ks # Absent => ks' # Absent
    <3>1. CASE RestartKeyserver
      <4>1. Loadable
        BY <3>1, FilesLoadable DEF RestartKeyserver, Remote, At, What
      <4> QED
        BY <3>1, <4>1 DEF RestartKeyserver, Loadable
    <3>2. CASE ~RestartKeyserver
      BY <1>1, <3>2 DEF Spire, NotRun, Upload, Remove, Forget, Enable, RestartService, RestartSSH,
         Truncate, Keyinitadmit, Kick, Await, Confirm, SafeUploadKeytab, Access,
         ShiftAuthorizedKeys, Verify, Run, Skip, Finish
    <3> QED
      BY <3>1, <3>2
  <2> QED
    BY <1>1, <2>1, SpireUp
<1>2. ASSUME NEW n \in Nodes, Keyclient(n) \/ Admit(n)
      PROVE KeyserverUp' /\ (ks # Absent => ks' # Absent)
  BY <1>2, UpStays DEF Keyclient, Admit
<1>3. ASSUME NEW c \in {"supervisor", "redeploy"}, Start(c)
      PROVE KeyserverUp' /\ (ks # Absent => ks' # Absent)
  BY <1>3 DEF Start, KeyserverUp
<1>4. CASE Edit
  BY <1>4 DEF Edit, KeyserverUp
<1>5. CASE StartKeyserver
  BY <1>5 DEF StartKeyserver, KeyserverUp, Loadable, spire
<1>6. CASE CrashKeyserver \/ Reboot
  BY <1>0, <1>6 DEF CrashKeyserver, Reboot
<1>7. CASE UNCHANGED vars
  BY <1>7, UpStays DEF vars
<1> QED
  BY <1>1, <1>2, <1>3, <1>4, <1>5, <1>6, <1>7 DEF Next

-----------------------------------------------------------------------------
(* The certificates of the nodes and the operator's access *)

\* A keyclient that is started anew.
LEMMA UserCARestart ==
  ASSUME TypeOK, UserCAFirst, ks # Absent => ks' # Absent, NEW n,
         client' = [client EXCEPT ![n] = Fresh], UNCHANGED <<granted, userca, certs>>
  PROVE UserCAFirst'
  BY DEF UserCAFirst, Fresh, TypeOK

\* Without faults a keyclient with a keygranting certificate fetches the user CA.
LEMMA KeyclientUserCA ==
  ASSUME TypeOK, UserCAFirst, NEW n \in Nodes, Keyclient(n), faults = 0, faults' = 0
  PROVE UserCAFirst'
<1> USE DEF services
<1>0. UNCHANGED ks /\ ~Fault
  BY DEF Keyclient, Fault
<1> USE DEF TypeOK
<1>1. CASE Bootstrap(n)
  <2>1. /\ client'[n].at = "userca" \/ (client'[n].at = "grant" /\ ks # Absent)
        /\ \A m \in Nodes \ {n} : client'[m] = client[m]
    BY <1>0, <1>1 DEF Bootstrap, Goes
  <2>2. UNCHANGED <<granted, userca, certs>>
    BY <1>1 DEF Bootstrap
  <2> QED
    BY <1>0, <2>1, <2>2 DEF UserCAFirst
<1>2. CASE ReplaceKeygrantingCert(n)
  BY <1>0, <1>2 DEF ReplaceKeygrantingCert, NotQuiet, UserCAFirst
<1>3. CASE FetchUserCA(n)
  BY <1>0, <1>3 DEF FetchUserCA, Goes, NotQuiet, UserCAFirst
<1>4. CASE FetchConf(n)
  BY <1>0, <1>4 DEF FetchConf, Goes, NotQuiet, UserCAFirst
<1>5. CASE FetchLocal(n)
  <2>1. client[n].at = "local" /\ (Goes(n, "certs") \/ NotQuiet(n, "certs"))
    BY <1>5 DEF FetchLocal
  <2>2. client'[n].at = "certs" /\ (\A m \in Nodes \ {n} : client'[m] = client[m])
    BY <2>1 DEF Goes, NotQuiet
  <2>3. UNCHANGED <<granted, userca, certs>>
    BY <1>5 DEF FetchLocal
  <2> QED
    BY <1>0, <2>1, <2>2, <2>3 DEF UserCAFirst
<1>6. CASE RequestCerts(n)
  <2>1. client[n].at = "certs" /\ (EndPass(n, TRUE) \/ EndPass(n, FALSE))
    BY <1>6 DEF RequestCerts
  <2>2. client'[n].at = "boot" /\ (\A m \in Nodes \ {n} : client'[m] = client[m])
    BY <2>1 DEF EndPass, Fresh
  <2>3. UNCHANGED <<granted, userca>> /\ (\A m \in Nodes : certs'[m] => certs[m] \/ (m = n /\ granted[n]))
    BY <1>6 DEF RequestCerts
  <2> QED
    BY <1>0, <2>1, <2>2, <2>3 DEF UserCAFirst
<1> QED
  BY <1>1, <1>2, <1>3, <1>4, <1>5, <1>6 DEF Keyclient

\* Without faults no node gets a certificate before the user CA.
LEMMA UserCANext ==
  ASSUME TypeOK, FilesOK, KeyserverUp, UserCAFirst, [Next]_vars, faults = 0, faults' = 0
  PROVE UserCAFirst'
<1> USE DEF services, node
<1>0. ~Fault /\ (ks # Absent => ks' # Absent)
  BY UpNext DEF Fault
<1>1. ASSUME UNCHANGED <<granted, userca, certs, client>> PROVE UserCAFirst'
  BY <1>0, <1>1 DEF UserCAFirst
<1>2. CASE Kick
  BY <1>0, <1>2, UserCARestart DEF Kick
<1>3. CASE Await
  BY <1>0, <1>1, <1>3, UserCARestart DEF Await
<1>4. CASE Spire /\ ~Kick /\ ~Await
  <2>1. UNCHANGED <<granted, userca, certs, client>>
    BY <1>4 DEF Spire, NotRun, Upload, Remove, Forget, Enable, RestartService, RestartSSH,
       RestartKeyserver, Truncate, Keyinitadmit, Confirm, SafeUploadKeytab, Access,
       ShiftAuthorizedKeys, Verify, Run, Skip, Finish
  <2> QED
    BY <1>1, <2>1
<1>5. ASSUME NEW n \in Nodes, Keyclient(n) PROVE UserCAFirst'
  BY <1>5, KeyclientUserCA
<1>6. ASSUME NEW n \in Nodes, Admit(n) PROVE UserCAFirst'
  BY <1>1, <1>6 DEF Admit
<1>7. ASSUME NEW c \in {"supervisor", "redeploy"}, Start(c) PROVE UserCAFirst'
  BY <1>1, <1>7 DEF Start
<1>8. CASE Edit \/ StartKeyserver
  BY <1>1, <1>8 DEF Edit, StartKeyserver
<1>9. CASE CrashKeyserver \/ Reboot
  BY <1>0, <1>9 DEF CrashKeyserver, Reboot
<1>10. CASE UNCHANGED vars
  BY <1>1, <1>10 DEF vars
<1> QED
  BY <1>2, <1>3, <1>4, <1>5, <1>6, <1>7, <1>8, <1>9, <1>10 DEF Next

\* Steps that leave the command and the keys alone; what the keyclients have they keep.
LEMMA AccessStays ==
  ASSUME AccessOK, UNCHANGED <<cmd, pc, hascert, authkeys>>,
         userca[Sup] => userca'[Sup], certs[Sup] => certs'[Sup]
  PROVE AccessOK'
  BY DEF AccessOK, CertsAt

\* The success or failure of an operation.
LEMMA AccessAdvance ==
  ASSUME TypeOK, AccessOK, Busy, Advance \/ Abort, UNCHANGED <<userca, certs>>,
         hascert => hascert', authkeys' = authkeys \/ (hascert' /\ userca[Sup]),
         (Op = <<"verify", Sup, "certs">> /\ Advance) => certs[Sup],
         (Op = <<"access", Sup, "ssh">> /\ Advance) => hascert'
  PROVE AccessOK'
<1>0. pc \in Nat /\ CertsAt \in Nat
  BY DEF TypeOK, CertsAt
<1>1. authkeys' \/ (hascert' /\ userca'[Sup])
  BY DEF AccessOK
<1>2. CASE Abort
  BY <1>1, <1>2 DEF AccessOK, Abort
<1>3. CASE Advance /\ cmd = "supervisor"
  <2>1. (pc = CertsAt => certs[Sup]) /\ (pc = CertsAt + 4 => hascert')
    BY <1>3, NextOperation DEF SupervisorStep
  <2> QED
    BY <1>0, <1>1, <1>3, <2>1 DEF AccessOK, Advance
<1>4. CASE Advance /\ cmd # "supervisor"
  BY <1>1, <1>4 DEF AccessOK, Advance
<1> QED
  BY <1>2, <1>3, <1>4

\* Without faults the operator keeps a way to log in.
LEMMA AccessNext ==
  ASSUME TypeOK, UserCAFirst, AccessOK, [Next]_vars, faults = 0, faults' = 0
  PROVE AccessOK'
<1> USE DEF services, node
<1>0. ~Fault
  BY DEF Fault
<1>1. CASE Access
  BY <1>1, AccessAdvance DEF Access, At, Ends
<1>2. CASE ShiftAuthorizedKeys
  <2>1. /\ Busy /\ (Advance \/ Abort) /\ Op[1] = "shift"
        /\ UNCHANGED <<hascert, userca, certs>>
    BY <1>2 DEF ShiftAuthorizedKeys, Remote, At, Ends
  <2>2. cmd = "supervisor" /\ pc = CertsAt + 7
    BY <2>1, NextOperation DEF SupervisorStep, RedeployStep
  <2>3. hascert /\ certs[Sup]
    BY <2>2 DEF AccessOK, CertsAt
  <2>4. userca[Sup]
    BY <2>3, ConstantsAssumption DEF UserCAFirst
  <2> QED
    BY <2>1, <2>3, <2>4, AccessAdvance
<1>3. CASE Verify
  <2>1. Busy /\ (Advance \/ Abort) /\ Op[1] = "verify" /\ UNCHANGED <<hascert, authkeys, userca, certs>>
    BY <1>3 DEF Verify, At, Ends
  <2>2. (Op = <<"verify", Sup, "certs">> /\ Advance) => certs[Sup]
    BY <1>3, <2>1 DEF Verify, Holds, What, Advance, Abort, Busy
  <2> QED
    BY <2>1, <2>2, AccessAdvance
<1>4. CASE Finish
  BY <1>4 DEF Finish, Abort, AccessOK
<1>5. CASE \/ NotRun \/ Upload \/ Remove \/ Forget \/ Enable \/ RestartService \/ RestartSSH
           \/ RestartKeyserver \/ Truncate \/ Keyinitadmit \/ Kick \/ Await \/ Confirm
           \/ SafeUploadKeytab \/ Run \/ Skip
  <2>1. Busy /\ (Advance \/ Abort) /\ UNCHANGED <<hascert, authkeys, userca, certs>>
    BY <1>5 DEF NotRun, Upload, Remove, Forget, Enable, RestartService, RestartSSH, RestartKeyserver,
       Truncate, Keyinitadmit, Kick, Await, Confirm, SafeUploadKeytab, Run, Skip, Remote, At, Ends, Put
  <2>2. Abort \/ Op[1] \notin {"verify", "access"}
    BY <1>5 DEF NotRun, Upload, Remove, Forget, Enable, RestartService, RestartSSH, RestartKeyserver,
       Truncate, Keyinitadmit, Kick, Await, Confirm, SafeUploadKeytab, Run, Skip, Remote, At
  <2>3. Abort => ~Advance
    BY <2>1 DEF Abort, Advance, Busy
  <2> QED
    BY <2>1, <2>2, <2>3, AccessAdvance
<1>6. ASSUME NEW n \in Nodes, Keyclient(n) PROVE AccessOK'
  <2>1. UNCHANGED <<cmd, pc, hascert, authkeys>>
    BY <1>6 DEF Keyclient, spire
  <2>2. (userca[Sup] => userca'[Sup]) /\ (certs[Sup] => certs'[Sup])
    BY <1>6, ConstantsAssumption DEF Keyclient, Bootstrap, ReplaceKeygrantingCert, FetchUserCA, FetchConf,
       FetchLocal, RequestCerts, TypeOK
  <2> QED
    BY <2>1, <2>2, AccessStays
<1>7. ASSUME NEW n \in Nodes, Admit(n) PROVE AccessOK'
  BY <1>7, AccessStays DEF Admit, spire
<1>8. ASSUME NEW c \in {"supervisor", "redeploy"}, Start(c) PROVE AccessOK'
  BY <1>8 DEF Start, AccessOK, CertsAt
<1>9. CASE Edit \/ StartKeyserver
  BY <1>9, AccessStays DEF Edit, StartKeyserver, spire
<1>10. CASE CrashKeyserver \/ Reboot
  BY <1>0, <1>10 DEF CrashKeyserver, Reboot
<1>11. CASE UNCHANGED vars
  BY <1>11, AccessStays DEF vars, spire
<1> QED
  BY <1>1, <1>2, <1>3, <1>4, <1>5, <1>6, <1>7, <1>8, <1>9, <1>10, <1>11 DEF Next, Spire

-----------------------------------------------------------------------------
(* The redeployment *)

\* A step that leaves the command and the nodes alone.
LEMMA NodesStay ==
  ASSUME NodesOK, UNCHANGED <<project, cmd, pc, captured, edited, conf, local, client>>
  PROVE NodesOK'
  BY DEF NodesOK, Past, Current, Prepared, Redeployed

\* An operation before the first node.
LEMMA NodesBefore ==
  ASSUME pc' \in 0..6
  PROVE NodesOK'
<1> DOMAIN NodeList \subseteq Nat \ {0}
  BY ConstantsAssumption
<1>1. \A j \in DOMAIN NodeList : pc' \notin (4*j + 3)..(4*j + 5) /\ ~(pc' > 4*j + 5)
  OBVIOUS
<1> QED
  BY <1>1 DEF NodesOK, Past

\* While the keyserver runs with v and serves the cluster.conf w, a keyclient fetches
\* nothing else, keeps what it has, and is not ready without it.
LEMMA KeyclientFetches ==
  ASSUME TypeOK, NEW n \in Nodes, Keyclient(n), ~Fault, NEW v, v # Absent, NEW w, w # Absent,
         ks = v, file["cluster.conf"] = w, NEW m \in Nodes
  PROVE /\ conf'[m] = conf[m] \/ (conf[m] = Absent /\ conf'[m] = w)
        /\ local'[m] = local[m] \/ (local[m] = Absent /\ local'[m] = v)
        /\ Prepared(m) => Prepared(m)'
<1> USE DEF TypeOK
<1>1. CASE Bootstrap(n)
  <2>1. UNCHANGED <<conf, local>> /\ (Goes(n, "grant") \/ Goes(n, "userca"))
    BY <1>1 DEF Bootstrap
  <2>2. client'[m].ready = client[m].ready /\ client'[m].busy = client[m].busy
    <3>1. CASE m = n
      BY <2>1, <3>1 DEF Goes
    <3>2. CASE m # n
      BY <2>1, <3>2 DEF Goes
    <3> QED
      BY <3>1, <3>2
  <2>3. client'[m].at = client[m].at \/ client'[m].at \notin {"local", "certs"}
    BY <2>1 DEF Goes
  <2> QED
    BY <2>1, <2>2, <2>3 DEF Prepared
<1>2. CASE ReplaceKeygrantingCert(n)
  <2>1. UNCHANGED <<conf, local>> /\ NotQuiet(n, "userca")
    BY <1>2 DEF ReplaceKeygrantingCert
  <2> QED
    BY <2>1 DEF NotQuiet, Prepared
<1>3. CASE FetchUserCA(n)
  <2>1. UNCHANGED <<conf, local>> /\ (Goes(n, "conf") \/ NotQuiet(n, "conf"))
    BY <1>3 DEF FetchUserCA
  <2> QED
    BY <2>1 DEF Goes, NotQuiet, Prepared
<1>4. CASE FetchConf(n)
  <2>1. UNCHANGED local /\ (Goes(n, "local") \/ NotQuiet(n, "local"))
    BY <1>4 DEF FetchConf
  <2>2. IF conf[n] = Absent THEN conf' = [conf EXCEPT ![n] = w] ELSE conf' = conf
    BY <1>4 DEF FetchConf
  <2>3. /\ client'[m].ready = client[m].ready
        /\ IF m = n THEN client'[m].at = "local" ELSE client'[m] = client[m]
    BY <2>1 DEF Goes, NotQuiet
  <2> QED
    BY <2>1, <2>2, <2>3 DEF Prepared
<1>5. CASE FetchLocal(n)
  <2>1. UNCHANGED conf /\ (Goes(n, "certs") \/ NotQuiet(n, "certs")) /\ client[n].at = "local"
    BY <1>5 DEF FetchLocal
  <2>2. IF local[n] = Absent THEN \/ local' = [local EXCEPT ![n] = v]
                                  \/ local' = local /\ NotQuiet(n, "certs")
        ELSE local' = local
    BY <1>5 DEF FetchLocal
  <2>3. /\ client'[m].ready = client[m].ready
        /\ IF m = n THEN client'[m].at = "certs" ELSE client'[m] = client[m]
    BY <2>1 DEF Goes, NotQuiet
  <2>4. NotQuiet(n, "certs") => client'[n].busy
    BY DEF NotQuiet
  <2> QED
    BY <2>1, <2>2, <2>3, <2>4 DEF Prepared
<1>6. CASE RequestCerts(n)
  <2>1. UNCHANGED <<conf, local>> /\ (EndPass(n, TRUE) \/ EndPass(n, FALSE)) /\ client[n].at = "certs"
    BY <1>6 DEF RequestCerts
  <2>2. IF m = n THEN /\ client'[m].at = "boot"
                      /\ client'[m].ready => client[m].ready \/ ~client[m].busy
        ELSE client'[m] = client[m]
    BY <2>1 DEF EndPass, Fresh
  <2> QED
    BY <2>1, <2>2 DEF Prepared
<1> QED
  BY <1>1, <1>2, <1>3, <1>4, <1>5, <1>6 DEF Keyclient

\* Without faults and edits the keyclients keep to the version that is redeployed.
LEMMA KeyclientNodes ==
  ASSUME TypeOK, FilesOK, KeyserverUp, NodesOK, NEW n \in Nodes, Keyclient(n), faults = 0, faults' = 0
  PROVE NodesOK'
<1>0. pc \in Nat /\ ~Fault /\ UNCHANGED <<project, cmd, pc, captured, edited>>
  BY DEF TypeOK, Keyclient, spire, Fault
<1>1. CASE pc <= 5
  BY <1>0, <1>1, NodesBefore
<1>2. CASE pc > 5
  <2> SUFFICES ASSUME cmd = "redeploy", edited = 0 PROVE NodesOK'
    BY <1>0 DEF NodesOK
  <2>0. captured \in Versions /\ Rendered[captured] \in Versions /\ Absent \notin Versions
    BY ConstantsAssumption DEF TypeOK, Versions, Absent
  <2>1. /\ file["cluster.conf"] = Rendered[captured] /\ Rendered[captured] # Absent
        /\ ks = captured /\ captured # Absent /\ captured = project
    BY <1>0, <1>2, <2>0 DEF FilesOK, KeyserverUp
  <2>2. \A m \in Nodes :
            /\ conf'[m] = conf[m] \/ (conf[m] = Absent /\ conf'[m] = Rendered[captured])
            /\ local'[m] = local[m] \/ (local[m] = Absent /\ local'[m] = captured)
            /\ Prepared(m) => Prepared(m)'
    BY <1>0, <2>1, KeyclientFetches
  <2>3. \A j \in DOMAIN NodeList : NodeList[j] \in Nodes
    BY DEF Nodes
  <2> HIDE DEF Prepared
  <2>4. ASSUME NEW j \in DOMAIN NodeList, NodeList[j] # Sup
        PROVE /\ pc' \in (4*j + 3)..(4*j + 5) => conf'[NodeList[j]] \in {Absent, Rendered[captured']}
              /\ pc' \in (4*j + 4)..(4*j + 5) => local'[NodeList[j]] \in {Absent, captured'}
              /\ pc' = 4*j + 5 => Prepared(NodeList[j])'
    BY <1>0, <2>2, <2>3, <2>4 DEF NodesOK
  <2>5. ASSUME NEW m \in Nodes \ {Sup}, Past(m)', ~Current(m)' PROVE Redeployed(m)'
    <3>1. Past(m) /\ ~Current(m)
      BY <1>0, <2>5 DEF Past, Current
    <3>2. Redeployed(m)
      BY <3>1 DEF NodesOK
    <3> QED
      BY <1>0, <2>1, <2>2, <3>2 DEF Redeployed
  <2> QED
    BY <2>4, <2>5 DEF NodesOK
<1> QED
  BY <1>0, <1>1, <1>2

\* What a successful operation of a redeployment does to the nodes.
LEMMA Effects ==
  ASSUME TypeOK, Spire, Advance, Busy
  PROVE /\ UNCHANGED project
        /\ Op[1] = "skip" => UNCHANGED <<conf, local, client>>
        /\ (Op[1] = "forget" /\ Op[3] = "conf") =>
                conf' = [conf EXCEPT ![Op[2]] = Absent] /\ UNCHANGED <<local, client>>
        /\ (Op[1] = "forget" /\ Op[3] = "local") =>
                local' = [local EXCEPT ![Op[2]] = Absent] /\ UNCHANGED <<conf, client>>
        /\ Op[1] = "kick" => client' = [client EXCEPT ![Op[2]] = Fresh] /\ UNCHANGED <<conf, local>>
        /\ Op[1] = "await" => client[Op[2]].ready /\ UNCHANGED <<conf, local, client>>
<1> USE DEF services, node
<1>0. ~Abort
  BY DEF Abort, Advance, Busy
<1>1. ~NotRun /\ ~Finish
  BY <1>0 DEF NotRun, Finish
<1>2. CASE Forget
  BY <1>2 DEF Forget, Remote, At, What
<1>3. CASE Kick
  BY <1>3 DEF Kick, Remote, At
<1>4. CASE Await
  BY <1>0, <1>4 DEF Await, At
<1>5. CASE Skip
  BY <1>5 DEF Skip, At
<1>6. CASE \/ Upload \/ Remove \/ Enable \/ RestartService \/ RestartSSH \/ RestartKeyserver
           \/ Truncate \/ Keyinitadmit \/ Confirm \/ SafeUploadKeytab \/ Access
           \/ ShiftAuthorizedKeys \/ Verify \/ Run
  <2>1. Op[1] \notin {"skip", "forget", "kick", "await"} /\ UNCHANGED project
    BY <1>6 DEF Upload, Remove, Enable, RestartService, RestartSSH, RestartKeyserver, Truncate,
       Keyinitadmit, Confirm, SafeUploadKeytab, Access, ShiftAuthorizedKeys, Verify, Run, Remote, At
  <2> QED
    BY <2>1
<1> QED
  BY <1>1, <1>2, <1>3, <1>4, <1>5, <1>6 DEF Spire

\* An operation for a node prepares it, or finds that its keyclient is ready again.
LEMMA NodeOperation ==
  ASSUME TypeOK, NodesOK, Spire, Advance, Busy, cmd = "redeploy", edited = 0, captured = project,
         NEW j \in DOMAIN NodeList, NEW r \in 0..3, pc = 4*j + 2 + r,
         RedeployStep(pc, Op)
  PROVE NodesOK'
<1> DEFINE n == NodeList[j]
<1>0. /\ DOMAIN NodeList \subseteq Nat \ {0} /\ n \in Nodes
      /\ \A i \in DOMAIN NodeList : NodeList[i] \in Nodes
  <2>1. DOMAIN NodeList \subseteq Nat \ {0}
    BY ConstantsAssumption
  <2> QED
    BY <2>1 DEF Nodes
<1>1. pc \in Nat /\ pc' = pc + 1 /\ UNCHANGED <<project, cmd, captured, edited>>
  BY Effects DEF TypeOK, Advance
<1>2. Op = IF r = 0 THEN <<IF n = Sup THEN "skip" ELSE "forget", n, "conf">>
           ELSE IF r = 1 THEN <<"forget", n, "local">>
           ELSE IF r = 2 THEN <<"kick", n, "keyclient">>
           ELSE <<"await", n, "keyclient">>
  BY <1>0 DEF RedeployStep
<1>3. \A i \in DOMAIN NodeList : i # j => pc \notin (4*i + 2)..(4*i + 5)
  BY <1>0, <1>1
<1>4. \A m : m # n => ~Current(m)
  BY <1>3 DEF Current
<1>5. /\ \A m \in Nodes \ {n} : conf'[m] = conf[m] /\ local'[m] = local[m]
      /\ r # 0 => conf' = conf
      /\ r # 1 => local' = local
      /\ (r = 0 /\ n # Sup) => conf'[n] = Absent
      /\ r = 1 => local'[n] = Absent
      /\ r = 2 => client'[n] = Fresh
      /\ r = 3 => client[n].ready
  BY <1>0, <1>2, Effects DEF TypeOK
<1>6. ASSUME n # Sup
      PROVE /\ r >= 1 => conf[n] \in {Absent, Rendered[captured]}
            /\ r >= 2 => local[n] \in {Absent, captured}
            /\ r = 3 => Prepared(n)
  BY <1>0, <1>1, <1>6 DEF NodesOK
<1>7. \A m \in Nodes \ {n, Sup} : Past(m) => Redeployed(m)
  BY <1>4 DEF NodesOK
<1>8. CASE r \in 0..2
  <2>1. ASSUME NEW i \in DOMAIN NodeList, NodeList[i] # Sup
        PROVE /\ pc' \in (4*i + 3)..(4*i + 5) => conf'[NodeList[i]] \in {Absent, Rendered[captured']}
              /\ pc' \in (4*i + 4)..(4*i + 5) => local'[NodeList[i]] \in {Absent, captured'}
              /\ pc' = 4*i + 5 => Prepared(NodeList[i])'
    <3>1. CASE i # j
      BY <1>0, <1>1, <1>3, <1>8, <3>1
    <3>2. CASE i = j
      <4>1. pc' \in (4*j + 3)..(4*j + 5) => conf'[n] \in {Absent, Rendered[captured']}
        BY <1>0, <1>1, <1>5, <1>6, <1>8, <2>1, <3>2
      <4>2. pc' \in (4*j + 4)..(4*j + 5) => local'[n] \in {Absent, captured'}
        BY <1>0, <1>1, <1>5, <1>6, <1>8, <2>1, <3>2
      <4>3. pc' = 4*j + 5 => Prepared(n)'
        BY <1>0, <1>1, <1>5, <1>8 DEF Prepared, Fresh
      <4> QED
        BY <3>2, <4>1, <4>2, <4>3
    <3> QED
      BY <3>1, <3>2
  <2>2. ASSUME NEW m \in Nodes \ {Sup}, Past(m)', ~Current(m)' PROVE Redeployed(m)'
    <3>1. m # n
      BY <1>0, <1>1, <1>8, <2>2 DEF Current
    <3>2. Past(m)
      BY <1>0, <1>1, <1>3, <1>8, <2>2, <3>1 DEF Past
    <3> QED
      BY <1>1, <1>5, <1>7, <3>1, <3>2 DEF Redeployed
  <2> QED
    BY <2>1, <2>2 DEF NodesOK
<1>9. CASE r = 3
  <2>1. ASSUME NEW i \in DOMAIN NodeList
        PROVE pc' \notin (4*i + 3)..(4*i + 5) /\ pc' \notin (4*i + 4)..(4*i + 5) /\ pc' # 4*i + 5
    BY <1>0, <1>1, <1>9
  <2>2. ASSUME NEW m \in Nodes \ {Sup}, Past(m)' PROVE Redeployed(m)'
    <3>1. CASE m = n
      <4>1. conf[n] = Rendered[captured] /\ local[n] = captured
        BY <1>5, <1>6, <1>9, <2>2, <3>1 DEF Prepared
      <4> QED
        BY <1>1, <1>5, <1>9, <3>1, <4>1 DEF Redeployed
    <3>2. CASE m # n
      <4>1. Past(m)
        BY <1>0, <1>1, <1>9, <2>2, <3>2 DEF Past
      <4> QED
        BY <1>1, <1>5, <1>7, <3>2, <4>1 DEF Redeployed
    <3> QED
      BY <3>1, <3>2
  <2> QED
    BY <2>1, <2>2 DEF NodesOK
<1> QED
  BY <1>8, <1>9

\* Without faults and edits the nodes that an operation leaves behind are redeployed.
LEMMA SpireNodes ==
  ASSUME TypeOK, FilesOK, NodesOK, Spire
  PROVE NodesOK'
<1>0. pc \in Nat
  BY DEF TypeOK
<1>1. CASE Abort
  BY <1>1 DEF Abort, NodesOK
<1>2. CASE ~Abort
  <2>1. Advance /\ Busy
    BY <1>2 DEF Spire, NotRun, Upload, Put, Remove, Forget, Enable, RestartService, RestartSSH,
       RestartKeyserver, Truncate, Keyinitadmit, Kick, Await, Confirm, SafeUploadKeytab, Access,
       ShiftAuthorizedKeys, Verify, Run, Skip, Finish, Ends, Remote, At
  <2>2. UNCHANGED <<project, cmd, captured, edited>> /\ pc' = pc + 1
    BY <2>1, Effects DEF Advance
  <2>3. CASE cmd # "redeploy" \/ edited # 0
    BY <2>2, <2>3 DEF NodesOK
  <2>4. CASE cmd = "redeploy" /\ edited = 0
    <3>1. RedeployStep(pc, Op)
      BY <2>1, <2>4, NextOperation
    <3>2. CASE pc <= 5
      BY <1>0, <2>2, <3>2, NodesBefore
    <3>3. CASE pc > 5
      <4>1. PICK j \in DOMAIN NodeList, r \in 0..3 : pc = 4*j + 2 + r
        <5>1. PICK j \in DOMAIN NodeList : pc \in {4*j + 2, 4*j + 3, 4*j + 4, 4*j + 5}
          BY <1>0, <3>1, <3>3 DEF RedeployStep
        <5>2. j \in Nat
          BY ConstantsAssumption
        <5>3. pc - (4*j + 2) \in 0..3 /\ pc = 4*j + 2 + (pc - (4*j + 2))
          BY <5>1, <5>2
        <5> QED
          BY <5>3
      <4> QED
        BY <2>1, <2>4, <3>1, <4>1, NodeOperation DEF FilesOK
    <3> QED
      BY <1>0, <3>2, <3>3
  <2> QED
    BY <2>3, <2>4
<1> QED
  BY <1>1, <1>2

\* The same of every step.
LEMMA NodesNext ==
  ASSUME TypeOK, FilesOK, KeyserverUp, NodesOK, [Next]_vars, faults = 0, faults' = 0
  PROVE NodesOK'
<1> USE DEF services, node, spire
<1>0. ~Fault /\ edited \in Nat
  BY DEF Fault, TypeOK
<1>1. CASE Spire
  BY <1>1, SpireNodes
<1>2. ASSUME NEW n \in Nodes, Keyclient(n) PROVE NodesOK'
  BY <1>2, KeyclientNodes
<1>3. ASSUME NEW n \in Nodes, Admit(n) PROVE NodesOK'
  BY <1>3, NodesStay DEF Admit
<1>4. ASSUME NEW c \in {"supervisor", "redeploy"}, Start(c) PROVE NodesOK'
  BY <1>4, NodesBefore DEF Start
<1>5. CASE Edit
  BY <1>0, <1>5 DEF Edit, StaticsChecked, NodesOK
<1>6. CASE StartKeyserver
  BY <1>6, NodesStay DEF StartKeyserver
<1>7. CASE CrashKeyserver \/ Reboot
  BY <1>0, <1>7 DEF CrashKeyserver, Reboot
<1>8. CASE UNCHANGED vars
  BY <1>8, NodesStay DEF vars
<1> QED
  BY <1>1, <1>2, <1>3, <1>4, <1>5, <1>6, <1>7, <1>8 DEF Next

-----------------------------------------------------------------------------
(* The theorems *)

\* The invariant holds after the installation of the supervisor.
LEMMA InitInv ==
  ASSUME Init
  PROVE IInv
<1> USE DEF Init
<1>1. TypeOK
  <2>1. 1 \in Versions /\ faults \in 0..MaxFaults /\ edits \in 0..MaxEdits
    BY ConstantsAssumption DEF Versions
  <2>2. file \in [Files -> Uploaded] /\ conf \in [Nodes -> Uploaded] /\ local \in [Nodes -> Uploaded]
    BY <2>1 DEF Uploaded
  <2>3. client \in [Nodes -> [at : {"boot", "grant", "userca", "conf", "local", "certs"},
                             busy : BOOLEAN, ready : BOOLEAN]]
    BY DEF Fresh
  <2> QED
    BY <2>1, <2>2, <2>3 DEF TypeOK, Uploaded
<1>2. FilesOK /\ NodesOK
  BY DEF FilesOK, NodesOK
<1>3. KeyserverUp /\ AccessOK
  BY DEF KeyserverUp, AccessOK, Files, Torn
<1>4. UserCAFirst
  BY DEF UserCAFirst, Fresh
<1> QED
  BY <1>1, <1>2, <1>3, <1>4 DEF IInv, Undisturbed

\* Every step preserves the invariant.
LEMMA NextInv ==
  ASSUME IInv, [Next]_vars
  PROVE IInv'
<1>1. TypeOK' /\ FilesOK'
  BY TypeNext, FilesNext DEF IInv
<1>2. ASSUME faults' = 0 PROVE faults = 0
  <2>1. faults \in Nat
    BY ConstantsAssumption DEF IInv, TypeOK
  <2>2. faults' = faults \/ faults' = faults + 1
    <3>1. CASE Spire
      BY <3>1 DEF Spire, NotRun, Upload, Put, Remove, Forget, Enable, RestartService, RestartSSH,
         RestartKeyserver, Truncate, Keyinitadmit, Kick, Await, Confirm, SafeUploadKeytab, Access,
         ShiftAuthorizedKeys, Verify, Run, Skip, Finish, Ends, Fault, NoFault
    <3>2. ASSUME NEW n \in Nodes, Keyclient(n) PROVE faults' = faults \/ faults' = faults + 1
      BY <3>2 DEF Keyclient, Bootstrap, ReplaceKeygrantingCert, FetchUserCA, FetchConf, FetchLocal,
         RequestCerts, Fault, NoFault
    <3>3. CASE UNCHANGED vars
      BY <3>3 DEF vars
    <3> QED
      BY <3>1, <3>2, <3>3 DEF Next, Start, Admit, Edit, CrashKeyserver, StartKeyserver, Reboot, Fault
  <2> QED
    BY <1>2, <2>1, <2>2
<1>3. ASSUME faults' = 0 PROVE Undisturbed'
  <2>1. faults = 0 /\ TypeOK /\ FilesOK /\ KeyserverUp /\ UserCAFirst /\ AccessOK /\ NodesOK
    BY <1>2, <1>3 DEF IInv, Undisturbed
  <2> QED
    BY <1>3, <2>1, UpNext, UserCANext, AccessNext, NodesNext DEF Undisturbed
<1> QED
  BY <1>1, <1>3 DEF IInv

\* The invariant holds in every behaviour.
THEOREM Invariance == Spec => []IInv
  BY InitInv, NextInv, PTL DEF Spec

\* Type correctness of the deployment: nothing but the services of the supervisor
\* sequence is ever enabled or run, whatever is interrupted.
THEOREM TypeCorrect == Spec => []TypeOK
  BY Invariance, PTL DEF IInv

\* After check_keystatics the keyserver's cluster.conf is the one of its setup.yaml, and
\* it runs with that, however often the command was interrupted and started over and
\* whatever cluster.conf shows of setup.yaml, unless this was edited twice meanwhile.
THEOREM ServesOneVersion == Spec => []ServedConfigConsistent
<1>1. IInv => ServedConfigConsistent
  <2> SUFFICES ASSUME IInv, StaticsChecked, edited <= 1
               PROVE /\ file["setup.yaml"] \in Versions
                     /\ file["cluster.conf"] = Rendered[file["setup.yaml"]]
                     /\ ks \in {Absent, file["setup.yaml"]}
    BY DEF ServedConfigConsistent
  <2>1. pc \in Nat /\ pc > 7 /\ cmd = "supervisor"
    BY CheckedAt DEF IInv, TypeOK
  <2> QED
    BY <2>1 DEF IInv, FilesOK
<1> QED
  BY <1>1, Invariance, PTL

\* Without faults the operator can log in to the supervisor at every moment of the
\* supervisor sequence and of any redeployments.
THEOREM KeepsAccess == Spec => []OperatorKeepsAccess
<1>1. IInv => OperatorKeepsAccess
  BY DEF IInv, Undisturbed, KeyserverUp, AccessOK, OperatorKeepsAccess, Reach
<1> QED
  BY <1>1, Invariance, PTL

\* An undisturbed redeployment ends with the new configuration on all nodes but the
\* supervisor, for any list of nodes.
THEOREM ReachesNodes == Spec => []RedeployReachesNodes
<1>1. IInv => RedeployReachesNodes
  <2> SUFFICES ASSUME IInv, RedeployEnds, NEW n \in Nodes \ {Sup}
               PROVE Redeployed(n)
    BY DEF RedeployReachesNodes
  <2>0. /\ TypeOK /\ NodesOK /\ pc \in Nat
        /\ cmd = "redeploy" /\ edited = 0 /\ pc > Len(Operations(cmd))
    BY DEF IInv, Undisturbed, RedeployEnds, TypeOK
  <2>1. pc > 5 + 4 * Len(NodeList)
    BY <2>0, LastOperation
  <2>2. PICK j \in DOMAIN NodeList : NodeList[j] = n
    BY DEF Nodes
  <2>3. \A i \in DOMAIN NodeList : pc > 4*i + 5
    BY <2>0, <2>1, ConstantsAssumption
  <2>4. Past(n) /\ ~Current(n)
    BY <2>0, <2>2, <2>3, ConstantsAssumption DEF Past, Current
  <2> QED
    BY <2>0, <2>4 DEF NodesOK
<1> QED
  BY <1>1, Invariance, PTL
=============================================================================
