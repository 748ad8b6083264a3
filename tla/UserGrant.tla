----------------------------- MODULE UserGrant -----------------------------
(***************************************************************************)
(* The user-grant website (platform/user-grant/grant.go).  A user shows a  *)
(* client certificate of the upstream authority over TLS; the service      *)
(* creates the namespace of that user, binds the user to the admin role in *)
(* it, signs a Kubernetes certificate and answers with a kubeconfig.       *)
(*                                                                         *)
(* Each request is served by a goroutine of its own and is four steps: the *)
(* client certificate is checked again, the two objects are created by two *)
(* calls of the Kubernetes API, and the kubeconfig is rendered.  The API   *)
(* may refuse a call or lose its answer, and the service may crash,        *)
(* between any two of them.                                                *)
(***************************************************************************)
EXTENDS Naturals, Sequences

CONSTANTS
    Handlers,         \* the goroutines of the HTTP server, one per connection
    Users,            \* local parts of e-mail addresses
    Unnameable,       \* the users whose "user-" name Kubernetes refuses
    ClientCerts,      \* certificates that clients may show
    Configs,          \* command lines the service may be started with
    EmailAuthDomain,  \* the value of email-domain
    NotAString,       \* the domain of an attribute that is not a string
    NoUser,
    MaxTime,          \* bound: last value of the clock
    MaxFaults         \* bound: API failures and crashes

\* A certificate's names are the attributes of its subject, in order; chain
\* tells whether the upstream authority signed it itself or by an intermediate.
CertType ==
    [names : Seq([type : {"email", "other"}, local : Users, domain : {EmailAuthDomain, NotAString, "other"}]),
     chain : {"direct", "intermediate", "unknown"},
     notAfter : Nat]

\* What a command line is: which of its settings are there, whether the files
\* load, and whether the kube-ca file has any contents.
ConfigType ==
    [address : BOOLEAN, apiserver : BOOLEAN, domain : BOOLEAN, files : BOOLEAN, kubeCA : BOOLEAN]

ASSUME CertsAssumption == ClientCerts \subseteq CertType
ASSUME ConfigsAssumption == Configs \subseteq ConfigType
ASSUME UsersAssumption == Unnameable \subseteq Users /\ NoUser \notin Users
ASSUME BoundsAssumption == MaxTime \in Nat /\ MaxFaults \in Nat

VARIABLES
    now,
    faults,      \* API failures and crashes so far
    up,          \* whether the service serves
    config,      \* its Config
    conn,        \* the open connection of each handler
    pc,          \* where each handler is
    user,        \* the local variable of HandleRequest
    namespaces,  \* namespaces of the cluster, each named after its user
    bindings,    \* role bindings of the cluster
    handed,      \* history: the kubeconfigs that were sent
    authed       \* history: who was let in with which certificate, and when

cluster == <<namespaces, bindings>>
history == <<handed, authed>>
vars == <<now, faults, up, config, conn, pc, user, cluster, history>>

Closed == [open |-> FALSE, certs |-> {}]
Namespace(u) == <<"user-", u>>
RoleBinding(u) == [namespace |-> Namespace(u), name |-> <<"auto-grant-", u>>, subject |-> <<"user:", u>>]

Goto(h, label) == pc' = [pc EXCEPT ![h] = label]

\* The request is over; the connection stays open for another one.
Done(h) ==
    /\ Goto(h, "idle")
    /\ user' = [user EXCEPT ![h] = NoUser]

Fault == faults < MaxFaults /\ faults' = faults + 1
-----------------------------------------------------------------------------
(* Starting the service, and its connections *)

\* The checks of LoadConfig, without which the process exits.
LoadConfig(c) == c.address /\ c.apiserver /\ c.domain /\ c.files

Launch ==
    /\ ~up
    /\ \E c \in Configs : LoadConfig(c) /\ config' = c
    /\ up' = TRUE
    /\ UNCHANGED <<now, faults, conn, pc, user, cluster, history>>

\* Verification of a client certificate under the pool of GetClientCAs; the
\* TLS library also has the intermediates the client sent.
Verify(c, chains) == c.chain \in chains /\ now <= c.notAfter

\* tls.VerifyClientCertIfGiven: a certificate is optional, but a bad one ends
\* the handshake.
Handshake(h) ==
    /\ up /\ conn[h] = Closed
    /\ \/ conn' = [conn EXCEPT ![h] = [open |-> TRUE, certs |-> {}]]
       \/ \E c \in ClientCerts :
            /\ Verify(c, {"direct", "intermediate"})
            /\ conn' = [conn EXCEPT ![h] = [open |-> TRUE, certs |-> {c}]]
    /\ UNCHANGED <<now, faults, up, config, pc, user, cluster, history>>

Disconnect(h) ==
    /\ conn[h] # Closed /\ pc[h] = "idle"
    /\ conn' = [conn EXCEPT ![h] = Closed]
    /\ UNCHANGED <<now, faults, up, config, pc, user, cluster, history>>

\* The pod dies.
Crash ==
    /\ up /\ Fault
    /\ up' = FALSE
    /\ conn' = [h \in Handlers |-> Closed]
    /\ pc' = [h \in Handlers |-> "idle"]
    /\ user' = [h \in Handlers |-> NoUser]
    /\ UNCHANGED <<now, config, cluster, history>>

Tick ==
    /\ now < MaxTime /\ now' = now + 1
    /\ UNCHANGED <<faults, up, config, conn, pc, user, cluster, history>>
-----------------------------------------------------------------------------
(* HandleRequest *)

\* The first e-mail attribute decides, and its domain has to be the right one.
ExtractEmail(c, u) ==
    \E i \in DOMAIN c.names :
        /\ c.names[i].type = "email"
        /\ \A j \in 1..(i - 1) : c.names[j].type # "email"
        /\ c.names[i].domain = EmailAuthDomain
        /\ c.names[i].local = u

\* Mutant: what the handshake verified is taken for good.
AuthenticateAsShaken(h, c, u) == c \in conn[h].certs /\ ExtractEmail(c, u)

\* The certificate of the handshake is verified again, now and without
\* intermediates: connections live long.
Authenticate(h, c, u) ==
    /\ c \in conn[h].certs
    /\ Verify(c, {"direct"})
    /\ ExtractEmail(c, u)

\* A request of user u is let in.  One that Authenticate lets nobody in with is
\* answered with an error, and nothing changes.
Enter(h, u) ==
    /\ conn[h] # Closed /\ pc[h] = "idle"
    /\ \E c \in ClientCerts :
        /\ Authenticate(h, c, u)
        /\ authed' = authed \cup {[user |-> u, cert |-> c, at |-> now]}
    /\ user' = [user EXCEPT ![h] = u]
    /\ Goto(h, "namespace")
    /\ UNCHANGED <<now, faults, up, config, conn, cluster, handed>>

\* The API call fails in one of two ways: with a StatusError, which ends the
\* request, or on the way, which fails the type assertion; net/http recovers
\* from that panic and closes the connection.  The lost call may have worked.
Refused(h) == Done(h) /\ UNCHANGED conn
Panics(h) == Done(h) /\ conn' = [conn EXCEPT ![h] = Closed]

\* Mutant: a namespace that is there already is an error like any other.
CreateNamespaceOnce(h) ==
    LET n == Namespace(user[h]) IN
    /\ pc[h] = "namespace"
    /\ \/ /\ user[h] \notin Unnameable /\ n \notin namespaces
          /\ namespaces' = namespaces \cup {n}
          /\ Goto(h, "grant")
          /\ UNCHANGED <<user, conn, faults>>
       \/ /\ user[h] \in Unnameable \/ n \in namespaces
          /\ Refused(h)
          /\ UNCHANGED <<namespaces, faults>>
       \/ /\ Fault /\ Refused(h)
          /\ UNCHANGED namespaces
       \/ /\ Fault /\ Panics(h)
          /\ namespaces' \in {namespaces, namespaces \cup ({n} \ {Namespace(u) : u \in Unnameable})}
    /\ UNCHANGED <<now, up, config, bindings, history>>

\* Mutant of CreateNamespace: the namespace is named after the user alone, without the prefix.
CreateNamespaceUnprefixed(h) ==
    /\ pc[h] = "namespace"
    /\ namespaces' = namespaces \cup {user[h]}
    /\ Goto(h, "grant")
    /\ UNCHANGED <<now, up, config, user, conn, faults, bindings, history>>

\* The namespace is created, or was there already, or the call fails.
CreateNamespace(h) ==
    LET n == Namespace(user[h]) IN
    /\ pc[h] = "namespace"
    /\ \/ /\ user[h] \notin Unnameable
          /\ namespaces' = namespaces \cup {n}
          /\ Goto(h, "grant")
          /\ UNCHANGED <<user, conn, faults>>
       \/ /\ user[h] \in Unnameable
          /\ Refused(h)
          /\ UNCHANGED <<namespaces, faults>>
       \/ /\ Fault /\ Refused(h)
          /\ UNCHANGED namespaces
       \/ /\ Fault /\ Panics(h)
          /\ namespaces' \in {namespaces, namespaces \cup ({n} \ {Namespace(u) : u \in Unnameable})}
    /\ UNCHANGED <<now, up, config, bindings, history>>

\* Mutant: whatever the API answers is taken for "already existed".
GrantAccessLenient(h) ==
    /\ pc[h] = "grant"
    /\ \/ /\ bindings' = bindings \cup {RoleBinding(user[h])}
          /\ UNCHANGED faults
       \/ /\ Fault
          /\ UNCHANGED bindings
    /\ Goto(h, "render")
    /\ UNCHANGED <<now, up, config, conn, user, namespaces, history>>

\* The same with the role binding, which exists once a binding of that name
\* does.
GrantAccess(h) ==
    /\ pc[h] = "grant"
    /\ \/ /\ bindings' = bindings \cup {RoleBinding(user[h])}
          /\ Goto(h, "render")
          /\ UNCHANGED <<user, conn, faults>>
       \/ /\ Fault /\ Refused(h)
          /\ UNCHANGED bindings
       \/ /\ Fault /\ Panics(h)
          /\ bindings' \in {bindings, bindings \cup {RoleBinding(user[h])}}
    /\ UNCHANGED <<now, up, config, namespaces, history>>

\* Each field of the response consists of one or more harmless characters.
Validate(r) == r.key /\ r.cert /\ r.authority /\ r.server

\* Whether there is a certificate: CertGen may fail.
CertGen(cert) == IF cert THEN UNCHANGED faults ELSE Fault

\* The key is generated and the certificate signed; the error of CertGen is
\* not looked at, so that cert may be empty.
Render(h) ==
    /\ pc[h] = "render"
    /\ \E cert \in BOOLEAN :
        LET r == [user |-> user[h], key |-> TRUE, cert |-> cert,
                  authority |-> config.kubeCA, server |-> config.apiserver] IN
        /\ CertGen(cert)
        /\ handed' = IF Validate(r) THEN handed \cup {r} ELSE handed
    /\ Done(h)
    /\ UNCHANGED <<now, up, config, conn, cluster, authed>>

\* GenerateRSA fails, or the answer is not written.
RenderFails(h) ==
    /\ pc[h] = "render"
    /\ Fault /\ Done(h)
    /\ UNCHANGED <<now, up, config, conn, cluster, history>>

Serve(h) == CreateNamespace(h) \/ GrantAccess(h) \/ Render(h) \/ RenderFails(h)

Init ==
    /\ now = 0 /\ faults = 0 /\ up = FALSE
    /\ config \in Configs
    /\ conn = [h \in Handlers |-> Closed]
    /\ pc = [h \in Handlers |-> "idle"]
    /\ user = [h \in Handlers |-> NoUser]
    /\ namespaces = {} /\ bindings = {}
    /\ handed = {} /\ authed = {}

Next ==
    \/ Launch \/ Crash \/ Tick
    \/ \E h \in Handlers : Handshake(h) \/ Disconnect(h) \/ (\E u \in Users : Enter(h, u)) \/ Serve(h)

Spec == Init /\ [][Next]_vars

\* A request that has begun is served to its end.
FairSpec == Spec /\ \A h \in Handlers : WF_vars(Serve(h))
-----------------------------------------------------------------------------
(* Properties *)

TypeOK ==
    /\ now \in Nat /\ faults \in Nat /\ up \in BOOLEAN
    /\ config \in ConfigType
    /\ conn \in [Handlers -> [open : BOOLEAN, certs : SUBSET ClientCerts]]
    /\ pc \in [Handlers -> {"idle", "namespace", "grant", "render"}]
    /\ user \in [Handlers -> Users \cup {NoUser}]
    /\ namespaces \subseteq {Namespace(u) : u \in Users}
    /\ bindings \subseteq {RoleBinding(u) : u \in Users}
    /\ authed \subseteq [user : Users, cert : ClientCerts, at : Nat]
    /\ handed \subseteq [user : Users, key : BOOLEAN, cert : BOOLEAN, authority : BOOLEAN, server : BOOLEAN]
    /\ ~up => \A h \in Handlers : conn[h] = Closed /\ pc[h] = "idle"

\* HandleRequest never answers with a kubeconfig that cannot work: the user's
\* namespace and role binding exist and no part of it is empty, although
\* failures of the API calls are told from "already existed" by their reason
\* only and the error of CertGen is dropped.
KubeconfigsWork ==
    \A r \in handed :
        /\ Namespace(r.user) \in namespaces
        /\ RoleBinding(r.user) \in bindings
        /\ r.cert /\ r.authority /\ r.server

\* User u once showed a certificate of the upstream authority in time.
Admitted(u) ==
    \E a \in authed :
        /\ a.user = u /\ ExtractEmail(a.cert, u)
        /\ a.cert.chain = "direct" /\ a.at <= a.cert.notAfter

\* Whatever requests race, fail half-way or come over a connection opened long
\* ago: a namespace, a role binding and a kubeconfig are only ever made for the
\* user of a certificate that the upstream authority signed and that had not
\* expired when the request was authenticated.
OnlyTheOwner ==
    /\ \A u \in Users : Namespace(u) \in namespaces \/ RoleBinding(u) \in bindings => Admitted(u)
    /\ \A r \in handed : Admitted(r.user)

\* A request that failed half-way does not stand in the way of the next one: a
\* user who keeps asking gets a kubeconfig once the failures end.
RetriesSucceed ==
    \A u \in Users \ Unnameable :
        []<>(\E h \in Handlers : user[h] = u) /\ [](up => config.kubeCA)
            => <>(\E r \in handed : r.user = u)
=============================================================================
