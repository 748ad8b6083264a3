-------------------------- MODULE KeyServerProofs --------------------------
(***************************************************************************)
(* Proofs about KeyServer, for every cluster, any number of handlers and   *)
(* any sequence of requests.                                               *)
(***************************************************************************)
EXTENDS KeyServer, SequenceTheorems, TLAPS

\* What is known of a request once it was authenticated: the node behind it,
\* its address, and on whose behalf the rest of it is performed.
RequestOK(h) ==
    /\ request[h].by \in Nodes
    /\ request[h].ip = NodeIP[request[h].by]
    /\ request[h].by # Supervisor => Redeemed(request[h].by)
    /\ pc[h] = "impersonate" =>
        request[h].by = Supervisor /\ account[h] = Supervisor /\ request[h].user # None
    /\ pc[h] = "operate" =>
        /\ request[h].user # None => account[h] = request[h].user
        /\ \/ account[h] = request[h].by /\ request[h].user = None
           \/ request[h].by = Supervisor /\ account[h] \in KerberosAccounts

RequestsOK == \A h \in Handlers : pc[h] # "idle" => RequestOK(h)

EffectOK == EffectsConfined /\ GatewayConfined /\ AdminPowerNeedsSupervisor

Inv == TypeOK /\ RequestsOK /\ KeygrantNeedsToken /\ EffectOK

\* TypeOK in two parts: the handlers, and what they share.
Codes == {"none", "200", "400", "403", "aborted"}
LocalOK ==
    /\ pc \in [Handlers -> {"idle", "impersonate", "operate"}]
    /\ request \in [Handlers -> RequestType]
    /\ account \in [Handlers -> Accounts \cup {None}]
    /\ performed \in [Handlers -> BOOLEAN]
    /\ answer \in [code : Codes, performed : BOOLEAN]
SharedOK ==
    /\ now \in Nat /\ allocated \in Nat /\ bootAt \in 0..allocated
    /\ issued \subseteq Grants /\ redeemed \in Seq(Redemptions)
    /\ keygrant \in [Principals -> Int]

\* What a step of a handler has to establish besides SharedOK and
\* KeygrantNeedsToken.
HandlerInv == LocalOK /\ RequestsOK /\ EffectOK
-----------------------------------------------------------------------------
(* Facts about the configuration. *)

\* There is one supervisor, and CHOOSE finds it.
LEMMA SupervisorUnique ==
    Supervisor \in Nodes /\ \A n \in Nodes : IsSupervisor(n) <=> n = Supervisor
  BY SetupAssumption DEF LoadSpireSetup, Supervisor, IsSupervisor

\* No account is both a node's and a Kerberos user's, and None is no account.
LEMMA AccountsDisjoint ==
    /\ Nodes \cap KerberosAccounts = {}
    /\ None \notin Accounts \cup Strangers
    /\ Accounts \cup Strangers = Principals
  BY DistinctPrincipals, NoneAssumption
  DEF KerberosAccounts, Admins, Accounts, Principals

\* Who has the privileges that matter: only nodes renew keygranting
\* certificates, only the supervisor impersonates, and the powers of an
\* administrator are the supervisor's and the administrators'.
LEMMA PrivilegeFacts ==
    ASSUME NEW p, NEW api \in Privileges(p)
    PROVE  /\ p \in Accounts
           /\ api = "renew-keygrant" => p \in Nodes
           /\ api = "auth-to-kerberos" => p = Supervisor
           /\ api \in AdminAPIs => p = Supervisor \/ p \in KerberosAccounts
<1>1. CASE p \in Nodes
  BY <1>1, SupervisorUnique
  DEF Privileges, GrantsForNodeAccount, Accounts, AdminAPIs, GrantsForRootAdminAccount
<1>2. CASE p \notin Nodes /\ p \in Admins
  BY <1>2 DEF Privileges, GrantsForRootAdminAccount, Accounts, KerberosAccounts
<1> QED
  BY <1>1, <1>2 DEF Privileges

\* Direct authentication is for nodes, from their own address.
LEMMA AllowedFacts ==
    ASSUME NEW p, NEW ip, Allowed(p, ip)
    PROVE  p \in Nodes /\ ip = NodeIP[p]
  BY DEF Allowed, DisableDirectAuth
-----------------------------------------------------------------------------
(* What the building blocks of the actions do to the invariant. *)

\* Redemptions are never forgotten.
Monotone == \A p : Redeemed(p) => Redeemed(p)'

\* A redemption is remembered, and nothing earlier is forgotten.
LEMMA RedeemRemembered ==
    ASSUME TypeOK, NEW t \in issued, NEW at \in Nat, Tokens!Redeem(t, at)
    PROVE  Monotone /\ Redeemed(t.Subject)' /\ redeemed' \in Seq(Redemptions)
<1> DEFINE e == [presented |-> t.Token, Subject |-> t.Subject, claimed |-> t.claimed, at |-> at]
<1>1. redeemed \in Seq(Redemptions) /\ e \in Redemptions
  BY DEF TypeOK, Grants, Redemptions
<1>2. redeemed' = Append(redeemed, e)
  BY DEF Tokens!Redeem
<1>3. /\ redeemed' \in Seq(Redemptions) /\ Len(redeemed') = Len(redeemed) + 1
      /\ \A i \in 1..Len(redeemed) : redeemed'[i] = redeemed[i]
      /\ redeemed'[Len(redeemed) + 1] = e
  BY <1>1, <1>2, AppendProperties
<1>4. DOMAIN redeemed = 1..Len(redeemed) /\ DOMAIN redeemed' = 1..Len(redeemed) + 1
      /\ Len(redeemed) \in Nat
  BY <1>1, <1>3, LenProperties
<1>5. Monotone
  BY <1>3, <1>4 DEF Monotone, Redeemed
<1>6. Redeemed(t.Subject)'
  <2>1. Len(redeemed) + 1 \in DOMAIN redeemed'
    BY <1>4
  <2>2. redeemed'[Len(redeemed) + 1].Subject = t.Subject
    BY <1>3
  <2> QED
    BY <2>1, <2>2 DEF Redeemed
<1> QED
  BY <1>3, <1>5, <1>6

\* A step that redeems nothing forgets nothing.
LEMMA SameRedeemed == ASSUME UNCHANGED redeemed PROVE Monotone
  BY DEF Monotone, Redeemed

\* The two parts make up TypeOK.
LEMMA TypeParts ==
    (TypeOK <=> LocalOK /\ SharedOK) /\ (TypeOK' <=> LocalOK' /\ SharedOK')
  BY DEF TypeOK, LocalOK, SharedOK, Codes

\* An authenticated request of a node p is in order.
LEMMA AcceptStep ==
    ASSUME Inv, Monotone, NEW h \in Handlers, NEW p \in Nodes,
           NEW user \in Users \cup {None}, user # None => p = Supervisor,
           p # Supervisor => Redeemed(p)', Accept(h, p, NodeIP[p], user)
    PROVE  HandlerInv'
<1> USE DEF Accept, Silent
<1>1. LocalOK'
  BY TypeParts, AddressAssumption DEF Inv, LocalOK, RequestType, Accounts, NoAnswer, Codes
<1>2. ASSUME NEW g \in Handlers, g # h, pc'[g] # "idle" PROVE RequestOK(g)'
  BY <1>2, TypeParts DEF Inv, LocalOK, RequestsOK, RequestOK, Monotone
<1>3. RequestOK(h)'
  BY TypeParts DEF Inv, LocalOK, RequestOK
<1>4. EffectOK'
  BY DEF EffectOK, EffectsConfined, GatewayConfined, AdminPowerNeedsSupervisor, NoEffect,
         AdminAPIs, GrantsForRootAdminAccount
<1> QED
  BY <1>1, <1>2, <1>3, <1>4 DEF HandlerInv, RequestsOK

\* A step that changes no handler and has no effect.
LEMMA QuietStep ==
    ASSUME Inv, Monotone, UNCHANGED local, effect' = NoEffect,
           answer' \in [code : Codes, performed : BOOLEAN]
    PROVE  HandlerInv'
<1>1. LocalOK'
  BY TypeParts DEF Inv, LocalOK, local
<1>2. RequestsOK'
  BY DEF Inv, RequestsOK, RequestOK, Monotone, local
<1>3. EffectOK'
  BY DEF EffectOK, EffectsConfined, GatewayConfined, AdminPowerNeedsSupervisor, NoEffect,
         AdminAPIs, GrantsForRootAdminAccount
<1> QED
  BY <1>1, <1>2, <1>3 DEF HandlerInv

\* A request that ends, in whatever way.
LEMMA FailStep ==
    ASSUME Inv, NEW h \in Handlers, NEW code \in Codes, Fail(h, code)
    PROVE  Inv'
<1> USE DEF Fail
<1>1. LocalOK'
  BY TypeParts DEF Inv, LocalOK, RequestType, NoRequest
<1>2. RequestsOK'
  BY TypeParts DEF Inv, LocalOK, RequestsOK, RequestOK, Redeemed, registry
<1>3. EffectOK'
  BY DEF EffectOK, EffectsConfined, GatewayConfined, AdminPowerNeedsSupervisor, NoEffect,
         AdminAPIs, GrantsForRootAdminAccount
<1>4. SharedOK' /\ KeygrantNeedsToken'
  BY TypeParts DEF Inv, SharedOK, KeygrantNeedsToken, Redeemed, registry, Grants
<1> QED
  BY <1>1, <1>2, <1>3, <1>4, TypeParts DEF Inv

\* An operation that is performed under a privilege of the current account.
LEMMA PerformedStep ==
    ASSUME Inv, Monotone, NEW h \in Handlers, pc[h] = "operate",
           NEW api \in Privileges(account[h]), Performed(h, api)
    PROVE  HandlerInv'
<1> USE DEF Performed
<1>1. RequestOK(h) /\ account[h] \in Accounts
  BY PrivilegeFacts DEF Inv, RequestsOK
<1>2. LocalOK'
  BY TypeParts DEF Inv, LocalOK, NoAnswer, Codes
<1>3. RequestsOK'
  BY TypeParts DEF Inv, LocalOK, RequestsOK, RequestOK, Monotone
<1>4. effect'.api = api /\ effect'.account = account[h] /\ effect'.by = request[h].by
      /\ effect'.ip = request[h].ip /\ effect'.user = request[h].user
  OBVIOUS
<1>5. EffectsConfined' /\ GatewayConfined'
  BY <1>1, <1>4 DEF EffectsConfined, GatewayConfined, RequestOK
<1>6. AdminPowerNeedsSupervisor'
  BY <1>1, <1>4, PrivilegeFacts, AccountsDisjoint DEF AdminPowerNeedsSupervisor, RequestOK
<1> QED
  BY <1>2, <1>3, <1>5, <1>6 DEF HandlerInv, EffectOK
-----------------------------------------------------------------------------
(* The actions *)

\* A step that leaves what the handlers share as it is.
LEMMA SameShared ==
    ASSUME Inv, UNCHANGED <<now, registry, keygrant>>, HandlerInv'
    PROVE  Inv'
  BY TypeParts DEF Inv, HandlerInv, SharedOK, KeygrantNeedsToken, Redeemed, registry, Grants

\* Authentication, given that the principal has the token it needs.
LEMMA AuthenticateStep ==
    ASSUME Inv, Monotone, NEW h \in Handlers, NEW p, NEW ip,
           NEW user \in Users \cup {None}, user # None => p = Supervisor,
           p # Supervisor => Redeemed(p)', Authenticate(h, p, ip, user)
    PROVE  HandlerInv'
<1>1. CASE Allowed(p, ip) /\ Accept(h, p, ip, user)
  BY <1>1, AllowedFacts, AcceptStep
<1>2. CASE Refuse(h)
  BY <1>2, QuietStep DEF Refuse, Codes
<1> QED
  BY <1>1, <1>2 DEF Authenticate

\* A request with a bootstrap token keeps the invariant.
LEMMA TokenStep ==
    ASSUME Inv, NEW h \in Handlers, NEW id \in TokenIDs, NEW ip \in IPs, TokenRequest(h, id, ip)
    PROVE  Inv'
<1>1. CASE \E t \in issued : \E at \in 0..now :
            Tokens!Redeem(t, at) /\ Authenticate(h, t.Subject, ip, None)
  <2>1. PICK t \in issued : \E at \in 0..now :
            Tokens!Redeem(t, at) /\ Authenticate(h, t.Subject, ip, None)
    BY <1>1
  <2>2. PICK at \in 0..now : Tokens!Redeem(t, at) /\ Authenticate(h, t.Subject, ip, None)
    BY <2>1
  <2>3. TypeOK /\ at \in Nat
    BY DEF Inv, TypeOK
  <2>4. Monotone /\ Redeemed(t.Subject)' /\ redeemed' \in Seq(Redemptions)
    BY <2>2, <2>3, RedeemRemembered
  <2>5. HandlerInv'
    BY <2>2, <2>4, AuthenticateStep
  <2>6. SharedOK'
    BY <2>2, <2>4, TypeParts DEF Inv, SharedOK, TokenRequest, Tokens!Redeem, Grants
  <2>7. KeygrantNeedsToken'
    BY <2>4 DEF Inv, KeygrantNeedsToken, TokenRequest, Monotone
  <2> QED
    BY <2>5, <2>6, <2>7, TypeParts DEF Inv, HandlerInv
<1>2. CASE Refuse(h) /\ UNCHANGED <<now, issued, redeemed>>
  <2>1. HandlerInv'
    BY <1>2, QuietStep, SameRedeemed DEF Refuse, Codes
  <2> QED
    BY <1>2, <2>1, SameShared DEF TokenRequest, registry
<1> QED
  BY <1>1, <1>2 DEF TokenRequest

\* So does one with a client certificate: the holder was admitted with a token.
LEMMA CertStep ==
    ASSUME Inv, NEW h \in Handlers, NEW p \in Principals, NEW ip \in IPs, CertRequest(h, p, ip)
    PROVE  Inv'
<1>1. Monotone
  BY SameRedeemed DEF CertRequest, registry
<1>2. p # Supervisor => Redeemed(p)
  BY TypeParts DEF CertRequest, CertValid, Inv, KeygrantNeedsToken, SharedOK
<1>3. HandlerInv'
  BY <1>1, <1>2, AuthenticateStep DEF CertRequest, Monotone
<1> QED
  BY <1>3, SameShared DEF CertRequest

\* So does one through the gateway.
LEMMA GatewayStep ==
    ASSUME Inv, NEW h \in Handlers, NEW user \in Users, GatewayRequest(h, user)
    PROVE  Inv'
<1>1. Monotone
  BY SameRedeemed DEF GatewayRequest, registry
<1>2. HandlerInv'
  BY <1>1, AuthenticateStep DEF GatewayRequest
<1> QED
  BY <1>2, SameShared DEF GatewayRequest

\* An operation under a privilege of the account keeps the invariant; the
\* gateway's first operation is the impersonation of its user.
LEMMA PrivilegeStep ==
    ASSUME Inv, NEW h \in Handlers, NEW body, NEW api \in Privileges(account[h]),
           pc[h] = "operate" \/ (pc[h] = "impersonate" /\ api = "auth-to-kerberos"
                                 /\ body = request[h].user),
           \/ Sign(h, api, body) \/ Bootstrap(h, api, body)
           \/ Impersonate(h, api, body) \/ Reveal(h, api, body)
    PROVE  Inv'
<1>1. RequestOK(h) /\ account[h] \in Accounts
  BY PrivilegeFacts DEF Inv, RequestsOK
<1>2. CASE \E code \in {"400", "aborted"} : Fail(h, code)
  BY <1>2, FailStep DEF Codes
<1>3. CASE /\ api \in SigningAPIs /\ Performed(h, api) /\ UNCHANGED <<now, registry>>
           /\ keygrant' = IF api = "renew-keygrant"
                            THEN [keygrant EXCEPT ![account[h]] = now + KeygrantLife]
                            ELSE keygrant
  <2>1. pc[h] = "operate"
    BY <1>3 DEF SigningAPIs
  <2>2. Monotone /\ \A p : Redeemed(p)' <=> Redeemed(p)
    BY <1>3, SameRedeemed DEF registry, Redeemed
  <2>3. HandlerInv'
    BY <1>3, <2>1, <2>2, PerformedStep
  <2>4. account[h] \in Principals /\ now + KeygrantLife \in Int
    BY <1>1, TypeParts, LivesAssumption, AccountsDisjoint DEF Inv, SharedOK
  <2>5. SharedOK'
    BY <1>3, <2>4, TypeParts DEF Inv, SharedOK, registry, Grants
  <2>6. api = "renew-keygrant" => account[h] = Supervisor \/ Redeemed(account[h])
    BY <1>1, <2>1, PrivilegeFacts, AccountsDisjoint DEF RequestOK
  <2>7. KeygrantNeedsToken'
    BY <1>3, <2>2, <2>4, <2>6, TypeParts DEF Inv, SharedOK, KeygrantNeedsToken
  <2> QED
    BY <2>3, <2>5, <2>7, TypeParts DEF Inv, HandlerInv
<1>4. CASE Reveal(h, api, body) /\ Performed(h, api) /\ UNCHANGED <<now, registry, keygrant>>
  <2>1. pc[h] = "operate"
    BY <1>4 DEF Reveal, EmptyRequestAPIs
  <2>2. Monotone
    BY <1>4, SameRedeemed DEF registry
  <2>3. HandlerInv'
    BY <1>4, <2>1, <2>2, PerformedStep
  <2> QED
    BY <1>4, <2>3, SameShared
<1>5. CASE \E id \in TokenIDs :
            /\ api \in BootstrapAPIs /\ body \in Nodes
            /\ Tokens!Grant([Token |-> id, Subject |-> body,
                             expires |-> now + TokenLife, claimed |-> allocated + 1])
            /\ allocated' = allocated + 1
            /\ Performed(h, api)
            /\ UNCHANGED <<bootAt, keygrant>>
  <2>1. PICK id \in TokenIDs :
            /\ api \in BootstrapAPIs /\ body \in Nodes
            /\ Tokens!Grant([Token |-> id, Subject |-> body,
                             expires |-> now + TokenLife, claimed |-> allocated + 1])
            /\ allocated' = allocated + 1
            /\ Performed(h, api)
            /\ UNCHANGED <<bootAt, keygrant>>
    BY <1>5
  <2>2. pc[h] = "operate" /\ Monotone
    BY <2>1, SameRedeemed DEF BootstrapAPIs, Tokens!Grant
  <2>3. HandlerInv'
    BY <2>1, <2>2, PerformedStep
  <2>4. SharedOK'
    <3> DEFINE g == [Token |-> id, Subject |-> body,
                     expires |-> now + TokenLife, claimed |-> allocated + 1]
    <3>1. issued' = issued \cup {g} /\ UNCHANGED <<now, redeemed>>
      BY <2>1 DEF Tokens!Grant
    <3>2. issued \subseteq Grants' /\ g \in Grants'
      BY <2>1, TypeParts, LivesAssumption DEF Inv, SharedOK, Grants
    <3> QED
      BY <2>1, <3>1, <3>2, TypeParts DEF Inv, SharedOK
  <2>5. KeygrantNeedsToken'
    BY <2>1, <2>2 DEF Inv, KeygrantNeedsToken, Monotone
  <2> QED
    BY <2>3, <2>4, <2>5, TypeParts DEF Inv, HandlerInv
<1>6. CASE /\ api = "auth-to-kerberos" /\ body \in KerberosAccounts
           /\ account' = [account EXCEPT ![h] = body]
           /\ pc' = [pc EXCEPT ![h] = "operate"]
           /\ Silent
           /\ UNCHANGED <<now, registry, keygrant, request, performed>>
  <2>1. request[h].by = Supervisor
    BY <1>1, <1>6, PrivilegeFacts, AccountsDisjoint, SupervisorUnique DEF RequestOK
  <2>2. Monotone
    BY <1>6, SameRedeemed DEF registry
  <2>3. LocalOK'
    BY <1>6, TypeParts DEF Inv, LocalOK, Silent, NoAnswer, Codes, Accounts
  <2>4. pc[h] = "operate" => request[h].user = None
    BY <1>1, <1>6, PrivilegeFacts, AccountsDisjoint, SupervisorUnique DEF RequestOK
  <2>5. RequestsOK'
    <3>1. RequestOK(h)'
      BY <1>1, <1>6, <2>1, <2>2, <2>4, TypeParts DEF Inv, LocalOK, RequestOK, Monotone
    <3>2. ASSUME NEW g \in Handlers, g # h, pc'[g] # "idle" PROVE RequestOK(g)'
      BY <1>6, <2>2, <3>2, TypeParts DEF Inv, LocalOK, RequestsOK, RequestOK, Monotone
    <3> QED
      BY <3>1, <3>2 DEF RequestsOK
  <2>6. EffectOK'
    BY <1>6 DEF Silent, EffectOK, EffectsConfined, GatewayConfined,
                AdminPowerNeedsSupervisor, NoEffect, AdminAPIs, GrantsForRootAdminAccount
  <2> QED
    BY <1>6, <2>3, <2>5, <2>6, SameShared DEF HandlerInv
<1> QED
  BY <1>2, <1>3, <1>4, <1>5, <1>6
  DEF Sign, TLSSign, SSHSign, SigningAPIs, SSHAPIs, Bootstrap, BootstrapFor, Impersonate, ImpersonateIn, Reveal
-----------------------------------------------------------------------------
\* The invariant holds in every reachable state.
THEOREM Invariance == Spec => []Inv
<1>1. Init => Inv
  <2> SUFFICES ASSUME Init PROVE Inv
    OBVIOUS
  <2>1. TypeOK
    BY EmptySeq DEF Init, TypeOK, NoAnswer, NoRequest, RequestType
  <2>2. RequestsOK /\ KeygrantNeedsToken
    BY DEF Init, RequestsOK, KeygrantNeedsToken
  <2>3. EffectOK
    BY DEF Init, EffectOK, EffectsConfined, GatewayConfined,
           AdminPowerNeedsSupervisor, NoEffect, AdminAPIs, GrantsForRootAdminAccount
  <2> QED
    BY <2>1, <2>2, <2>3 DEF Inv
<1>2. Inv /\ [Next]_vars => Inv'
  <2> SUFFICES ASSUME Inv, [Next]_vars PROVE Inv'
    OBVIOUS
  <2>1. ASSUME NEW h \in Handlers, NEW id \in TokenIDs, NEW ip \in IPs, TokenRequest(h, id, ip)
        PROVE  Inv'
    BY <2>1, TokenStep
  <2>2. ASSUME NEW h \in Handlers, NEW p \in Principals, NEW ip \in IPs, CertRequest(h, p, ip)
        PROVE  Inv'
    BY <2>2, CertStep
  <2>3. ASSUME NEW h \in Handlers, AnonymousRequest(h) PROVE Inv'
    <3>1. HandlerInv'
      BY <2>3, QuietStep, SameRedeemed DEF AnonymousRequest, Refuse, Codes, registry
    <3> QED
      BY <2>3, <3>1, SameShared DEF AnonymousRequest
  <2>4. ASSUME NEW h \in Handlers, NEW user \in Users, GatewayRequest(h, user) PROVE Inv'
    BY <2>4, GatewayStep
  <2>5. ASSUME NEW h \in Handlers, NEW api \in APIs, Operation(h, api) PROVE Inv'
    BY <2>5, PrivilegeStep, FailStep DEF Operation, InvokeAPIOperation, Codes
  <2>6. ASSUME NEW h \in Handlers, GatewayOperation(h) PROVE Inv'
    BY <2>6, PrivilegeStep, FailStep DEF GatewayOperation, InvokeAPIOperation, Codes
  <2>7. ASSUME NEW h \in Handlers, MalformedOperation(h) \/ Finish(h) PROVE Inv'
    BY <2>7, FailStep DEF MalformedOperation, Finish, Codes
  <2>8. CASE KeyInitAdmit
    <3>1. HandlerInv'
      BY <2>8, QuietStep, SameRedeemed DEF KeyInitAdmit, Silent, NoAnswer, Codes, registry
    <3>2. Supervisor \in Principals
      BY SupervisorUnique DEF Principals, Accounts
    <3>3. SharedOK' /\ KeygrantNeedsToken'
      BY <2>8, <3>2, TypeParts
      DEF Inv, KeyInitAdmit, SharedOK, KeygrantNeedsToken, Redeemed, registry, Grants
    <3> QED
      BY <3>1, <3>3, TypeParts DEF Inv, HandlerInv
  <2>9. CASE Restart
    <3>1. LocalOK' /\ SharedOK'
      BY <2>9, TypeParts
      DEF Inv, Restart, LocalOK, SharedOK, Silent, NoAnswer, NoRequest, RequestType, Codes, Grants
    <3>2. RequestsOK' /\ KeygrantNeedsToken'
      BY <2>9 DEF Inv, Restart, RequestsOK, KeygrantNeedsToken, Redeemed
    <3>3. EffectOK'
      BY <2>9 DEF Restart, Silent, EffectOK, EffectsConfined, GatewayConfined,
                  AdminPowerNeedsSupervisor, NoEffect, AdminAPIs, GrantsForRootAdminAccount
    <3> QED
      BY <3>1, <3>2, <3>3, TypeParts DEF Inv
  <2>10. CASE Tick
    <3>1. HandlerInv'
      BY <2>10, QuietStep, SameRedeemed DEF Tick, Silent, NoAnswer, Codes, registry
    <3>2. SharedOK' /\ KeygrantNeedsToken'
      BY <2>10, TypeParts DEF Inv, Tick, SharedOK, KeygrantNeedsToken, Redeemed, registry, Grants
    <3> QED
      BY <3>1, <3>2, TypeParts DEF Inv, HandlerInv
  <2>11. CASE UNCHANGED vars
    BY <2>11 DEF vars, registry, local, output, Inv, TypeOK, Grants, RequestsOK, RequestOK, KeygrantNeedsToken,
                 Redeemed, EffectOK, EffectsConfined, GatewayConfined, AdminPowerNeedsSupervisor
  <2> QED
    BY <2>1, <2>2, <2>3, <2>4, <2>5, <2>6, <2>7, <2>8, <2>9, <2>10, <2>11 DEF Next
<1> QED
  BY <1>1, <1>2, PTL DEF Spec

\* Type correctness.
THEOREM TypeCorrect == Spec => []TypeOK
  BY Invariance, PTL DEF Inv

\* What is signed, granted or revealed is so for the authenticated node, from
\* its own address, or for a Kerberos account on a request of the supervisor.
THEOREM Confinement == Spec => []EffectsConfined
  BY Invariance, PTL DEF Inv, EffectOK

\* A Kerberos user who comes through the gateway only acts as themselves.
THEOREM GatewayConfinement == Spec => []GatewayConfined
  BY Invariance, PTL DEF Inv, EffectOK

\* Nobody but the supervisor gets a keygranting certificate without a token.
THEOREM AdmissionByToken == Spec => []KeygrantNeedsToken
  BY Invariance, PTL DEF Inv

\* The powers of an administrator are only used through the supervisor.
THEOREM AdminThroughSupervisor == Spec => []AdminPowerNeedsSupervisor
  BY Invariance, PTL DEF Inv, EffectOK
=============================================================================
