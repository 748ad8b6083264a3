----------------------------- MODULE KeyServer -----------------------------
(***************************************************************************)
(* The keyserver's API endpoint (keysystem/keyserver/keyapi, operation,    *)
(* account, authorities) with the gateway for Kerberos users in front of   *)
(* it (keysystem/keygateway) and keyinitadmit beside it.                   *)
(*                                                                         *)
(* Handlers serve requests concurrently.  A request is authenticated, and  *)
(* then its operations are performed one after the other, each as a step:  *)
(* the operations of a request are chosen when they are performed, which   *)
(* covers every list of operations a client can send.  The token registry  *)
(* is used through what it promises, OneTimeTokens.                        *)
(*                                                                         *)
(* Clients are arbitrary: any address, any token string, any keygranting   *)
(* certificate that was ever signed and has not expired.                   *)
(***************************************************************************)
EXTENDS WorldConfig, Sequences

CONSTANTS
    Handlers,      \* the goroutines that serve API requests
    TokenIDs,      \* the strings generateTokenID can return
    IPs,           \* the addresses requests can come from
    Strangers,     \* Kerberos principals that have no account
    TokenLife,     \* one hour
    KeygrantLife,  \* forty days
    MaxGrants,     \* bound: number of tokens granted
    MaxTime,       \* bound: last value of the clock
    None

ASSUME LivesAssumption == TokenLife \in Nat /\ KeygrantLife \in Nat
ASSUME AddressAssumption == NodeIP \in [Nodes -> IPs]
ASSUME BoundsAssumption == MaxGrants \in Nat /\ MaxTime \in Nat
ASSUME NoneAssumption == None \notin Nodes \cup RootAdmins \cup {Metrics, HostKeytab} \cup Strangers

VARIABLES
    now,       \* time.Now()
    allocated, \* how many tokens were ever granted: the names are 1..allocated
    issued,    \* the tokens GrantToken has returned
    redeemed,  \* the tokens that were claimed
    bootAt,    \* tokens of the running server are those named above bootAt
    keygrant,  \* NotAfter of the longest-lived keygranting certificate that
               \* was signed with this common name; -1 if there is none
    pc,        \* where each handler is
    request,   \* the request each handler serves
    account,   \* ctx.Account of each handler
    performed, \* whether an operation of the request has had an effect
    answer,    \* history: the answer sent by the last step, if it sent one
    effect     \* history: what the last step signed, granted or revealed, if anything

Users == KerberosAccounts \cup Strangers
Principals == Accounts \cup Strangers

Tokens == INSTANCE OneTimeTokens WITH clock <- now, Subjects <- Principals

registry == <<allocated, issued, redeemed, bootAt>>
local == <<pc, request, account, performed>>
output == <<answer, effect>>
vars == <<now, registry, keygrant, local, output>>

Bodies == {"", "csr"} \cup Principals

\* cert is the common name; user is the Kerberos identity (KNC_CREDS) of a
\* request that comes through the gateway; by is the authenticated principal.
NoRequest == [by |-> None, ip |-> None, user |-> None]
NoAnswer == [code |-> "none", performed |-> FALSE]
NoEffect == [api |-> "none", account |-> None, by |-> None, ip |-> None, user |-> None]

Live(t) == t.claimed > bootAt /\ now <= t.expires
Spent(t) == \E i \in DOMAIN redeemed : redeemed[i].claimed = t.claimed
CertValid(p) == now <= keygrant[p]

Silent == answer' = NoAnswer /\ effect' = NoEffect

-----------------------------------------------------------------------------
(* attemptAuthentication *)

\* Mutant: verifyAccountIP accepts every address.
AllowedAnywhere(p, ip) == p \in Accounts /\ ~DisableDirectAuth(p)

\* GetAccount, DisableDirectAuth and verifyAccountIP.
Allowed(p, ip) == p \in Accounts /\ ~DisableDirectAuth(p) /\ ip = NodeIP[p]

Accept(h, p, ip, user) ==
    /\ pc' = [pc EXCEPT ![h] = IF user = None THEN "operate" ELSE "impersonate"]
    /\ request' = [request EXCEPT ![h] = [by |-> p, ip |-> ip, user |-> user]]
    /\ account' = [account EXCEPT ![h] = p]
    /\ performed' = [performed EXCEPT ![h] = FALSE]
    /\ Silent

\* A refused handler changes nothing but its answer.
Refuse(h) ==
    /\ answer' = [code |-> "400", performed |-> FALSE]
    /\ effect' = NoEffect
    /\ UNCHANGED local

\* The account of an authenticated principal.
Authenticate(h, p, ip, user) ==
    \/ Allowed(p, ip) /\ Accept(h, p, ip, user)
    \/ ~Allowed(p, ip) /\ Refuse(h)

\* The token is tried first and is spent even if the request is then refused.
\* The expiry may have been checked at an earlier time `at'.
TokenRequest(h, id, ip) ==
    /\ pc[h] = "idle"
    /\ \/ \E t \in issued : \E at \in 0..now :
            /\ t.Token = id /\ t.claimed > bootAt
            /\ Tokens!Redeem(t, at)
            /\ Authenticate(h, t.Subject, ip, None)
       \/ /\ ~\E t \in issued : t.Token = id /\ Live(t) /\ ~Spent(t)
          /\ Refuse(h)
          /\ UNCHANGED <<now, issued, redeemed>>
    /\ UNCHANGED <<allocated, bootAt, keygrant>>

\* TLSAuthority.Verify: the client certificate, if no token was sent.
CertRequest(h, p, ip) ==
    /\ pc[h] = "idle"
    /\ CertValid(p)
    /\ Authenticate(h, p, ip, None)
    /\ UNCHANGED <<now, registry, keygrant>>

\* No token, and no certificate or one that is not valid any more.
AnonymousRequest(h) ==
    /\ pc[h] = "idle"
    /\ Refuse(h)
    /\ UNCHANGED <<now, registry, keygrant>>

\* The gateway runs on the supervisor and uses its certificate; it puts an
\* impersonation in front of the operations of the user.
GatewayRequest(h, user) ==
    /\ pc[h] = "idle"
    /\ CertValid(Supervisor)
    /\ Authenticate(h, Supervisor, NodeIP[Supervisor], user)
    /\ UNCHANGED <<now, registry, keygrant>>
-----------------------------------------------------------------------------
(* InvokeAPIOperationSet *)

\* The operation succeeds with an effect that outlives the request.
Performed(h, api) ==
    /\ effect' = [api |-> api, account |-> account[h], by |-> request[h].by,
                  ip |-> request[h].ip, user |-> request[h].user]
    /\ performed' = [performed EXCEPT ![h] = TRUE]
    /\ pc' = [pc EXCEPT ![h] = "operate"]
    /\ answer' = NoAnswer
    /\ UNCHANGED <<request, account>>

\* The operation fails: the whole request does, and later operations are not
\* tried; what earlier ones did stays done.
Fail(h, code) ==
    /\ pc' = [pc EXCEPT ![h] = "idle"]
    /\ answer' = [code |-> code, performed |-> performed[h]]
    /\ request' = [request EXCEPT ![h] = NoRequest]
    /\ account' = [account EXCEPT ![h] = None]
    /\ performed' = [performed EXCEPT ![h] = FALSE]
    /\ effect' = NoEffect
    /\ UNCHANGED <<now, registry, keygrant>>

\* TLSAuthority.Sign.  Only keygranting certificates can be used on this server.
TLSSign(h, api, body) ==
    /\ api \in SigningAPIs \ SSHAPIs
    /\ \/ /\ body = "csr"
          /\ keygrant' = IF api = "renew-keygrant"
                          THEN [keygrant EXCEPT ![account[h]] = now + KeygrantLife]
                          ELSE keygrant
          /\ Performed(h, api)
          /\ UNCHANGED <<now, registry>>
       \/ body # "csr" /\ Fail(h, "400")

\* SSHAuthority.Sign: here "csr" is a single ssh public key.
SSHSign(h, api, body) ==
    /\ api \in SSHAPIs
    /\ \/ body = "csr" /\ Performed(h, api) /\ UNCHANGED <<now, registry, keygrant>>
       \/ body # "csr" /\ Fail(h, "400")

\* NewTLSGrantPrivilege and NewSSHGrantPrivilege
Sign(h, api, body) == TLSSign(h, api, body) \/ SSHSign(h, api, body)

\* NewBootstrapPrivilege.  A collision of token strings panics: net/http aborts
\* the connection of this handler.
BootstrapFor(h, api, body, group) ==
    /\ api \in BootstrapAPIs
    /\ \/ /\ body \in group /\ allocated < MaxGrants
          /\ \E id \in TokenIDs :
            \/ /\ \A t \in issued : Live(t) => t.Token # id
               /\ Tokens!Grant([Token |-> id, Subject |-> body,
                                expires |-> now + TokenLife, claimed |-> allocated + 1])
               /\ allocated' = allocated + 1
               /\ Performed(h, api)
               /\ UNCHANGED <<bootAt, keygrant>>
            \/ /\ \E t \in issued : Live(t) /\ t.Token = id
               /\ Fail(h, "aborted")
       \/ body \notin group /\ Fail(h, "400")

Bootstrap(h, api, body) == BootstrapFor(h, api, body, Nodes)

\* NewImpersonatePrivilege: the rest of the request runs as another account.
ImpersonateIn(h, api, body, scope) ==
    /\ api = "auth-to-kerberos"
    /\ \/ /\ body \in scope /\ body \in Accounts
          /\ account' = [account EXCEPT ![h] = body]
          /\ pc' = [pc EXCEPT ![h] = "operate"]
          /\ Silent
          /\ UNCHANGED <<now, registry, keygrant, request, performed>>
       \/ ~(body \in scope /\ body \in Accounts) /\ Fail(h, "400")

\* Mutant: the impersonation privilege does not look at its scope.
ImpersonateAnybody(h, api, body) == ImpersonateIn(h, api, body, Accounts)

Impersonate(h, api, body) == ImpersonateIn(h, api, body, KerberosAccounts)

\* NewConfigurationPrivilege and NewFetchKeyPrivilege.
Reveal(h, api, body) ==
    /\ api \in EmptyRequestAPIs
    /\ \/ body = "" /\ Performed(h, api) /\ UNCHANGED <<now, registry, keygrant>>
       \/ body # "" /\ Fail(h, "400")

\* Mutant: an operation that fails is skipped and the next one is tried.
InvokeSkippingErrors(h, api, bodies) ==
    \E body \in bodies :
        /\ api \in Privileges(account[h])
        /\ \/ Sign(h, api, body)
           \/ /\ api = "auth-to-kerberos"
              /\ account' = [account EXCEPT ![h] = IF body \in KerberosAccounts THEN body ELSE @]
              /\ pc' = [pc EXCEPT ![h] = "operate"]
              /\ Silent
              /\ UNCHANGED <<now, registry, keygrant, request, performed>>

\* InvokeAPIOperation, with one of these bodies.
InvokeAPIOperation(h, api, bodies) ==
    \/ /\ api \in Privileges(account[h])
       /\ \E body \in bodies :
            \/ Sign(h, api, body) \/ Bootstrap(h, api, body)
            \/ Impersonate(h, api, body) \/ Reveal(h, api, body)
    \/ api \notin Privileges(account[h]) /\ Fail(h, "403")

\* One operation of the list.
Operation(h, api) == pc[h] = "operate" /\ InvokeAPIOperation(h, api, Bodies)

\* The operation that the gateway has put in front of the list.
GatewayOperation(h) ==
    pc[h] = "impersonate" /\ InvokeAPIOperation(h, "auth-to-kerberos", {request[h].user})

\* An entry of the list without "api" or "body", or a body that is not JSON.
MalformedOperation(h) == pc[h] = "operate" /\ Fail(h, "400")

\* The list is done: the results are written.
Finish(h) ==
    /\ pc[h] = "operate"
    /\ Fail(h, "200")
-----------------------------------------------------------------------------
\* keyinitadmit, run by root on the keyserver, signs itself a certificate for
\* the supervisor's account that is good for ten minutes (here: until the clock
\* moves), and goes on with an ordinary CertRequest.
KeyInitAdmit ==
    /\ keygrant[Supervisor] < now
    /\ keygrant' = [keygrant EXCEPT ![Supervisor] = now]
    /\ Silent
    /\ UNCHANGED <<now, registry, local>>

\* A restart forgets the tokens and the requests being served.
Restart ==
    /\ bootAt' = allocated
    /\ pc' = [h \in Handlers |-> "idle"]
    /\ request' = [h \in Handlers |-> NoRequest]
    /\ account' = [h \in Handlers |-> None]
    /\ performed' = [h \in Handlers |-> FALSE]
    /\ Silent
    /\ UNCHANGED <<now, allocated, issued, redeemed, keygrant>>

Tick ==
    /\ now < MaxTime /\ now' = now + 1
    /\ Silent
    /\ UNCHANGED <<registry, keygrant, local>>

Init ==
    /\ now = 0
    /\ allocated = 0 /\ issued = {} /\ redeemed = <<>> /\ bootAt = 0
    /\ keygrant = [p \in Principals |-> -1]
    /\ pc = [h \in Handlers |-> "idle"]
    /\ request = [h \in Handlers |-> NoRequest]
    /\ account = [h \in Handlers |-> None]
    /\ performed = [h \in Handlers |-> FALSE]
    /\ answer = NoAnswer /\ effect = NoEffect

Next ==
    \/ \E h \in Handlers :
        \/ \E id \in TokenIDs, ip \in IPs : TokenRequest(h, id, ip)
        \/ \E p \in Principals, ip \in IPs : CertRequest(h, p, ip)
        \/ AnonymousRequest(h)
        \/ \E user \in Users : GatewayRequest(h, user)
        \/ \E api \in APIs : Operation(h, api)
        \/ GatewayOperation(h)
        \/ MalformedOperation(h)
        \/ Finish(h)
    \/ KeyInitAdmit
    \/ Restart
    \/ Tick

Spec == Init /\ [][Next]_vars
-----------------------------------------------------------------------------
(* Properties *)

Grants == [Token : TokenIDs, Subject : Nodes, expires : Nat, claimed : 1..allocated]
Redemptions == [presented : TokenIDs, Subject : Nodes, claimed : Nat, at : Nat]
RequestType == [by : Nodes \cup {None}, ip : IPs \cup {None}, user : Users \cup {None}]

TypeOK ==
    /\ now \in Nat /\ allocated \in Nat /\ bootAt \in 0..allocated
    /\ issued \subseteq Grants /\ redeemed \in Seq(Redemptions)
    /\ keygrant \in [Principals -> Int]
    /\ pc \in [Handlers -> {"idle", "impersonate", "operate"}]
    /\ request \in [Handlers -> RequestType]
    /\ account \in [Handlers -> Accounts \cup {None}]
    /\ performed \in [Handlers -> BOOLEAN]
    /\ answer \in [code : {"none", "200", "400", "403", "aborted"}, performed : BOOLEAN]

\* Whatever is signed, granted or revealed is so for the node that
\* authenticated and from that node's own address, or, on a request of the
\* supervisor, for an account that Kerberos users may act as.
EffectsConfined ==
    effect # NoEffect =>
        /\ effect.by \in Nodes /\ effect.ip = NodeIP[effect.by]
        /\ \/ effect.account = effect.by
           \/ effect.by = Supervisor /\ effect.account \in KerberosAccounts

\* A Kerberos user never acts with the supervisor's own privileges, although
\* the gateway authenticates as the supervisor: until the impersonation has
\* succeeded nothing is performed, and afterwards only as the user's account.
GatewayConfined == effect.user # None => effect.account = effect.user

Redeemed(p) == \E i \in DOMAIN redeemed : redeemed[i].Subject = p

\* A keygranting certificate is signed for nodes only, and for a node other
\* than the supervisor only after a token granted for it was redeemed -- no
\* sequence of requests, impersonations and renewals leads around the token.
KeygrantNeedsToken ==
    \A p \in Principals : keygrant[p] >= 0 =>
        p = Supervisor \/ Redeemed(p)

\* The powers of an administrator -- root logins, system:masters and etcd
\* access, admission of nodes -- are only exercised in requests that come
\* from the supervisor.
AdminAPIs == GrantsForRootAdminAccount
    \cup {"bootstrap-keyinit", "auth-to-kerberos", "grant-kubernetes-supervisor"}
AdminPowerNeedsSupervisor ==
    effect.api \in AdminAPIs =>
        effect.by = Supervisor /\ effect.ip = NodeIP[Supervisor]

\* The design document's rule for a set of operations: they are only performed
\* if all of them are allowed.  The code performs them one by one.
AllowedOrNotPerformed ==
    answer.code = "403" => ~answer.performed
=============================================================================
