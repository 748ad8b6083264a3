---------------------------- MODULE AuthMonitor ----------------------------
(***************************************************************************)
(* The auth monitor (auth-monitor/auth-monitor.go): on the supervisor, it  *)
(* fetches from the keyserver, authenticates to the keygateway, has itself *)
(* granted an ssh certificate and logs into every node of setup.yaml with  *)
(* it, cycle after cycle.                                                  *)
(*                                                                         *)
(* The services that it probes, the nodes and setup.yaml change between    *)
(* any two of its probes, and probes of what works may fail.               *)
(***************************************************************************)
EXTENDS Naturals, FiniteSets

CONSTANTS
    Machines,    \* names that nodes may have in setup.yaml
    Unexposed,   \* the value of a gauge that is not exposed
    MaxChanges,  \* bound: changes of what is probed
    MaxFaults    \* bound: failed probes of what works, and restarts

VARIABLES
    faults, changes,
    up,          \* the services that work
    setup,       \* the nodes that setup.yaml lists; Unexposed while it cannot be read
    accessible,  \* the nodes that take the certificate and answer
    hung,        \* those that accept connections, but do not go on
    pc,          \* where the cycle is
    hostCA,      \* host_ca_pub is a public key
    todo,        \* the nodes of setupconfig still to be tried
    keyCheck, fetchCheck, authCheck, grantCheck, sshCheck  \* the gauges

world == <<changes, up, setup, accessible, hung>>
locals == <<hostCA, todo>>
gauges == <<keyCheck, fetchCheck, authCheck, grantCheck, sshCheck>>
vars == <<faults, world, pc, locals, gauges>>

\* What can be out of order: the keyserver, the equality of its cluster.conf and
\* the supervisor's, Kerberos and the keygateway, the grant of ssh certificates,
\* the public key of the ssh host authority.
Services == {"keyserver", "static", "gateway", "grant", "hostCA"}

\* Each probe needs the keyserver as well.
Working(service) == {service, "keyserver"} \subseteq up

NoServers == [m \in Machines |-> Unexposed]

\* The result of a probe: 1, or 0 if the service does not work or by a fault.
Probe(works, result) ==
    \/ result = (IF works THEN 1 ELSE 0) /\ UNCHANGED faults
    \/ works /\ result = 0 /\ faults < MaxFaults /\ faults' = faults + 1

Return == pc' = "idle" /\ hostCA' = FALSE /\ todo' = {}
-----------------------------------------------------------------------------
(* cycle *)

\* keyserver.GetPubkey
GetPubkey ==
    /\ pc = "idle"
    /\ \E result \in {0, 1} :
        /\ Probe("keyserver" \in up, result)
        /\ IF result = 1
           THEN /\ keyCheck' = 1
                /\ hostCA' = ("hostCA" \in up)
                /\ pc' = "static"
           ELSE pc' = "unreachable" /\ UNCHANGED <<keyCheck, hostCA>>
    /\ UNCHANGED <<world, todo, fetchCheck, authCheck, grantCheck, sshCheck>>

\* Without the keyserver nothing else is tried.
Unreachable ==
    /\ pc = "unreachable"
    /\ keyCheck' = 0 /\ fetchCheck' = 0 /\ authCheck' = 0 /\ grantCheck' = 0
    /\ sshCheck' = NoServers
    /\ Return
    /\ UNCHANGED <<faults, world>>

\* keyserver.GetStatic, compared with the supervisor's own copy.
GetStatic ==
    /\ pc = "static"
    /\ \E result \in {0, 1} : Probe(Working("static"), result) /\ fetchCheck' = result
    /\ pc' = "auth"
    /\ UNCHANGED <<world, locals, keyCheck, authCheck, grantCheck, sshCheck>>

\* What nothing but an answer ends the wait for: ssh has a timeout for the connection
\* only, and kinit and knc have none.
Hangable == Machines \cup {"gateway"}

\* attemptKAuth: kinit, and knc to the keygateway.
AttemptKAuth ==
    /\ pc = "auth" /\ "gateway" \notin hung
    /\ \E result \in {0, 1} : Probe(Working("gateway"), result) /\ authCheck' = result
    /\ pc' = "setup"
    /\ UNCHANGED <<world, locals, keyCheck, fetchCheck, grantCheck, sshCheck>>

\* Mutant: a setup.yaml that cannot be read ends the cycle.
LoadSpireSetupOrReturn ==
    /\ pc = "setup"
    /\ \/ setup # Unexposed /\ todo' = setup /\ pc' = "grant" /\ UNCHANGED hostCA
       \/ setup = Unexposed /\ Return
    /\ UNCHANGED <<faults, world, gauges>>

\* LoadSpireSetup: a file that cannot be read ends the cycle.
LoadSpireSetup ==
    /\ pc = "setup"
    /\ \/ /\ setup # Unexposed
          /\ todo' = setup
          /\ pc' = "grant"
          /\ UNCHANGED <<hostCA, grantCheck, sshCheck>>
       \/ /\ setup = Unexposed
          /\ grantCheck' = 0 /\ sshCheck' = NoServers
          /\ Return
    /\ UNCHANGED <<faults, world, keyCheck, fetchCheck, authCheck>>

\* attemptSSHAcquire: impersonation and signing, both for the certificate of a
\* node that may impersonate.
AttemptSSHAcquire ==
    /\ pc = "grant"
    /\ \E result \in {0, 1} :
        /\ Probe(Working("grant"), result)
        /\ grantCheck' = result
        /\ pc' = IF result = 1 /\ hostCA THEN "access" ELSE "inaccessible"
    /\ UNCHANGED <<world, locals, keyCheck, fetchCheck, authCheck, sshCheck>>

SetServer(m, result) == sshCheck' = [sshCheck EXCEPT ![m] = result]

\* No certificate, or no authority to check the nodes with: each node's gauge is
\* set to 0.
Inaccessible(m) ==
    /\ pc = "inaccessible" /\ m \in todo
    /\ SetServer(m, 0)
    /\ todo' = todo \ {m}
    /\ UNCHANGED <<faults, world, pc, hostCA, keyCheck, fetchCheck, authCheck, grantCheck>>

\* attemptSSHAccess: there is a timeout for the connection, but none for the
\* handshake and for the command.
AttemptSSHAccess(m) ==
    /\ pc = "access" /\ m \in todo \ hung
    /\ \E result \in {0, 1} : Probe(m \in accessible, result) /\ SetServer(m, result)
    /\ todo' = todo \ {m}
    /\ UNCHANGED <<world, pc, hostCA, keyCheck, fetchCheck, authCheck, grantCheck>>

EndCycle ==
    /\ pc \in {"access", "inaccessible"} /\ todo = {}
    /\ Return
    /\ UNCHANGED <<faults, world, gauges>>
-----------------------------------------------------------------------------
Flip(x, set) == (set \ {x}) \cup ({x} \ set)

Change ==
    /\ changes < MaxChanges /\ changes' = changes + 1
    /\ \/ (\E s \in Services : up' = Flip(s, up)) /\ UNCHANGED <<setup, accessible, hung>>
       \/ (\E m \in Machines : accessible' = Flip(m, accessible)) /\ UNCHANGED <<up, setup, hung>>
       \/ (\E m \in Hangable \ hung : hung' = hung \cup {m}) /\ UNCHANGED <<up, setup, accessible>>
       \/ /\ setup' \in ((SUBSET Machines) \cup {Unexposed}) \ {setup, {}}
          /\ UNCHANGED <<up, accessible, hung>>
    /\ UNCHANGED <<faults, pc, locals, gauges>>

Resume(m) ==
    /\ m \in hung /\ hung' = hung \ {m}
    /\ UNCHANGED <<faults, changes, up, setup, accessible, pc, locals, gauges>>

\* The gauges are in memory.
Restart ==
    /\ faults < MaxFaults /\ faults' = faults + 1
    /\ keyCheck' = 0 /\ fetchCheck' = 0 /\ authCheck' = 0 /\ grantCheck' = 0
    /\ sshCheck' = NoServers
    /\ Return
    /\ UNCHANGED world

Init ==
    /\ faults = 0 /\ changes = 0
    /\ up = Services /\ setup \in (SUBSET Machines) \ {{}} /\ accessible = Machines /\ hung = {}
    /\ pc = "idle" /\ hostCA = FALSE /\ todo = {}
    /\ keyCheck = 0 /\ fetchCheck = 0 /\ authCheck = 0 /\ grantCheck = 0
    /\ sshCheck = NoServers

Cycle ==
    \/ GetPubkey \/ Unreachable \/ GetStatic \/ AttemptKAuth \/ LoadSpireSetup \/ AttemptSSHAcquire
    \/ (\E m \in Machines : Inaccessible(m) \/ AttemptSSHAccess(m))
    \/ EndCycle

Next == Cycle \/ Change \/ (\E m \in Hangable : Resume(m)) \/ Restart

\* loop is a goroutine of its own.  Requests to the keyserver end by their timeout;
\* a hung node, or a hung KDC or keygateway, keeps the loop waiting.
FairSpec == Init /\ [][Next]_vars /\ WF_vars(Cycle)
-----------------------------------------------------------------------------
(* Properties *)

TypeOK ==
    /\ faults \in Nat /\ changes \in Nat
    /\ up \subseteq Services /\ accessible \subseteq Machines /\ hung \subseteq Hangable
    /\ setup \in (SUBSET Machines) \cup {Unexposed}
    /\ pc \in {"idle", "unreachable", "static", "auth", "setup", "grant", "access", "inaccessible"}
    /\ hostCA \in BOOLEAN /\ todo \subseteq Machines
    /\ {keyCheck, fetchCheck, authCheck, grantCheck} \subseteq {0, 1}
    /\ sshCheck \in [Machines -> {0, 1, Unexposed}]

\* What the gauges should say of the services and of the nodes in setup.yaml.
Truthful ==
    /\ (keyCheck = 1) = ("keyserver" \in up)
    /\ (fetchCheck = 1) = Working("static")
    /\ (authCheck = 1) = Working("gateway")
    /\ (grantCheck = 1) = (Working("grant") /\ setup # Unexposed)
    /\ setup # Unexposed => \A m \in setup :
            (sshCheck[m] = 1) = (Working("grant") /\ "hostCA" \in up /\ m \in accessible)

\* The gauges end up true, whatever changed and failed before and in which part
\* of a cycle: every service and every listed node that has come to stay or gone
\* for good is reported so in the end, and no node is reported as accessible
\* when nothing can be known about it.  It takes that neither a node nor the KDC
\* or the keygateway hangs for ever: every gauge keeps its value meanwhile.
AuthGaugesSettle ==
    <>[](hung = {}) =>
        /\ <>[]Truthful
        /\ <>[](setup = Unexposed \/ "keyserver" \notin up)
                => <>[](\A m \in Machines : sshCheck[m] # 1)
=============================================================================
