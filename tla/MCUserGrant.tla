---------------------------- MODULE MCUserGrant ----------------------------
(* The website with two connections: certificates that expire, that name      *)
(* nobody, two e-mail addresses or the wrong domain, or that an intermediate  *)
(* signed; a command line that lacks the domain, and a kube-ca file that is   *)
(* empty.  Or, chosen in the beginning, what an operator keeps in the project *)
(* directory: the files of the kubectl wrapper, used by two commands at once, *)
(* or a keytab.                                                               *)
EXTENDS UserGrant, FiniteSets

CONSTANTS
    alice, bob, root,
    Variant, Callers, Pairs, RotateInterval, CertLife, None, Partial, MaxSlips,
    NoFile, HalfFile, MaxKeys, MaxAccidents

VARIABLES
    component,
    slips, gatewayUp, disasterKey, key, cert, ca, age, at, pair, slept, overlapped, intact,
    accidents, kdc, source, target, temp, op, doing, newest

Access == INSTANCE AccessCerts
Keys == INSTANCE Keytab

\* A file that is not there, or not whole, is no keytab.
ASSUME KeytabAssumption ==
    /\ MaxKeys \in Nat \ {0} /\ MaxAccidents \in Nat
    /\ \A keytab \in SUBSET (1..MaxKeys) : keytab \notin {NoFile, HalfFile}

\* There are names for the pairs in the files and in the hands of the callers, and
\* one more; certificates live longer than the wrapper uses them for.
ASSUME AccessAssumption ==
    /\ IsFiniteSet(Callers) /\ IsFiniteSet(Pairs) /\ Cardinality(Pairs) > Cardinality(Callers) + 2
    /\ MaxSlips \in Nat
    /\ RotateInterval \in Nat \ {0} /\ CertLife \in Nat /\ RotateInterval < CertLife

Attr(type, local, domain) == [type |-> type, local |-> local, domain |-> domain]
Cert(names, chain, notAfter) == [names |-> names, chain |-> chain, notAfter |-> notAfter]
Email(u) == Attr("email", u, EmailAuthDomain)

MCCerts == {
    Cert(<<Attr("other", bob, NotAString), Email(alice), Email(bob)>>, "direct", 1),
    Cert(<<Email(bob)>>, "direct", 0),
    Cert(<<Email(bob)>>, "intermediate", 1),
    Cert(<<Attr("email", bob, "other"), Email(bob)>>, "direct", 1),
    Cert(<<Attr("email", bob, NotAString)>>, "unknown", 1),
    Cert(<<Email(root)>>, "direct", 0)}

Conf(domain, kubeCA) ==
    [address |-> TRUE, apiserver |-> TRUE, domain |-> domain, files |-> TRUE, kubeCA |-> kubeCA]
MCConfigs == {Conf(TRUE, TRUE), Conf(TRUE, FALSE), Conf(FALSE, TRUE)}
-----------------------------------------------------------------------------
accessVars == <<slips, gatewayUp, disasterKey, key, cert, ca, age, at, pair, slept, overlapped, intact>>
keytabVars == <<accidents, kdc, source, target, temp, op, doing, newest>>
allvars == <<component, vars, accessVars, keytabVars>>

OnlyWebsite == component = "website" /\ UNCHANGED <<component, accessVars, keytabVars>>
OnlyAccess == component = "access" /\ UNCHANGED <<component, vars, keytabVars>>
OnlyKeytab == component = "keytab" /\ UNCHANGED <<component, vars, accessVars>>

MCInit ==
    /\ component \in {"website", "access", "keytab"}
    /\ Init /\ Access!Init /\ Keys!Init
    /\ component # "access" => gatewayUp /\ disasterKey
    /\ component # "website" => config = Conf(TRUE, TRUE)

MCNext ==
    \/ OnlyWebsite /\ Next
    \/ OnlyAccess /\ Access!Next
    \/ OnlyKeytab /\ Keys!Next

\* The fairness of each component's own specification.
MCSpec ==
    /\ MCInit /\ [][MCNext]_allvars
    /\ \A h \in Handlers : WF_allvars(OnlyWebsite /\ Serve(h))
    /\ WF_allvars(OnlyAccess /\ Access!Use) /\ WF_allvars(OnlyAccess /\ Access!Tick)
    /\ \A c \in Callers : WF_allvars(OnlyAccess /\ Access!Proceed(c))
-----------------------------------------------------------------------------
MCTypeOK == TypeOK /\ Access!TypeOK /\ Keys!TypeOK

\* Users of the website get in by trying again.
WebsiteRetriesSucceed == component = "website" => RetriesSucceed

\* kubectl works with files whose last replacement was not disturbed.
UndisturbedCallsWork == Access!UndisturbedCallsWork

\* kubectl works again by itself after any disturbance.
AccessRecovers == component = "access" => Access!AccessRecovers

\* The newest key of a keytab is never lost once the project has it.
KeytabKept == Keys!KeytabKept
=============================================================================
