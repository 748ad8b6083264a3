SPECIFICATION MCSpec
CONSTANTS
    Handlers = {h1, h2}
    alice = alice
    bob = bob
    root = root
    Users = {alice, bob, root}
    Unnameable = {root}
    ClientCerts <- MCCerts
    Configs <- MCConfigs
    EmailAuthDomain = EmailAuthDomain
    NotAString = NotAString
    NoUser = NoUser
    MaxTime = 1
    MaxFaults = 2
    Variant = "kube"
    Callers = {c1, c2}
    Pairs = {1, 2, 3, 4, 5}
    RotateInterval = 2
    CertLife = 4
    None = None
    Partial = Partial
    MaxSlips = 2
    NoFile = NoFile
    HalfFile = HalfFile
    MaxKeys = 4
    MaxAccidents = 3
INVARIANTS MCTypeOK KubeconfigsWork OnlyTheOwner UndisturbedCallsWork KeytabKept
PROPERTIES WebsiteRetriesSucceed AccessRecovers
