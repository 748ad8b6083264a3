SPECIFICATION FairSpec
CONSTANTS
    Variant = "etcd"
    Callers = {c1, c2}
    Pairs = {1, 2, 3, 4, 5}
    RotateInterval = 2
    CertLife = 4
    None = None
    Partial = Partial
    MaxSlips = 1
INVARIANT UndisturbedCallsWork
