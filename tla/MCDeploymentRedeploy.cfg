SPECIFICATION Spec
CONSTANTS
    Sup = "supervisor"
    NodeList <- MCNodeList
    Kerberos = TRUE
    MaxVersion = 2
    Rendered <- MCRendered
    MaxEdits = 1
    MaxFaults = 0
INVARIANTS RedeployReachesAll
