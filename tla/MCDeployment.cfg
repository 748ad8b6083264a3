SPECIFICATION MCSpec
CONSTANTS
    Sup = "supervisor"
    NodeList <- MCNodeList
    Kerberos = TRUE
    MaxVersion = 3
    Rendered <- MCRendered
    MaxEdits = 2
    MaxFaults = 1
INVARIANTS ServedConfigConsistent OperatorKeepsAccess RedeployReachesNodes
PROPERTY StartingOverSucceeds
