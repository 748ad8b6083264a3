SPECIFICATION Spec
CONSTANTS
    ConvergeState <- MCActionsForbidden
    OpenFiles = {"kubernetes"}
    Intended = {"renew-keygrant", "grant-kubernetes-worker", "grant-ssh-host", "get-local-config"}
    Life <- MCLife
    InAdvance <- MCInAdvance
    Refresh <- MCRefresh
    RetryAfter = 1
    MaxOutage = 1
    MaxFaults = 0
    MaxTokens = 1
    MaxTime <- MCOneDay
INVARIANTS RefusalsRespected
