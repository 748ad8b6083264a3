SPECIFICATION MCSpec
CONSTANTS
    ConvergeState <- MCActions
    OpenFiles = {}
    Intended = {"renew-keygrant", "grant-kubernetes-worker", "grant-ssh-host", "get-local-config"}
    Life <- MCLife
    InAdvance <- MCInAdvance
    Refresh <- MCRefresh
    RetryAfter = 1
    MaxOutage = 1
    MaxFaults = 2
    MaxTokens = 1
    MaxTime <- MCMaxTime
INVARIANTS AdmissionNotLost TornFilesReplaced RenewedInTime
PROPERTY Settles
