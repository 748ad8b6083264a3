SPECIFICATION Spec
CONSTANTS
    sup = sup
    mas = mas
    wor = wor
    alice = alice
    metrics = metrics
    hostkeytab = hostkeytab
    mallory = mallory
    Nodes <- MCTwoNodes
    Kind <- MCKind
    NodeIP <- MCNodeIP
    RootAdmins = {alice}
    Metrics = alice
    HostKeytab = hostkeytab
    Strangers = {mallory}
    Handlers = {h1}
    TokenIDs = {k1}
    IPs = {sup, mas}
    TokenLife = 0
    KeygrantLife = 1
    MaxGrants = 1
    MaxTime = 1
    None = None
INVARIANTS AllowedOrNotPerformed
