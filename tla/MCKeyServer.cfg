SPECIFICATION Spec
CONSTANTS
    sup = sup
    mas = mas
    wor = wor
    alice = alice
    metrics = metrics
    hostkeytab = hostkeytab
    mallory = mallory
    Nodes <- MCNodes
    Kind <- MCKind
    NodeIP <- MCNodeIP
    RootAdmins = {alice}
    Metrics = metrics
    HostKeytab = hostkeytab
    Strangers = {mallory}
    Handlers = {h1, h2}
    TokenIDs = {k1}
    IPs = {sup, mas, wor}
    TokenLife = 0
    KeygrantLife = 1
    MaxGrants = 1
    MaxTime = 1
    None = None
SYMMETRY MCSymmetry
INVARIANTS GatewayConfined KeygrantNeedsToken EffectsConfined AdminPowerNeedsSupervisor
