SPECIFICATION MCSpec
CONSTANTS
    a = a
    p = p
    q = q
    x = x
    y = y
    Hosts = {a, b}
    Pods = {p, q}
    PodIPs = {x, y}
    Nothing = Nothing
    Scraped = {a, b}
    MaxTime = 2
    MaxChanges = 2
    MaxFaults = 2
INVARIANTS GoodNewsIsValid ListedAreRecent
PROPERTIES MonitorNotices CollectionFollows
