SPECIFICATION MCSpec
CONSTANTS
    a = a
    p = p
    q = q
    x = x
    y = y
    Hosts = {a, b}
    Pods = {p, q}
    PodIPs = {x, y}
    Nothing = Nothing
    Scraped = {}
    MaxTime = 2
    MaxChanges = 2
    MaxFaults = 0
INVARIANT RecencyIsOldest
