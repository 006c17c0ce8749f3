CONSTANTS
    s1 = s1
    s2 = s2
    s3 = s3
    proxy = proxy
    a1 = a1
    a2 = a2
    Sessions = {s1, s2, s3}
    Addrs = {proxy, a1, a2}
    Trusted = {proxy}
    Quota <- MCQuota
SPECIFICATION Spec
SYMMETRY Symmetry
INVARIANTS CountExact QuotaRespected CountedIsListed
PROPERTY IsAGate
