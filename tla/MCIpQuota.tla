----------------------------- MODULE MCIpQuota -----------------------------
EXTENDS IpQuota, TLC

CONSTANTS s1, s2, s3, proxy, a1, a2

\* One address for each case: a proxy without quota, a limit of one connection,
\* a blocked address.
MCQuota == (proxy :> -1) @@ (a1 :> 1) @@ (a2 :> 0)

Symmetry == Permutations(Sessions)
=============================================================================
