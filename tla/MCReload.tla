------------------------------ MODULE MCReload ------------------------------
(* Instances of Reload for TLC. *)
EXTENDS Reload
CONSTANTS a, b, p, q, m

\* Proxies: a is kept with another priority, b has a filter, then a is removed
\* and b has none.
S(proxy, filtered, pa, pb, local) ==
  [proxy |-> proxy, filtered |-> filtered,
   priority |-> [h \in Hosts |-> IF h = a THEN pa ELSE pb],
   bind |-> {p}, tls |-> {}, local |-> local]
Both == S({a, b}, {b}, 1, 2, 2)
Raised == S({a, b}, {b}, 3, 1, 1)
OnlyB == S({b}, {}, 1, 1, 2)

\* Ports: p is kept, q comes and goes, with and without TLS.
L(bind, tls) ==
  [proxy |-> {}, filtered |-> {}, priority |-> [h \in Hosts |-> 1],
   bind |-> bind, tls |-> tls, local |-> 1]
Plain == L({p, q}, {})
Tls == L({p, q}, {q})
NoQ == L({p}, {})

MCSettings == {Both, Raised, OnlyB, Plain, Tls, NoQ}
MCReloads ==
  {<<Both, Raised>>, <<Raised, OnlyB>>, <<OnlyB, Both>>,
   <<Plain, Tls>>, <<Tls, Plain>>, <<Tls, NoQ>>, <<NoQ, Tls>>}
MCPeerTables == {[host |-> b, priority |-> 2, by |-> Unfetched, mounts |-> {m}]}
=============================================================================
