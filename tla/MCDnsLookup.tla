---------------------------- MODULE MCDnsLookup ----------------------------
(* Instances of DnsLookup for TLC. *)
EXTENDS DnsLookup

CONSTANTS c1, c2, k1, k2, g1, g2

TwoClients == {c1, c2}
OneKey == {k1}
TwoKeys == {k1, k2}

Opt(g, nocache, optimistic, ttl) ==
    [group |-> g, nocache |-> nocache, optimistic |-> optimistic, ttl |-> ttl]

\* The common case, next to a rule that wants no stale answers.
MixedOpts == {Opt(g1, FALSE, TRUE, 1), Opt(g1, FALSE, FALSE, 1)}
\* evaluate:g1?nocache, with g2 for what falls through.
RouteOpts == {Opt(g1, TRUE, TRUE, 1), Opt(g2, FALSE, TRUE, 1)}
=============================================================================
