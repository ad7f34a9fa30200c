---------------------------- MODULE MCProxyPool ----------------------------
(* Instances of ProxyPool and ProxyHistory for TLC. *)
EXTENDS ProxyHistory, TLC

\* Proxies, clients and tokens are interchangeable; only safety is checked here.
Symmetry == Permutations(Proxies) \union Permutations(Clients) \union Permutations(Tokens)

=============================================================================
