---------------------------- MODULE MCLeafCache ----------------------------
EXTENDS LeafCache, TLC

CONSTANTS a, b, c, nobody

\* "a" and "a:443" are the same host, ":443" is no host at all.
ClientNames == {"a", "a:443", "b", "c", ":443"}
ClientCanon ==
  [n \in ClientNames |-> CASE n \in {"a", "a:443"} -> a [] n = "b" -> b
                           [] n = "c" -> c [] n = ":443" -> nobody]

ThreadSymmetry == Permutations(Threads)
=============================================================================
