-------------------------- MODULE MCSubscriptions --------------------------
EXTENDS Subscriptions, TLC

CONSTANTS c1, c2, s1, s2

TwoClients == {c1, c2}
TwoServers == {s1, s2}

Symmetry == Permutations(TwoClients) \cup Permutations(TwoServers)
=============================================================================
