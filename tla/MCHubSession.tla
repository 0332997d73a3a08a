---- MODULE MCHubSession ----
EXTENDS HubSession, TLC

Symmetry == Permutations(Calls)
====
