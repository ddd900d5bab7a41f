-------------------------- MODULE MCDiscoveryCache --------------------------
EXTENDS DiscoveryCache, TLC

\* Processes and scopes are interchangeable
Symmetry == Permutations(Process) \cup Permutations(Scope)
=============================================================================
