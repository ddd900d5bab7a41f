----------------------------- MODULE MCMainFlow -----------------------------
EXTENDS MainFlow, TLC

\* Tests are interchangeable
Symmetry == Permutations(Test)
=============================================================================
