--------------------------- MODULE MCRunDirectory ---------------------------
EXTENDS RunDirectory, TLC

CONSTANTS r1, r2, p1, p2

\* The same test in two simmer processes
TwoJobs == (r1 :> p1 @@ r2 :> p2)

Options == [tidy : BOOLEAN, waves : BOOLEAN]
=============================================================================
