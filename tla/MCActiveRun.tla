---------------------------- MODULE MCActiveRun ----------------------------
EXTENDS ActiveRun

Kind(l, j, t, f) == [local |-> l, job |-> j, timed |-> t, foreign |-> f]

\* The runs of one user
OwnKinds ==
  { Kind(TRUE, FALSE, TRUE, FALSE), Kind(TRUE, TRUE, FALSE, FALSE),
    Kind(FALSE, TRUE, TRUE, FALSE), Kind(FALSE, FALSE, TRUE, FALSE) }
=============================================================================
