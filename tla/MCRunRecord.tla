----------------------------- MODULE MCRunRecord -----------------------------
EXTENDS RunRecord

CONSTANTS t1, t2, b1, b2

TwoBenches == [t \in Test |-> IF t = t1 THEN b1 ELSE b2]

\* Apart, touching, nested and overlapping
Telling == {<<0, 1>>, <<1, 3>>, <<0, 4>>, <<2, 4>>}
=============================================================================
