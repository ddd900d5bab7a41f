---------------------------- MODULE MCCheckTest ----------------------------
EXTENDS CheckTest

Plain == [errors |-> {}, fails |-> FALSE, finish |-> FALSE, seed |-> FALSE, directive |-> "none",
          sig |-> "uvm", part |-> "none"]
Tell(directive, s) == [Plain EXCEPT !.directive = directive, !.sig = s, !.errors = {s}]

\* Every kind of line, some with two things in them; "own" is not an error by default
AllLines ==
  { Plain, [Plain EXCEPT !.errors = {"uvm"}], [Plain EXCEPT !.errors = {"uvm", "own"}],
    [Plain EXCEPT !.errors = {"own"}], [Plain EXCEPT !.fails = TRUE],
    [Plain EXCEPT !.finish = TRUE], [Plain EXCEPT !.finish = TRUE, !.errors = {"uvm"}],
    [Plain EXCEPT !.seed = TRUE], [Plain EXCEPT !.seed = TRUE, !.finish = TRUE],
    Tell("enable", "own"), Tell("disable", "uvm"), Tell("enable", "uvm"), Tell("disable", "own") }

DefaultSignatures == {"uvm"}
AllLimits == {1, 2}
=============================================================================
