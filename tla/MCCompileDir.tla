---------------------------- MODULE MCCompileDir ----------------------------
EXTENDS CompileDir

Cmd(mode, recompile, no_bazel, cfg) ==
  [mode |-> mode, recompile |-> recompile, no_bazel |-> no_bazel, cfg |-> cfg]

\* Reuse, forced and clean compiles, other options, --no-compile
AllOptions ==
  { Cmd("auto", FALSE, FALSE, "plain"), Cmd("auto", FALSE, FALSE, "waves"),
    Cmd("compile", TRUE, FALSE, "plain"), Cmd("no_compile", FALSE, FALSE, "plain") }

=============================================================================
