CONSTANTS
  vcomp = vcomp
  ask = ask
  cfg = cfg
  t1 = t1
  t2 = t2
  t3 = t3
  NoJob = NoJob
  Job = {vcomp, ask, cfg, t1, t2, t3}
  Deps <- PlanDeps
  Priority <- PlanPriority
  Exclusive = {vcomp, ask, cfg}
  Bypass = {vcomp}
  Planned = {vcomp, ask, cfg}
  Spawn <- PlanSpawn
  ActiveJobLimit = 2
  QuitCount = 2
  MaxInterrupts = 2
SPECIFICATION FairSpec
INVARIANTS
  IInv
  QueuesPartition
  LockCoversProcess
  OneFinalHook
  WaitMeansDrained
  CompleteKillIsQuiet
PROPERTIES
  NoStartAfterQuit
  ImplementsLifecycle
  Termination
