SPECIFICATION Spec
CONSTANTS
  Job = {j1, j2, j3, j4}
  BasePriority <- MCBasePriority
  MaxDependencies = 5
SYMMETRY Symmetry
INVARIANTS QueuesInv DependencyFirst
PROPERTIES PassIsSetPass CompletionIsSetStep
