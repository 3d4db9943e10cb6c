SPECIFICATION Spec
CONSTANTS
  ProcessMax = 16
  KernelTasks <- Created
INVARIANTS TableSound  RecordsTrue
