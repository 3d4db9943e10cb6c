CONSTANTS
    NTasks = 3
    MaxTasks = 8
    Quantum = 10
    Launchers = {2}
    PreemptCmds = {}
    MainswCmds = {FALSE, TRUE}
SPECIFICATION FairSpec
INVARIANTS Resumable BeliefIsTrue
PROPERTIES ImplementsCoroutines EveryTaskRuns RequestServed
