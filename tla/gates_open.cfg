CONSTANTS
    NTasks = 3
    MaxTasks = 8
    Quantum = 2
    Launchers = {}
    PreemptCmds = {TRUE}
    MainswCmds = {TRUE}
SPECIFICATION FairDisciplinedSpec
INVARIANTS NoStaleResume Resumable BeliefIsTrue PausedFlagExact Lockstep
PROPERTIES ImplementsCoroutines DesktopReturns
