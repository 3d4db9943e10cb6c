CONSTANTS
    NTasks = 3
    MaxTasks = 8
    Quantum = 10
    Launchers = {2}
    PreemptCmds = {TRUE}
    MainswCmds = {TRUE}
SPECIFICATION DisciplinedSpec
INVARIANT NoStaleResume
