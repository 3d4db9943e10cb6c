CONSTANTS
    NTasks = 2
    MaxTasks = 8
    Quantum = 2
    Launchers = {1}
    PreemptCmds = {FALSE, TRUE}
    MainswCmds = {TRUE}
SPECIFICATION DisciplinedSpec
INVARIANTS TypeOK LaunchNeverSuspended
CONSTRAINT TripsBound
CHECK_DEADLOCK FALSE
