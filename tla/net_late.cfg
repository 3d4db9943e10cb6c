CONSTANTS
    Hosts = {"h"}
    Ips = {"a", "b"}
    Answers <- MCAnswers
    NameServer = "dns"
    PageLen = 2
    Layouts = {"records", "one record"}
    CutChoices <- MCCutChoices
    Kinds = {"http"}
    MaxCalls = 2
    RxRing = 3
    TxRing = 3
    TxTries = 2
    DnsTries = 2
    Rounds = 2
    Capture_ = 3
    Faults = {}
    MaxFaults = 1
CHECK_DEADLOCK FALSE
SPECIFICATION Spec
INVARIANT NothingStale
