CONSTANTS
    Hosts = {"h"}
    Ips = {"a", "b"}
    Answers <- MCAnswers
    NameServer = "dns"
    PageLen = 2
    Layouts = {"records", "one record"}
    CutChoices <- MCCutChoices
    Kinds = {"http", "https", "tcp"}
    MaxCalls = 2
    RxRing = 3
    TxRing = 3
    TxTries = 2
    DnsTries = 2
    Rounds = 2
    Capture_ = 3
    Faults = {"loss", "again", "slow", "late", "reorder"}
    MaxFaults = 2
CHECK_DEADLOCK FALSE
SPECIFICATION FairSpec
PROPERTY CallsReturn
INVARIANTS TypeOK SoundCallsSucceed GenuinePage SecurePageIsOwn RightOrder AckedIsTrue
