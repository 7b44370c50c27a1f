CONSTANTS
    Addr <- SingleAddr
    Start = 0
    Entry = 1
    HasMain = TRUE
    Succ <- SingleSucc
    Kind <- SingleKind
    ThreadStart = 0
    Touch <- SingleTouch
    Signals = TRUE
    MaxTid = 1
    MaxRuns = 1
    Loc = {"x"}
    NoLoc = "none"
    MaxWps = 1
    HwSlots = 1
    Line <- SingleLine
    Call <- SingleCall
    Ret <- SingleRet
    StepLimit = 3
    Commands = {"break", "continue", "quit"}
    MaxBps = 2
    Repeats = FALSE
    MaxSuspend = 0
SPECIFICATION Spec
PROPERTY NeverRunThrough
