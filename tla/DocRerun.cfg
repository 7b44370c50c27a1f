CONSTANTS
    Addr <- SingleAddr
    Start = 0
    Entry = 1
    HasMain = TRUE
    Succ <- SingleSucc
    Kind <- SingleKind
    ThreadStart = 0
    Touch <- SingleTouch
    Signals = FALSE
    MaxTid = 2
    MaxRuns = 2
    Loc = {"x"}
    NoLoc = "none"
    MaxWps = 1
    HwSlots = 1
    Line <- SingleLine
    Call <- SingleCall
    Ret <- SingleRet
    StepLimit = 3
    Commands = {"run", "break", "continue", "quit"}
    MaxBps = 2
    Repeats = FALSE
    MaxSuspend = 0
SPECIFICATION Spec
INVARIANT RerunFindsThread
