CONSTANTS
    Addr <- SingleAddr
    Start = 0
    Entry = 1
    HasMain = FALSE
    Succ <- LoopingSucc
    Kind <- SingleKind
    ThreadStart = 0
    Touch <- SingleTouch
    Signals = FALSE
    MaxTid = 1
    MaxRuns = 1
    Loc = {"x"}
    NoLoc = "none"
    MaxWps = 1
    HwSlots = 1
    Line <- SingleLine
    Call <- SingleCall
    Ret <- SingleRet
    StepLimit = 4
    Commands = {"continue", "si", "step", "next", "break", "watch", "quit"}
    MaxBps = 2
    Repeats = FALSE
    MaxSuspend = 0
SPECIFICATION UserSpec
PROPERTIES
    CommandReturns
    ContinueProgress
