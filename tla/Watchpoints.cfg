CONSTANTS
    Addr <- SingleAddr
    Start = 0
    Entry = 1
    HasMain = TRUE
    Succ <- LoopingSucc
    Kind <- SingleKind
    ThreadStart = 0
    Touch <- SingleTouch
    Signals = TRUE
    MaxTid = 1
    MaxRuns = 1
    Loc = {"x", "y"}
    NoLoc = "none"
    MaxWps = 2
    HwSlots = 2
    Line <- SingleLine
    Call <- SingleCall
    Ret <- SingleRet
    StepLimit = 3
    Commands = {"continue", "si", "step", "next", "break", "watch", "delwatch", "kill", "quit"}
    MaxBps = 2
    Repeats = FALSE
    MaxSuspend = 0
SPECIFICATION Spec
INVARIANTS
    PromptAgrees
    TrapsAccounted
    WatchRegsAccounted
PROPERTIES
    WatchNotMissed
