CONSTANTS
    Addr <- SingleAddr
    Start = 0
    Entry = 1
    HasMain = TRUE
    Succ <- LoopingSucc
    Kind <- SingleKind
    ThreadStart = 0
    Touch <- SingleTouch
    Signals = FALSE
    MaxTid = 2
    MaxRuns = 2
    Loc = {"x", "y"}
    NoLoc = "none"
    MaxWps = 2
    HwSlots = 2
    Line <- SingleLine
    Call <- SingleCall
    Ret <- SingleRet
    StepLimit = 3
    Commands = {"run", "continue", "si", "step", "next", "break", "del", "kill", "quit", "regs", "eof"}
    MaxBps = 2
    Repeats = FALSE
    MaxSuspend = 0
SPECIFICATION Spec
INVARIANTS
    TypeOK
    PromptAgrees
    TrapsAccounted
PROPERTIES
    NeverRunThrough
    ExitReportedOnce
    LifecycleSpec
