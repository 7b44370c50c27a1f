CONSTANTS
    Addr <- SingleAddr
    Start = 0
    Entry = 1
    HasMain = TRUE
    Succ <- SpawnSucc
    Kind <- SpawnKind
    ThreadStart = 4
    Touch <- SingleTouch
    Signals = FALSE
    MaxTid = 2
    MaxRuns = 1
    Loc = {"x"}
    NoLoc = "none"
    MaxWps = 1
    HwSlots = 1
    Line <- SpawnLine
    Call = {}
    Ret <- NoRet
    StepLimit = 3
    Commands = {"si", "thread", "quit"}
    MaxBps = 1
    Repeats = FALSE
    MaxSuspend = 2
SPECIFICATION Spec
INVARIANT StepCanRun
CHECK_DEADLOCK FALSE
