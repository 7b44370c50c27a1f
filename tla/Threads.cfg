CONSTANTS
    Addr <- SingleAddr
    Start = 0
    Entry = 1
    HasMain = TRUE
    Succ <- ThreadsSucc
    Kind <- ThreadsKind
    ThreadStart = 5
    Touch <- SingleTouch
    Signals = FALSE
    MaxTid = 2
    MaxRuns = 1
    Loc = {"x"}
    NoLoc = "none"
    MaxWps = 1
    HwSlots = 1
    Line <- ThreadsLine
    Call = {1}
    Ret <- SingleRet
    StepLimit = 3
    Commands = {"run", "continue", "si", "step", "next", "break", "watch", "delwatch", "thread", "setpc", "up", "regs", "kill", "quit", "eof"}
    MaxBps = 1
    Repeats = FALSE
    MaxSuspend = 1
SPECIFICATION Spec
INVARIANTS
    PromptAgrees
    WatchRegsAccounted
CHECK_DEADLOCK FALSE
