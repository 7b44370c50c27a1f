SPECIFICATION DataSpec
CONSTANTS
    ByteBits = 1
    PageSize = 16
    HiddenNames = {}
    MaxSymbolOffset = 100
    Slide = 8
    MinReturn = 16
    MaxFrames = 5
    MaxWps = 2
    MaxSets = 1
    MaxUps = 1
    MaxCount = 3
    Dies <- MCDies
    Structs <- MCStructs
    Words <- MCWords
    PlainBases <- MCPlainBases
    CSizes <- MCCSizes
    CSigned <- MCCSigned
    Memory0 <- MCMemory0
    Stops <- MCStops
    CallerOf <- MCCallerOf
    Table <- MCTable
    Sets <- MCSets
    RegSets <- MCRegSets
    Watches <- MCWatches
    PrintExprs <- MCPrintExprs
    Accesses <- MCAccesses
INVARIANTS
    PrintIsValue
    VariablesAgree
PROPERTIES
    AnyDataSpec
    SetExact
    PagesKept
    UpFollowsBt
    UpIsCaller
    HitReported
    OldValueTrue
CHECK_DEADLOCK FALSE
