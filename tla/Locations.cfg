SPECIFICATION MCSpec
CONSTANTS
    RowReach = 4
    Substrings <- MCSubstrings
    Images <- MCImages
    MinInst = 2
    LineBase <- MCLineBase
    LineRange = 3
    OpcodeBase = 13
    MaxOpcode = 21
    HiddenNames = {"Ltmp0"}
    MaxSymbolOffset = 16
    Loads = {50, 70}
    OwnBase = 90
    Pcs <- MCPcs
    Targets <- MCTargets
    MaxDirs = 2
    MaxFiles = 2
INVARIANTS
    RowsDecoded
    SlidesCurrent
    LocatesRow
    BreakOnLine
    LineFound
    BreakInBody
    FrameNamed
    InPlaceRead
    OffsetsRead
    FirstNameRead
    SecondNameDecides
