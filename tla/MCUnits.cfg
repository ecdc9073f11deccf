SPECIFICATION UnitsSpec
CONSTANTS
    BW = 4
    LB = 4
    Patterns <- MCPatterns
    HW = 2
    FN = 6
    RMs = {0, 1}
    Enables <- MCEnables
    Operands <- MCOperands
    YB = 1
    DW = 4
    PG = 16
    Frames = {"A", "B"}
    Determined = FALSE
    StatusVals <- MCStatus
    IrqVals <- MCIrqs
    CauseVals <- MCCauses
    Levels = 2
    PtBits = 1
    XBits = 3
    TC_NUM = 1
    Tables = {0, 1}
    Writable <- MCWritable
    PteVals <- MCPtes
    Satps <- MCSatps
    RvModes <- MCModes
    Vpns = {0, 1, 2}
    PmpEntries = 3
    PerCfg = 2
    PmpWidth = 4
    PmpPage = 8
    PmpCfgs <- MCCfgs
    PmpAddrs = {0, 1, 3}
    BpAddrs = {"a", "b"}
    BpSlots = 2
    MemReads = {"ok", "zero"}
    RecvMax = 10
    RvThreads = {"t1", "t2"}
INVARIANTS
    GdbHears
    RvPending
    RvTlbExact
    RvPmpPage
    RvScExact
    IntExact
    BtExact
    AccessExact
    VecAliasFree
    VecLaneWise
    GvecExact
    WideExact
    ElemExact
    FloatExact
    FcsrExact
PROPERTIES
    ModeKept
    RvGuard
    RvPmpLocked
    RvFpExact
