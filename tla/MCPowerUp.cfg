SPECIFICATION HistorySpec
CONSTANTS
    XLEN = 6  BPW = 2  BYTE = 8  DBYTES = 4  NREGS = 3
    BHT_ENTRIES = 1  BTB_ENTRIES = 1  CNTMOD = 8
    MIE_BIT = 3  MPIE_BIT = 4  MSI_BIT = 3  MTI_BIT = 4  MEI_BIT = 5
    Programs <- MCPrograms
    Code <- MCCode
    ImemWaits <- Never
    DmemWaits <- Never
    MipValues <- NoIrq
    RegInits <- MCRegInits
    MemInits <- OneMem
    BhtInits <- AnyBht
    BtbInits <- AnyBtb
INVARIANTS RetireCounterExact BranchCounterExact
PROPERTY ImplementsIsa
