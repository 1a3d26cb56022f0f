SPECIFICATION Spec
CONSTANTS
    XLEN = 6  BPW = 2  BYTE = 8  DBYTES = 4  NREGS = 3
    BHT_ENTRIES = 2  BTB_ENTRIES = 2  CNTMOD = 1
    MIE_BIT = 3  MPIE_BIT = 4  MSI_BIT = 3  MTI_BIT = 4  MEI_BIT = 5
    Programs <- JalProgram
    Code <- MCCode
    ImemWaits <- MayWait
    DmemWaits <- Never
    MipValues <- NoIrq
    RegInits <- MCRegInits
    MemInits <- OneMem
    BhtInits <- ColdBht
    BtbInits <- ColdBtb
PROPERTY ExInstructionSurvives
