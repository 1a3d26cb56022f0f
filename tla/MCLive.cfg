SPECIFICATION LiveSpec
CONSTANTS
    XLEN = 6  BPW = 2  BYTE = 8  DBYTES = 4  NREGS = 3
    BHT_ENTRIES = 2  BTB_ENTRIES = 2  CNTMOD = 1
    MIE_BIT = 3  MPIE_BIT = 4  MSI_BIT = 3  MTI_BIT = 4  MEI_BIT = 5
    Programs <- LivePrograms
    Code <- LiveCode
    ImemWaits <- MayWait
    DmemWaits <- MayWait
    MipValues <- LiveMip
    RegInits <- LiveRegInits
    MemInits <- OneMem
    BhtInits <- ColdBht
    BtbInits <- ColdBtb
PROPERTIES InterruptServed Progress
