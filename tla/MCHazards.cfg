SPECIFICATION Spec
CONSTANTS
    XLEN = 6  BPW = 2  BYTE = 8  DBYTES = 4  NREGS = 3
    BHT_ENTRIES = 2  BTB_ENTRIES = 2  CNTMOD = 1
    MIE_BIT = 3  MPIE_BIT = 4  MSI_BIT = 3  MTI_BIT = 4  MEI_BIT = 5
    Programs <- HazardPrograms
    Code <- HazardCode
    ImemWaits <- Never
    DmemWaits <- MayWait
    MipValues <- NoIrq
    RegInits <- HazardRegInits
    MemInits <- OneMem
    BhtInits <- ColdBht
    BtbInits <- ColdBtb
INVARIANTS TypeOK NoLoadUseInEx UnitsServeEx
PROPERTY ImplementsIsa
