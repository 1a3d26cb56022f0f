SPECIFICATION LiveHistorySpec
CONSTANT Inputs <- MCInputs
INVARIANTS KnownCrcs ListRestored MatrixRestored TextRestored ScanStaysInBlock BlocksDisjoint NoNodeLost
PROPERTIES ImplementsList Terminates
