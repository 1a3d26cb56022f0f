SPECIFICATION Spec
CONSTANTS
    LOG_SIZE = 50  HALF = 256  EE_TICKS_PER_SEC = 1526  MAX_HELD = 1
    Runs <- MCRuns
    Lefts <- MCLefts
INVARIANTS LogTerminated CalibratedRun ReportsExact CrcOkTruthful OneEnding PassMeansReported
PROPERTY Decided
