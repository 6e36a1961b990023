SPECIFICATION FairSpec
CONSTANTS
    Names = {"x", "y"}
    Periods = {1, 2}
    Tickers = {t1, t2}
    Aliased = FALSE
    ClientOps = {"register again", "unregister"}
    Faults = {"dispatch raises", "crash"}
    MaxRegs = 2
    MaxTime = 2
INVARIANTS
    AtMostOnce
    NeverEarly
PROPERTIES
    OnlyOrphansStayDue
    OnlyForward
