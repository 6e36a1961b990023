SPECIFICATION FairSpec
CONSTANTS
    Names = {"x"}
    Periods = {1}
    Tickers = {t1, t2}
    Aliased = FALSE
    ClientOps = {}
    Faults = {"dispatch raises"}
    MaxRegs = 1
    MaxTime = 2
PROPERTIES
    DueAdvances
