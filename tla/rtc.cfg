SPECIFICATION FairSpec
CONSTANTS
    Pid = {3, 4}
    Ticked = {3, 4, 5}
    RTC_MAX_FREQ = 4
    RTC_MIN_FREQ = 2
    Freqs <- RequestedFreqs
INVARIANTS
    CountdownInPeriod
    ReadNotEarly
PROPERTIES
    ReadReturns
