SPECIFICATION FairSpec
INVARIANTS
    InServiceOwed
    ClockNotLost
PROPERTIES
    ClockServed
