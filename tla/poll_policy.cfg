SPECIFICATION PolicySpec
CONSTANTS
    Base = 120
    MaxInterval = 200
    OnMax = 180
    SlowMax = 1
    AwayAfter = 2
    Relay = FALSE
INVARIANT PolledInTime
INVARIANT CutOnce
PROPERTY StaysAway
