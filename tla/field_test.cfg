CONSTANTS
    lamp = lamp
    strip = strip
    Devices = {lamp, strip}
    Fragile = {lamp}
    Read = {lamp}
    SelfTest = TRUE
    MaxPresses = 2
    MaxRecoveries = 1
SPECIFICATION FieldSpec
CHECK_DEADLOCK FALSE
INVARIANTS
    JournalCovers
PROPERTIES
    NoneLeftBehind
    SignalEndsRun
    FragileRests
