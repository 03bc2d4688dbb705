SPECIFICATION TestSpec
CONSTANTS
    upper = upper
    lower = lower
    Devices = {lamp}
    Zones <- TwoZones
    ZoneOrder <- UpperFirst
    Powered = {lamp}
    Levels = {"warning", "debug"}
    MayStop = TRUE
PROPERTY PutBack
INVARIANT LoggerBack
PROPERTY CloseAfterRestore
CHECK_DEADLOCK FALSE
