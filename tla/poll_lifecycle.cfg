CONSTANTS
    light = light
    plug = plug
    NoHold = NoHold
    NoTask = NoTask
    Devices = {light}
    Polled = {light}
    Asked = {light}
    Unloading = {light}
    MayStop = TRUE
    MaxCommands = 1
    MaxWaitingOffs = 0
    HoldMax = 1
SPECIFICATION PollSpec
INVARIANTS
    PollTypeOK
    CapWhileHeld
    TimersOwned
PROPERTIES
    NoReleaseOnceStopping
