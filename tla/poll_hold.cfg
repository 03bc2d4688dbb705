CONSTANTS
    light = light
    plug = plug
    NoHold = NoHold
    NoTask = NoTask
    Devices = {light, plug}
    Polled = {light}
    Asked = {}
    Unloading = {}
    MayStop = FALSE
    MaxCommands = 1
    MaxWaitingOffs = 1
    HoldMax = 2
SPECIFICATION PollSpec
PROPERTIES
    NoPollUnderCommands
    ReleasedAtOnce
    HeldApartStays
