CONSTANTS
    light = light
    plug = plug
    NoHold = NoHold
    NoTask = NoTask
    Devices = {light}
    Polled = {light}
    Asked = {light}
    Unloading = {}
    MayStop = FALSE
    MaxCommands = 1
    MaxWaitingOffs = 0
    HoldMax = 1
SPECIFICATION FairSpec
PROPERTIES
    HeldPollRuns
