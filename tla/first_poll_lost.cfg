CONSTANTS
    light = light
    plug = plug
    NoHold = NoHold
    NoTask = NoTask
    Devices = {light, plug}
    Polled = {light}
    Asked = {light}
    Unloading = {}
    MayStop = FALSE
    MaxCommands = 1
    MaxWaitingOffs = 0
    HoldMax = 2
SPECIFICATION PollSpec
INVARIANTS
    FirstPollRuns
