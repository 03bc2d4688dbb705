CONSTANTS
    ceiling = ceiling
    lamp = lamp
    plug = plug
    ceiling1 = ceiling1
    ceiling2 = ceiling2
    lamp1 = lamp1
    plug1 = plug1
    Devices = {ceiling, lamp, plug}
    Lanes = {ceiling1, lamp1, plug1}
    DeviceOf <- McDeviceOf
    MaxLine <- McMaxLine
    Calls <- McCalls
    MaxCommands = 2
    MaxWaitingOffs = 2
    Unloading = {}
    MayStop = TRUE
SPECIFICATION FairOffSpec
INVARIANTS
    WaitHoldsPolls
PROPERTIES
    FirstEndingStands
    HoldsAsPromised
    EndsWithoutCap
