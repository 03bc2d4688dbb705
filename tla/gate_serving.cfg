CONSTANTS
    command = command
    other = other
    poll = poll
    late = late
    bulb = bulb
    nightstand = nightstand
    proxy = proxy
    adapter = adapter
    NoTicket = NoTicket
    Addresses = {bulb, nightstand}
    Radios = {proxy, adapter}
    Proxies = {proxy}
    AddressOf <- McAddressOf
    RssiFloor = 0
    InFlightPerProxy = 1
    Calls = {command, other, poll}
    Polls = {poll}
    Lasts = {}
    Airs <- RoomAirs
    MaxWait = 1
    Grace = 0
    AvoidFor = 0
    MaxDeferred = 1
    MaxReleasing = 0
SPECIFICATION FairSpec
PROPERTIES
    AdmitsWithinRoom
    PollsYield
    CapsSpread
    NoRoomLeftUnused
    EveryCallGoes
