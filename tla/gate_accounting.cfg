CONSTANTS
    command = command
    other = other
    poll = poll
    late = late
    bulb = bulb
    nightstand = nightstand
    proxy = proxy
    adapter = adapter
    NoTicket = NoTicket
    Addresses = {bulb, nightstand}
    Radios = {proxy, adapter}
    Proxies = {proxy}
    AddressOf <- McAddressOf
    RssiFloor = 0
    InFlightPerProxy = 1
    Calls = {command, late, poll}
    Polls = {poll}
    Lasts = {late}
    Airs <- BusyAirs
    MaxWait = 1
    Grace = 1
    AvoidFor = 1
    MaxDeferred = 0
    MaxReleasing = 1
SPECIFICATION Spec
INVARIANTS
    TypeOK
    TicketAccounting
    TickWhileWaiting
PROPERTY
    CarriersNotAvoided
