\* One device that may change its identifier, its algorithm and its list.
CONSTANTS
    Clients = {c1}
    Servers = {s1}
    ClientIds = {i1, i2}
    ServerIds = {j1}
    Links = {1, 2, 3, 4}
    MaxQueue = 2
    TimeStamps = {0, 1}
    PlanValues = {5}
    Meterages = {4, 6}
    Schedules <- NoPlans
    None = None
    Algorithms = {a1, a2}
    Lists <- TwoMeterages
    MaxLists = 2
    MaxStarts = 1
SPECIFICATION FairSpec
INVARIANTS ExchangesInOrder
PROPERTIES OnlyChangedDeviceThrows FiledUnderOwner ListIsSent ObsoleteForAReason
