\* Two devices that use one identifier in turn, one list each.
CONSTANTS
    Clients = {c1, c2}
    Servers = {s1}
    ClientIds = {i1}
    ServerIds = {j1}
    Links = {1, 2, 3, 4}
    MaxQueue = 4
    TimeStamps = {0, 1}
    PlanValues = {5}
    Meterages = {4, 6}
    Schedules <- LatePlan
    None = None
    Algorithms = {a1}
    Lists <- TwoMeterages
    MaxLists = 1
    MaxStarts = 2
SYMMETRY DeviceSymmetry
SPECIFICATION HistorySpec
INVARIANTS TypeOK AnswersReachAsker ExchangesInOrder OneExchangePerStart
PROPERTIES ExchangesEndForAReason UsesCenter ObsoleteForAReason
