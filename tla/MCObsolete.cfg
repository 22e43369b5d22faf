\* README.md:63 asks for a greater time stamp, the code takes an equal one.
CONSTANTS
    Devices = {d1}
    TimeStamps = {0, 1, 2}
    PlanValues = {5, 255}
    Meterages = {100}
    None = None
    Schedules <- ChosenPlans
SPECIFICATION HistorySpec
PROPERTY ObsoleteOnlyWhenOlder
