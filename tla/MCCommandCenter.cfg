\* Two devices that are served in turn, with three kinds of plan, replaced at
\* any time, over three times; commands to 255 do not fit in an int8_t.
CONSTANTS
    Devices = {d1, d2}
    TimeStamps = {0, 1, 2}
    PlanValues = {5, 255}
    Meterages = {100}
    None = None
    Schedules <- ChosenPlans
SYMMETRY DeviceSymmetry
SPECIFICATION HistorySpec
INVARIANTS TypeOK CursorFindsPhase CommandReachesPlan StatsOrdered BufferOfLastEntry StatsAreRuns
PROPERTIES StatsOnlyGrow RefinesPolicy
