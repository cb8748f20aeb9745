SPECIFICATION FairSpec
CONSTANTS
    Calendar <- MCCalendar
    MinutesPerHour = 2
    HoursPerDay = 3
    DaysPerMonth = 3
    MonthsPerYear = 3
    DaysPerWeek = 3
    TicksPerMinute = 2
    StartTimes <- MCStartTimes
    MaxCalls = 3
    Patterns <- MCPatterns
INVARIANTS FirstMatch ParsedExactly
PROPERTY SearchEnds
CHECK_DEADLOCK FALSE
