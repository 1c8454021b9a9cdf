SPECIFICATION Spec
CONSTANTS
    a1 = a1
    here = here
    there = there
    h1 = h1
    Nothing = Nothing
    Accounts = {a1}
    Zones <- TwoZones
    Date <- Dates
    Clock <- Clocks
    SiteSchedules <- TwoSchedules
    OwnTimes <- TwoTimes
    Puts = {h1}
    MaxTime = 3
    MaxEdits = 1
    MaxFailedSaves = 0
    MaxRestarts = 0
PROPERTIES
    OnceADayForGood
CHECK_DEADLOCK FALSE
