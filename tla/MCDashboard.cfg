SPECIFICATION MCSpec
CONSTANTS
    FlightTimes <- MCFlightTimes
    Second = 2
    Statuses <- MCStatuses
    Horizon = 10
    Members = {m1, m2}
    Subject = m1
    Values = {1}
    Filterable = {m2}
    MaxPolls = 2
    MaxEdits = 2
INVARIANTS
    TypeOK
    SubmittedOnce
    TickedAsRendered
PROPERTIES
    EditKept
    BoardConverges
CHECK_DEADLOCK FALSE
