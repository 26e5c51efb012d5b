SPECIFICATION Spec
CONSTANTS
    Visits = {v1, v2}
    Santri = {santri}
    Keys = {k1, k2}
    Rows = {w1}
    LastTime = 4
    Times <- MCTimes
    Hour = 2
    MaxHours = 2
    Notice = 0
    MaxRows = 1
    ScheduleRules = TRUE
    Requests = {r1, r2}
    MaxDrops = 1
INVARIANTS HeldAreDisjoint OneVisitPerKey OffersAreFree
SYMMETRY Alike
CHECK_DEADLOCK FALSE
