SPECIFICATION FairSpec
CONSTANTS
    Visits = {v1}
    Messages <- MCMessages
    PageSize = 1
    Requests = {r1, r2}
    Nothing = Nothing
    MaxFailures = 1
INVARIANTS ReviewsAreBlind BothReviewedIsRevealed
PROPERTIES ReviewsComeOut
CHECK_DEADLOCK FALSE
