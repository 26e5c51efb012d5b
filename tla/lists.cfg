SPECIFICATION Spec
CONSTANTS
    Ids <- MCIds
    Limit = 2
    MaxChanges = 2
    NoCursor = NoCursor
INVARIANTS PassedListsShowAll AheadListsLoseTheirCursors SortedListsDriftIsBounded
CHECK_DEADLOCK FALSE
