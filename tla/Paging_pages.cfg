SPECIFICATION FairPagingSpec
CONSTANTS
    None = None
    Ids = {1, 2, 3}
    Listings <- Pages
    max_retries = 1
    MaxDelay = 1
    MaxTime = 1
    Failures <- AnyFailure
INVARIANTS
    EachOnce
    RaisedInTurn
PROPERTIES
    ReadingEnds
CHECK_DEADLOCK FALSE
