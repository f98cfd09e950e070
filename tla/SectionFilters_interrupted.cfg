SPECIFICATION Spec
CONSTANTS
    NumFilters = 2
    NumFeeds = 2
    NumSecs = 3
    Pids = {"p", "q"}
    Oneshots = {FALSE}
    Timeouts = {FALSE}
    Room = 1
    Failing = TRUE
    LateTimer = FALSE
INVARIANTS ReleasedIsEmpty
