SPECIFICATION Spec
CONSTANTS
    NumFilters = 2
    NumFeeds = 2
    NumSecs = 2
    Pids = {"p"}
    Oneshots = {FALSE}
    Timeouts = {TRUE}
    Room = 1
    Failing = FALSE
    LateTimer = TRUE
INVARIANTS RestartsThatFeed
