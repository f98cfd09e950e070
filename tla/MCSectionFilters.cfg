SPECIFICATION MCSpec
CONSTANTS
    NumFilters = 2
    NumFeeds = 2
    NumSecs = 2
    Pids = {"p", "q"}
    Oneshots = {TRUE, FALSE}
    Timeouts = {TRUE, FALSE}
    Room = 1
    Failing = TRUE
    LateTimer = FALSE
INVARIANTS TypeOK NoOops ClosedSlotsAreFree ChainsAreSound
    OneFeedPerPid BufferIsOfItsPid RunningIsServed NothingLeaks
PROPERTY CallsEnd
