SPECIFICATION Spec
CONSTANTS
    NumFilters = 2
    NumFeeds = 2
    Pids = {"p", "0x2000"}
    Outputs = {"ts_tap"}
    PesTypes = {"other"}
    MaxPids = 1
    Edits = FALSE
    Failing = FALSE
INVARIANTS DvrOnce
