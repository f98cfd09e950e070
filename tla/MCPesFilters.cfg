SPECIFICATION MCSpec
CONSTANTS
    NumFilters = 3
    NumFeeds = 3
    Pids = {"p", "q"}
    Outputs = {"ts_tap", "tsdemux_tap"}
    PesTypes = {"video", "other", "invalid"}
    MaxPids = 2
    MaxEntries = 3
    Edits = TRUE
    Failing = TRUE
INVARIANTS TypeOK NoOops DvrOnce DvrServed TapGetsWhatItAsked FeedListSound NothingLeaks
