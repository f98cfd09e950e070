SPECIFICATION FairSpec
CONSTANTS
    Readers = {"reader"}
    Windows <- StickWindows
    Feeds = {"f1", "f2"}
    MaxCount = 3
INVARIANTS TypeOK  NodeServes FreedIsUnused StreamsWhileFed PowerFollowsFrontend
PROPERTY RemovalEnds
CHECK_DEADLOCK FALSE
