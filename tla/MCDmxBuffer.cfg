SPECIFICATION MCSpec
CONSTANTS
    Kind = "tap"
    Oneshot = FALSE
    Sizes = {3, 4}
    MaxChunk = 2
    MaxCount = 3
    MaxBytes = 7
INVARIANTS TypeOK UnreadIntact NoOverlap ReadIsContiguous NoLostWakeup NoGapInsideTapRead
PROPERTIES FifoSpec SleeperServed
CHECK_DEADLOCK FALSE
