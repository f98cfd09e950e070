SPECIFICATION Spec
CONSTANTS
    Kind = "dvr"
    Oneshot = FALSE
    Sizes = {2, 4}
    MaxChunk = 2
    MaxCount = 3
    MaxBytes = 7
INVARIANT UnreadIntact
CHECK_DEADLOCK FALSE
