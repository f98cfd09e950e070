SPECIFICATION Spec
CONSTANTS
    Readers = {"reader"}
    Windows = {"idle_resume"}
    Feeds = {"f1", "f2"}
    MaxCount = 3
INVARIANT FedFlows
CHECK_DEADLOCK FALSE
