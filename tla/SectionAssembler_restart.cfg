SPECIFICATION Spec
CONSTANTS
    PacketSize = 6
    MaxSection = 7
    Lengths = {2, 3, 7}
    Bogus = 3
    CCs = 4
    MaxSections = 4
    MaxFaults = 1
INVARIANTS NoGarbage
CHECK_DEADLOCK FALSE
