SPECIFICATION Spec
CONSTANTS
    PacketSize = 6
    MaxSection = 7
    Lengths = {2, 3, 7}
    Bogus = 3
    CCs = 4
    MaxSections = 4
    MaxFaults = 3
INVARIANTS TypeOK WholeOnceSynced NoneMissed OnceInOrder
CHECK_DEADLOCK FALSE
